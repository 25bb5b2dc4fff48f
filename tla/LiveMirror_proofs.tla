------------------------- MODULE LiveMirror_proofs -------------------------
(***************************************************************************)
(* Six promises of the mirror, for any legs, lots, settings and faults:    *)
(* its state is well typed, the file is what memory is whenever no handler *)
(* runs, no lot is booked as closed twice, no leg sells more than it       *)
(* bought, what is recorded as held is on the account, and what is on the  *)
(* account is recorded.                                                    *)
(***************************************************************************)
EXTENDS LiveMirror, Totals_proofs, TLAPS

Holdings == [Legs -> [qty : Nat, pending : BOOLEAN]]
Jobs == [kind : {"idle", "open", "clip", "price", "kill"},
         phase : {"retry", "body"}, retry : SUBSET Legs,
         asked : Legs \cup {NoLeg}, size : Nat,
         body : SUBSET Legs, dirty : BOOLEAN]

LEMMA LegsAreNotNone == \A l \in Legs : l # NoLeg
BY MirrorAssumption DEF NoLeg

-----------------------------------------------------------------------------
(* The gateway keeps its books natural numbers, and tells the truth about  *)
(* what a sale took, unless its answer was lost.                           *)
LEMMA ManageTyped == ASSUME NEW w \in Worlds PROVE Manage(w) \in Worlds
BY MirrorAssumption DEF Manage, Worlds, Monus

LEMMA WorldFields ==
  ASSUME NEW w \in Worlds
  PROVE  /\ Freed(w) \in Worlds /\ Freed(w).coins = w.coins
         /\ Failed(w) \in Worlds
         /\ FreeOf(w) \in Nat /\ FreeOf(w) <= w.coins
         /\ w.coins \in Nat /\ w.pos \in Nat
         /\ \A c \in Nat : [w EXCEPT !.coins = c] \in Worlds
         /\ \A c, p \in Nat, b \in BOOLEAN :
               [w EXCEPT !.coins = c, !.pos = p, !.backoff = b] \in Worlds
         /\ \A c \in Nat, b \in BOOLEAN : [w EXCEPT !.coins = c, !.backoff = b] \in Worlds
<1>1. Freed(w) \in Worlds /\ Freed(w).coins = w.coins /\ Failed(w) \in Worlds
  BY DEF Freed, Failed, Worlds
<1>2. FreeOf(w) \in Nat /\ FreeOf(w) <= w.coins /\ w.coins \in Nat /\ w.pos \in Nat
  BY DEF FreeOf, Worlds, Monus
<1>3. /\ \A c \in Nat : [w EXCEPT !.coins = c] \in Worlds
      /\ \A c \in Nat, b \in BOOLEAN : [w EXCEPT !.coins = c, !.backoff = b] \in Worlds
  BY DEF Worlds
<1>4. \A c, p \in Nat, b \in BOOLEAN :
         [w EXCEPT !.coins = c, !.pos = p, !.backoff = b] \in Worlds
  BY DEF Worlds
<1> QED
  BY <1>1, <1>2, <1>3, <1>4

(* An answer about a sale of at most q lots. *)
Truthful(a, q) ==
    /\ a.w \in Worlds /\ a.ok \in BOOLEAN /\ a.took \in 0..q
    /\ May("lose_sell") \/ a.ok \/ a.took = 0

LEMMA AnswerTruthful ==
  ASSUME NEW w \in Worlds, NEW q \in Nat
  PROVE  /\ \A x \in 0..q : Truthful(Answer(w, TRUE, x), q)
         /\ Truthful(Answer(w, FALSE, 0), q)
         /\ May("lose_sell") => Truthful(Answer(w, FALSE, q), q)
<1>1. ASSUME NEW x \in 0..q PROVE Truthful(Answer(w, TRUE, x), q)
  BY DEF Answer, Truthful
<1>2. Truthful(Answer(w, FALSE, 0), q)
  BY DEF Answer, Truthful
<1>3. ASSUME May("lose_sell") PROVE Truthful(Answer(w, FALSE, q), q)
  BY <1>3 DEF Answer, Truthful
<1> QED
  BY <1>1, <1>2, <1>3

LEMMA SalesTruthful ==
  ASSUME NEW w \in Worlds, NEW q \in Nat, NEW a \in Sales(w, q)
  PROVE  Truthful(a, q)
<1> DEFINE f == Freed(w)
           may == May("lose_sell")
<1>1. f \in Worlds
  BY WorldFields
<1>2. f.coins \in Nat /\ f.pos \in Nat /\ FreeOf(f) \in Nat /\ FreeOf(f) <= f.coins
  BY <1>1, WorldFields
<1>3. Failed(f) \in Worlds
  BY <1>1, WorldFields
<1>4. \/ a = Answer(w, FALSE, 0) \/ a = Answer(Failed(f), FALSE, 0)
      \/ /\ ~(q > FreeOf(f))
         /\ a = Sold(w, q) \/ (may /\ a = SoldUnheard(w, q))
            \/ \E x \in 0..q-1 : a = Expired(w, x)
  BY DEF Sales
<1> HIDE DEF f
<1>5. CASE a = Answer(w, FALSE, 0)
  BY <1>5, AnswerTruthful
<1>6. CASE a = Answer(Failed(f), FALSE, 0)
  BY <1>3, <1>6, AnswerTruthful
<1>7. ASSUME ~(q > FreeOf(f)), NEW x \in 0..q PROVE f.coins - x \in Nat
  BY <1>2, <1>7
<1>8. CASE ~(q > FreeOf(f)) /\ a = Sold(w, q)
  <2> DEFINE c == f.coins - q
             p == Monus(f.pos, q)
             g == [f EXCEPT !.coins = c, !.pos = p, !.backoff = FALSE]
  <2>1. p \in Nat
    BY <1>2 DEF Monus
  <2>2. c \in Nat /\ q \in 0..q
    BY <1>2, <1>8
  <2>3. a = Answer(Manage(g), TRUE, q)
    BY <1>8 DEF Sold, f
  <2> HIDE DEF c, p
  <2>4. g \in Worlds
    BY <1>1, <2>1, <2>2, WorldFields
  <2> HIDE DEF g
  <2>5. Manage(g) \in Worlds
    BY <2>4, ManageTyped
  <2> QED
    BY <2>2, <2>3, <2>5, AnswerTruthful
<1>9. CASE ~(q > FreeOf(f)) /\ may /\ a = SoldUnheard(w, q)
  <2> DEFINE c == f.coins - q
             g == [f EXCEPT !.coins = c]
  <2>1. c \in Nat
    BY <1>2, <1>9
  <2>2. a = Answer(Failed(g), FALSE, q)
    BY <1>9 DEF SoldUnheard, f
  <2> HIDE DEF c
  <2>3. g \in Worlds
    BY <1>1, <2>1, WorldFields
  <2> HIDE DEF g
  <2>4. Failed(g) \in Worlds
    BY <2>3, WorldFields
  <2> QED
    BY <1>9, <2>2, <2>4, AnswerTruthful
<1>10. ASSUME ~(q > FreeOf(f)), NEW x \in 0..q-1, a = Expired(w, x) PROVE Truthful(a, q)
  <2> DEFINE b == (x = 0)
             c == f.coins - x
             g == [f EXCEPT !.coins = c, !.backoff = b]
  <2>1. x \in 0..q
    BY <1>10
  <2>2. c \in Nat /\ b \in BOOLEAN
    BY <1>7, <1>10, <2>1
  <2>3. a = Answer(Manage(g), TRUE, x)
    BY <1>10 DEF Expired, f
  <2> HIDE DEF b, c
  <2>4. g \in Worlds
    BY <1>1, <2>2, WorldFields
  <2> HIDE DEF g
  <2>5. Manage(g) \in Worlds
    BY <2>4, ManageTyped
  <2> QED
    BY <2>1, <2>3, <2>5, AnswerTruthful
<1> QED
  BY <1>4, <1>5, <1>6, <1>8, <1>9, <1>10

LEMMA BuysTruthful ==
  ASSUME NEW w \in Worlds, NEW q \in BuyQty, NEW a \in Buys(w, q)
  PROVE  a.w \in Worlds /\ a.ok \in BOOLEAN /\ a.took \in {0, q}
<1>1. q \in Nat \ {0} /\ w.coins \in Nat /\ w.pos \in Nat
  BY MirrorAssumption, WorldFields
<1>2. ASSUME NEW fee \in {0, 1}
      PROVE Manage([w EXCEPT !.coins = @ + q - fee, !.pos = @ + q, !.backoff = FALSE]) \in Worlds
  <2>1. w.coins + q - fee \in Nat /\ w.pos + q \in Nat
    BY <1>1, <1>2
  <2> QED
    BY <2>1, WorldFields, ManageTyped
<1>3. [w EXCEPT !.coins = @ + q] \in Worlds
  <2>1. w.coins + q \in Nat
    BY <1>1
  <2> QED
    BY <2>1, WorldFields
<1> DEFINE Filled(fee) == Manage([w EXCEPT !.coins = @ + q - fee, !.pos = @ + q,
                                           !.backoff = FALSE])
<1>4. a \in {Answer(w, FALSE, 0), Answer(Filled(0), TRUE, q), Answer(Filled(1), TRUE, q),
             Answer([w EXCEPT !.coins = @ + q], FALSE, q), Answer(Manage(w), TRUE, 0)}
  BY DEF Buys
<1>5. Filled(0) \in Worlds /\ Filled(1) \in Worlds
  BY <1>2
<1> HIDE DEF Filled
<1>6. ASSUME NEW v \in Worlds, NEW ok \in BOOLEAN, NEW x \in {0, q}
      PROVE  /\ Answer(v, ok, x).w \in Worlds /\ Answer(v, ok, x).ok \in BOOLEAN
             /\ Answer(v, ok, x).took \in {0, q}
  BY DEF Answer
<1>7. Manage(w) \in Worlds
  BY ManageTyped
<1> QED
  BY <1>3, <1>4, <1>5, <1>6, <1>7

-----------------------------------------------------------------------------
(* Typing.                                                                 *)
LEMMA IdleTyped == Idle \in Jobs
BY DEF Idle, Jobs

LEMMA JobFields ==
  ASSUME NEW j \in Jobs
  PROVE  /\ \A l \in Legs, n \in Nat : [j EXCEPT !.asked = l, !.size = n] \in Jobs
         /\ \A l \in Legs : [j EXCEPT !.retry = @ \ {l}, !.dirty = TRUE] \in Jobs
         /\ \A l \in Legs, d \in BOOLEAN :
               [j EXCEPT !.retry = @ \ {l}, !.asked = NoLeg, !.size = 0, !.dirty = d] \in Jobs
         /\ \A b \in SUBSET Legs :
               [j EXCEPT !.phase = "body", !.dirty = FALSE, !.body = b] \in Jobs
         /\ [j EXCEPT !.body = {}] \in Jobs
         /\ [j EXCEPT !.body = {}, !.dirty = TRUE] \in Jobs
         /\ \A l \in Legs : [j EXCEPT !.body = @ \ {l}, !.dirty = TRUE] \in Jobs
BY DEF Jobs

LEMMA HeldFields ==
  ASSUME NEW h \in Holdings, NEW l \in Legs
  PROVE  /\ [h EXCEPT ![l] = Nothing] \in Holdings
         /\ \A q \in Nat : [h EXCEPT ![l] = [qty |-> q, pending |-> FALSE]] \in Holdings
         /\ [h EXCEPT ![l] = [@ EXCEPT !.pending = TRUE]] \in Holdings
         /\ h[l].qty \in Nat
BY DEF Holdings, Nothing

LEMMA Accounted ==
  ASSUME NEW l \in Legs, NEW took \in Nat, NEW booked \in Nat, Account(l, took, booked),
         unsold \in [Legs -> Int], unbooked \in [Legs -> Int]
  PROVE  /\ unsold' \in [Legs -> Int] /\ unbooked' \in [Legs -> Int]
         /\ \A m \in Legs \ {l} : unsold'[m] = unsold[m] /\ unbooked'[m] = unbooked[m]
         /\ unsold'[l] = Left(unsold[l], took) /\ unbooked'[l] = Left(unbooked[l], booked)
BY DEF Account, Left

LEMMA StartTyped ==
  ASSUME NEW kind \in {"open", "clip", "price", "kill"}, NEW legs \in SUBSET Legs,
         NEW phase \in {"retry", "body"}, Start(kind, legs, phase)
  PROVE  /\ job' \in Jobs /\ job = Idle /\ job'.asked = NoLeg /\ job'.dirty = (kind = "kill")
         /\ UNCHANGED <<world, held, file, cooling, setting, unwritten, unsold, unbooked>>
<1> DEFINE r == IF phase = "retry" THEN Due ELSE {}
           d == (kind = "kill")
<1>1. r \in SUBSET Legs /\ d \in BOOLEAN
  BY DEF Due
<1>2. job' = [Idle EXCEPT !.kind = kind, !.phase = phase, !.body = legs, !.retry = r,
                          !.dirty = d]
  BY DEF Start
<1> HIDE DEF r, d
<1>3. job' \in Jobs /\ job'.asked = NoLeg /\ job'.dirty = d
  BY <1>1, <1>2 DEF Idle, Jobs
<1> QED
  BY <1>3 DEF Start, d

LEMMA TypeInit == Init => TypeOK
<1> SUFFICES ASSUME Init PROVE TypeOK
  OBVIOUS
<1>1. world \in Worlds
  BY DEF Init, Worlds
<1>2. held \in Holdings /\ file \in Holdings
  BY DEF Init, Holdings, Nothing
<1>3. job \in Jobs
  BY IdleTyped DEF Init
<1>4. unsold \in [Legs -> Int] /\ unbooked \in [Legs -> Int]
  BY DEF Init
<1>5. cooling \in SUBSET Legs /\ setting \in Settings /\ unwritten \in BOOLEAN
  BY DEF Init
<1> QED
  BY <1>1, <1>2, <1>3, <1>4, <1>5 DEF TypeOK, Holdings, Jobs

Typed ==
    /\ world \in Worlds /\ held \in Holdings /\ file \in Holdings
    /\ cooling \in SUBSET Legs /\ job \in Jobs /\ setting \in Settings
    /\ unsold \in [Legs -> Int] /\ unbooked \in [Legs -> Int] /\ unwritten \in BOOLEAN

LEMMA SaveTyped ==
  ASSUME Typed, Save
  PROVE  file' \in Holdings /\ unwritten' \in BOOLEAN
BY DEF Typed, Save, Persist

LEMMA TypeStep == Typed /\ [Next]_vars => Typed'
<1> SUFFICES ASSUME Typed, [Next]_vars PROVE Typed'
  OBVIOUS
<1> USE DEF Typed
<1>1. ASSUME NEW l \in Legs, LegOpens(l) \/ LegClips(l) PROVE Typed'
  BY <1>1, StartTyped DEF LegOpens, LegClips
<1>2. CASE PriceTick \/ Kill
  <2>1. {l \in Legs : Holds(l)} \in SUBSET Legs /\ {} \in SUBSET Legs
    OBVIOUS
  <2> QED
    BY <1>2, <2>1, StartTyped DEF PriceTick, Kill
<1>3. ASSUME NEW l \in Legs, RetryAsk(l) PROVE Typed'
  <2>1. Least(held[l].qty, FreeOf(world)) \in Nat /\ held[l].qty \in Nat
    BY WorldFields, HeldFields DEF Least
  <2>2. PICK n \in Nat : job' = [job EXCEPT !.asked = l, !.size = n]
    BY <1>3, <2>1 DEF RetryAsk
  <2>3. job' \in Jobs
    BY <2>2, JobFields
  <2> QED
    BY <1>3, <2>3 DEF RetryAsk
<1>4. ASSUME NEW l \in Legs, RetryDust(l) PROVE Typed'
  <2>1. held[l].qty \in Nat
    BY HeldFields
  <2>2. unsold' \in [Legs -> Int] /\ unbooked' \in [Legs -> Int]
    BY <1>4, <2>1, Accounted DEF RetryDust
  <2>3. held' \in Holdings /\ job' \in Jobs
    BY <1>4, HeldFields, JobFields DEF RetryDust
  <2> QED
    BY <1>4, <2>2, <2>3 DEF RetryDust
<1>5. ASSUME NEW l \in Legs, RetrySell(l) PROVE Typed'
  <2>1. job.size \in Nat
    BY DEF Jobs
  <2>2. PICK a \in Sales(world, job.size) :
           /\ world' = a.w
           /\ held' = IF a.ok THEN [held EXCEPT ![l] = Nothing] ELSE held
           /\ Account(l, a.took, IF a.ok THEN job.size ELSE 0)
           /\ job' = [job EXCEPT !.retry = @ \ {l}, !.asked = NoLeg, !.size = 0,
                                 !.dirty = @ \/ a.ok]
    BY <1>5 DEF RetrySell
  <2>3. Truthful(a, job.size)
    BY <2>1, SalesTruthful
  <2>4. a.took \in Nat /\ (IF a.ok THEN job.size ELSE 0) \in Nat /\ a.w \in Worlds
    BY <2>1, <2>3 DEF Truthful
  <2>5. unsold' \in [Legs -> Int] /\ unbooked' \in [Legs -> Int]
    BY <2>2, <2>4, Accounted
  <2> DEFINE d == job.dirty \/ a.ok
  <2>6. d \in BOOLEAN
    OBVIOUS
  <2>7. job' = [job EXCEPT !.retry = @ \ {l}, !.asked = NoLeg, !.size = 0, !.dirty = d]
    BY <2>2
  <2> HIDE DEF d
  <2>8. job' \in Jobs
    BY <2>6, <2>7, JobFields
  <2>9. held' \in Holdings
    BY <2>2, HeldFields
  <2> QED
    BY <1>5, <2>2, <2>4, <2>5, <2>8, <2>9 DEF RetrySell
<1>6. CASE RetryEnds
  <2>1. PICK broken \in SUBSET Legs :
           job' = [job EXCEPT !.phase = "body", !.dirty = FALSE,
                              !.body = IF job.kind = "price" THEN broken ELSE @]
    BY <1>6 DEF RetryEnds
  <2> DEFINE b == IF job.kind = "price" THEN broken ELSE job.body
  <2>2. b \in SUBSET Legs /\ job' = [job EXCEPT !.phase = "body", !.dirty = FALSE, !.body = b]
    BY <2>1 DEF Jobs
  <2> HIDE DEF b
  <2>3. job' \in Jobs
    BY <2>2, JobFields
  <2> QED
    BY <1>6, <2>3, SaveTyped DEF RetryEnds
<1>7. ASSUME NEW l \in Legs, Decline(l) \/ NotHeld(l) PROVE Typed'
  BY <1>7, JobFields DEF Decline, NotHeld
<1>8. ASSUME NEW l \in Legs, NEW q \in BuyQty, Buy(l, q) PROVE Typed'
  <2> DEFINE h == [held EXCEPT ![l] = [qty |-> q, pending |-> FALSE]]
             j == [job EXCEPT !.body = {}]
             k == [job EXCEPT !.body = {}, !.dirty = TRUE]
  <2>1. q \in Nat
    BY MirrorAssumption
  <2>2. h \in Holdings /\ j \in Jobs /\ k \in Jobs
    BY <2>1, HeldFields, JobFields
  <2>3. PICK a \in Buys(world, q) :
           /\ world' = a.w /\ held' \in {held, h}
           /\ unsold' \in {unsold, [unsold EXCEPT ![l] = q]}
           /\ unbooked' \in {unbooked, [unbooked EXCEPT ![l] = q]}
           /\ job' \in {j, k}
    BY <1>8 DEF Buy
  <2>4. world' \in Worlds
    BY <2>3, BuysTruthful
  <2> HIDE DEF h, j, k
  <2>5. held' \in Holdings /\ job' \in Jobs
    BY <2>2, <2>3
  <2>6. unsold' \in [Legs -> Int] /\ unbooked' \in [Legs -> Int]
    BY <2>1, <2>3
  <2> QED
    BY <1>8, <2>4, <2>5, <2>6 DEF Buy
<1>9. ASSUME NEW l \in Legs, SellLeg(l) PROVE Typed'
  <2>1. held[l].qty \in Nat
    BY HeldFields
  <2>2. PICK a \in Sales(world, held[l].qty) :
           /\ world' = a.w
           /\ held' = [held EXCEPT ![l] = IF a.ok THEN Nothing ELSE [@ EXCEPT !.pending = TRUE]]
           /\ Account(l, a.took, IF a.ok THEN held[l].qty ELSE 0)
    BY <1>9 DEF SellLeg
  <2>3. Truthful(a, held[l].qty)
    BY <2>1, SalesTruthful
  <2>4. a.took \in Nat /\ (IF a.ok THEN held[l].qty ELSE 0) \in Nat /\ a.w \in Worlds
    BY <2>1, <2>3 DEF Truthful
  <2>5. unsold' \in [Legs -> Int] /\ unbooked' \in [Legs -> Int]
    BY <2>2, <2>4, Accounted
  <2>6. held' \in Holdings
    BY <2>2, HeldFields
  <2>7. job' \in Jobs
    BY <1>9, JobFields DEF SellLeg
  <2> QED
    BY <1>9, <2>2, <2>4, <2>5, <2>6, <2>7 DEF SellLeg
<1>10. CASE Finish
  BY <1>10, IdleTyped, SaveTyped DEF Finish
<1>11. CASE Reconcile \/ Cooled \/ BackoffEnds \/ StopTriggers
  <2>1. world' \in Worlds
    <3>1. CASE Reconcile \/ Cooled
      BY <1>11, <3>1, ManageTyped DEF Reconcile, Cooled
    <3>2. CASE BackoffEnds
      BY <3>2 DEF BackoffEnds, Worlds
    <3>3. CASE StopTriggers
      <4>1. Monus(world.coins, world.armed) \in Nat
        BY DEF Worlds, Monus
      <4> QED
        BY <3>3, <4>1 DEF StopTriggers, Worlds
    <3> QED
      BY <1>11, <3>1, <3>2, <3>3
  <2> QED
    BY <1>11, <2>1 DEF Reconcile, Cooled, BackoffEnds, StopTriggers
<1>12. CASE Restart
  <2> DEFINE locked == world.orphan + world.armed
             free == Monus(world.coins, locked)
             w == [coins |-> world.coins, orphan |-> locked,
                   pos |-> IF free < MinSell THEN 0 ELSE free,
                   armed |-> 0, latch |-> FALSE, backoff |-> FALSE]
  <2>1. locked \in Nat /\ free \in Nat /\ world.coins \in Nat
    BY DEF Worlds, Monus
  <2>2. w \in Worlds
    BY <2>1 DEF Worlds
  <2>3. world' = Manage(w)
    BY <1>12 DEF Restart
  <2> HIDE DEF w
  <2> QED
    BY <1>12, <2>2, <2>3, ManageTyped, IdleTyped DEF Restart
<1>13. CASE UNCHANGED vars
  BY <1>13 DEF vars
<1> QED
  BY <1>1, <1>2, <1>3, <1>4, <1>5, <1>6, <1>7, <1>8, <1>9, <1>10, <1>11, <1>12, <1>13
  DEF Next, HandlerStep

(* The mirror's records stay well formed and the account non-negative,     *)
(* under every fault (main.cpp: Hold; GW: close and clamp of a position).  *)
THEOREM TypeCorrect == Spec => []TypeOK
<1>1. Init => Typed
  BY TypeInit DEF TypeOK, Typed, Holdings, Jobs
<1>2. Typed => TypeOK
  BY DEF TypeOK, Typed, Holdings, Jobs
<1> QED
  BY <1>1, <1>2, TypeStep, PTL DEF Spec

-----------------------------------------------------------------------------
(* The file.  Whatever changes a holding makes its handler dirty, and a    *)
(* handler tries to write the file before it forgets that.                 *)
FileInv ==
    /\ ~job.dirty /\ ~unwritten => file = held
    /\ unwritten => May("write_fail")

LEMMA FileStep == Typed /\ FileInv /\ [Next]_vars => FileInv'
<1> SUFFICES ASSUME Typed, FileInv, [Next]_vars PROVE FileInv'
  OBVIOUS
<1>0. job \in Jobs
  BY DEF Typed
<1> USE DEF May
<1>1. ASSUME job = Idle, UNCHANGED <<held, file, setting, unwritten>> PROVE FileInv'
  BY <1>1 DEF FileInv, Idle
<1>2. ASSUME NEW l \in Legs, LegOpens(l) \/ LegClips(l) PROVE FileInv'
  BY <1>1, <1>2 DEF LegOpens, LegClips, Start
<1>3. CASE PriceTick \/ Kill
  BY <1>1, <1>3 DEF PriceTick, Kill, Start
<1>4. ASSUME NEW l \in Legs, RetryAsk(l) PROVE FileInv'
  <2>1. job'.dirty = job.dirty /\ UNCHANGED <<held, file, setting, unwritten>>
    BY <1>0, <1>4 DEF RetryAsk, Jobs
  <2> QED
    BY <2>1 DEF FileInv
<1>5. ASSUME NEW l \in Legs, RetryDust(l) PROVE FileInv'
  BY <1>0, <1>5 DEF RetryDust, FileInv, Jobs
<1>6. ASSUME NEW l \in Legs, RetrySell(l) PROVE FileInv'
  <2>1. PICK a : /\ held' = IF a.ok THEN [held EXCEPT ![l] = Nothing] ELSE held
                 /\ job' = [job EXCEPT !.retry = @ \ {l}, !.asked = NoLeg, !.size = 0,
                                       !.dirty = @ \/ a.ok]
    BY <1>6, Zenon DEF RetrySell
  <2>2. UNCHANGED <<file, setting, unwritten>>
    BY <1>6 DEF RetrySell
  <2> DEFINE d == job.dirty \/ a.ok
  <2>3. job' = [job EXCEPT !.retry = @ \ {l}, !.asked = NoLeg, !.size = 0, !.dirty = d]
    BY <2>1
  <2> HIDE DEF d
  <2>4. job'.dirty = d
    BY <1>0, <2>3 DEF Jobs
  <2> QED
    BY <2>1, <2>2, <2>4 DEF FileInv, d
<1>7. CASE RetryEnds
  BY <1>7 DEF RetryEnds, Save, Persist, FileInv
<1>8. ASSUME NEW l \in Legs, Decline(l) \/ NotHeld(l) PROVE FileInv'
  BY <1>0, <1>8 DEF Decline, NotHeld, FileInv, Jobs
<1>9. ASSUME NEW l \in Legs, NEW q \in BuyQty, Buy(l, q) PROVE FileInv'
  <2>1. \/ job' = [job EXCEPT !.body = {}, !.dirty = TRUE]
        \/ job' = [job EXCEPT !.body = {}] /\ held' = held
    BY <1>9 DEF Buy
  <2>2. job'.dirty = TRUE \/ (job'.dirty = job.dirty /\ held' = held)
    BY <1>0, <2>1 DEF Jobs
  <2> QED
    BY <1>9, <2>2 DEF Buy, FileInv
<1>10. ASSUME NEW l \in Legs, SellLeg(l) PROVE FileInv'
  BY <1>0, <1>10 DEF SellLeg, FileInv, Jobs
<1>11. CASE Finish
  BY <1>11 DEF Finish, Save, Persist, FileInv
<1>12. CASE Reconcile \/ Cooled \/ BackoffEnds \/ StopTriggers
  BY <1>12 DEF Reconcile, Cooled, BackoffEnds, StopTriggers, FileInv
<1>13. CASE Restart
  BY <1>13 DEF Restart, FileInv
<1>14. CASE UNCHANGED vars
  BY <1>14 DEF vars, FileInv
<1> QED
  BY <1>2, <1>3, <1>4, <1>5, <1>6, <1>7, <1>8, <1>9, <1>10, <1>11, <1>12, <1>13, <1>14
  DEF Next, HandlerStep

(* Between handlers a restart loses and resurrects nothing, whatever the   *)
(* exchange does and whenever the process dies, unless the last write of   *)
(* the file failed (main.cpp: persist_ at the end of each handler).        *)
THEOREM FileNeverBehind == Spec => []FileCurrent
<1>1. Init => FileInv
  BY DEF Init, FileInv
<1>2. FileInv => FileCurrent
  BY DEF FileInv, FileCurrent, Idle
<1>3. Init => Typed
  BY TypeInit DEF TypeOK, Typed, Holdings, Jobs
<1> QED
  BY <1>1, <1>2, <1>3, TypeStep, FileStep, PTL DEF Spec

-----------------------------------------------------------------------------
(* What is left of a leg's BUY.  As long as a leg holds lots they are what *)
(* its BUY brought, nothing of it sold or booked; a retry asks for no more *)
(* than that; and only the end of a holding sells or books any of it.      *)
Intact(h, left) ==
    \A l \in Legs : left[l] >= 0 /\ (h[l].qty > 0 => left[l] = h[l].qty)

AskInv ==
    \A l \in Legs : job.asked = l
        => job.phase = "retry" /\ l \in job.retry /\ job.size <= held[l].qty

Safe == ~May("crash") /\ ~May("write_fail")

BookedInv == Safe => Intact(held, unbooked)
SoldInv == Safe /\ ~May("lose_sell") => Intact(held, unsold)

LEMMA AskStep == Typed /\ AskInv /\ [Next]_vars => AskInv'
<1> SUFFICES ASSUME Typed, AskInv, [Next]_vars PROVE AskInv'
  OBVIOUS
<1>0. job \in Jobs /\ held \in Holdings /\ world \in Worlds
  BY DEF Typed
<1>1. ASSUME NEW l \in Legs, LegOpens(l) \/ LegClips(l) PROVE AskInv'
  BY <1>1, StartTyped, LegsAreNotNone DEF LegOpens, LegClips, AskInv
<1>2. CASE PriceTick \/ Kill
  <2>1. {l \in Legs : Holds(l)} \in SUBSET Legs /\ {} \in SUBSET Legs
    OBVIOUS
  <2> QED
    BY <1>2, <2>1, StartTyped, LegsAreNotNone DEF PriceTick, Kill, AskInv
<1>3. ASSUME NEW l \in Legs, RetryAsk(l) PROVE AskInv'
  <2> DEFINE q == held[l].qty
             m == Least(q, FreeOf(world))
  <2>4. q \in Nat /\ FreeOf(world) \in Nat
    BY <1>0, HeldFields, WorldFields
  <2>1. m <= q /\ q <= q
    BY <2>4 DEF Least
  <2>2. PICK n \in {m, q} : job' = [job EXCEPT !.asked = l, !.size = n]
    BY <1>3, Zenon DEF RetryAsk
  <2> HIDE DEF m
  <2>3. /\ job'.asked = l /\ job'.size = n /\ job'.phase = job.phase
        /\ job'.retry = job.retry
    BY <1>0, <2>2 DEF Jobs
  <2> QED
    BY <1>3, <2>1, <2>2, <2>3 DEF RetryAsk, Retrying, AskInv
<1>4. ASSUME NEW l \in Legs, RetryDust(l) PROVE AskInv'
  <2>1. job.asked = NoLeg /\ job'.asked = NoLeg
    BY <1>0, <1>4 DEF RetryDust, Retrying, Jobs
  <2> QED
    BY <2>1, LegsAreNotNone DEF AskInv
<1>5. ASSUME NEW l \in Legs, RetrySell(l) PROVE AskInv'
  <2>1. PICK d : job' = [job EXCEPT !.retry = @ \ {l}, !.asked = NoLeg, !.size = 0,
                                    !.dirty = d]
    BY <1>5, Zenon DEF RetrySell
  <2>2. job'.asked = NoLeg
    BY <1>0, <2>1 DEF Jobs
  <2> QED
    BY <2>2, LegsAreNotNone DEF AskInv
<1>6. CASE RetryEnds
  <2>1. PICK b : job' = [job EXCEPT !.phase = "body", !.dirty = FALSE, !.body = b]
    BY <1>6, Zenon DEF RetryEnds
  <2>2. job'.asked = job.asked /\ job.retry = {}
    BY <1>0, <1>6, <2>1 DEF Jobs, RetryEnds
  <2> QED
    BY <2>2 DEF AskInv
<1>7. ASSUME NEW l \in Legs, NEW q \in BuyQty, Buy(l, q) PROVE AskInv'
  <2>1. job.phase = "body" /\ job'.asked = job.asked
    BY <1>0, <1>7 DEF Buy, Jobs
  <2> QED
    BY <2>1 DEF AskInv
<1>8. CASE Finish \/ Restart
  BY <1>8, LegsAreNotNone DEF Finish, Restart, AskInv, Idle
<1>9. CASE Reconcile \/ Cooled \/ BackoffEnds \/ StopTriggers \/ UNCHANGED vars
  BY <1>9 DEF Reconcile, Cooled, BackoffEnds, StopTriggers, vars, AskInv
<1>10. ASSUME NEW l \in Legs, Decline(l) \/ NotHeld(l) \/ SellLeg(l) PROVE AskInv'
  <2>1. job.phase = "body" /\ job'.asked = job.asked
    BY <1>0, <1>10 DEF Decline, NotHeld, SellLeg, Jobs
  <2> QED
    BY <2>1 DEF AskInv
<1> QED
  BY <1>1, <1>2, <1>3, <1>4, <1>5, <1>6, <1>7, <1>8, <1>9, <1>10 DEF Next, HandlerStep

(* A holding may begin with its BUY, end with at most its lots, or stay.   *)
LEMMA LegBegins ==
  ASSUME NEW h \in Holdings, NEW left \in [Legs -> Int], Intact(h, left),
         NEW l \in Legs, NEW q \in Nat
  PROVE  Intact([h EXCEPT ![l] = [qty |-> q, pending |-> FALSE]], [left EXCEPT ![l] = q])
BY DEF Intact, Holdings

LEMMA LegEnds ==
  ASSUME NEW h \in Holdings, NEW left \in [Legs -> Int], Intact(h, left),
         NEW l \in Legs, NEW out \in Nat, out <= h[l].qty
  PROVE  Intact([h EXCEPT ![l] = Nothing], [left EXCEPT ![l] = Left(@, out)])
<1>1. h[l].qty \in Nat /\ left[l] \in Int
  BY HeldFields
<1>2. Left(left[l], out) >= 0
  BY <1>1 DEF Left, Intact
<1> QED
  BY <1>2 DEF Intact, Holdings, Nothing

LEMMA LegStays ==
  ASSUME NEW h \in Holdings, NEW left \in [Legs -> Int], Intact(h, left), NEW l \in Legs
  PROVE  /\ Intact(h, [left EXCEPT ![l] = Left(@, 0)])
         /\ Intact([h EXCEPT ![l] = [@ EXCEPT !.pending = TRUE]],
                   [left EXCEPT ![l] = Left(@, 0)])
<1>1. left[l] \in Int /\ left[l] >= 0
  BY DEF Intact
<1>2. [left EXCEPT ![l] = Left(@, 0)] = left
  BY <1>1 DEF Left
<1>3. \A k \in Legs : [h EXCEPT ![l] = [@ EXCEPT !.pending = TRUE]][k].qty = h[k].qty
  BY DEF Holdings
<1> QED
  BY <1>2, <1>3 DEF Intact

LEMMA ObserversStep ==
  ASSUME Typed, AskInv, FileInv, BookedInv, SoldInv, [Next]_vars
  PROVE  BookedInv' /\ SoldInv'
<1> DEFINE Kept == BookedInv' /\ SoldInv'
<1>0. /\ held \in Holdings /\ job \in Jobs /\ world \in Worlds
      /\ unsold \in [Legs -> Int] /\ unbooked \in [Legs -> Int]
  BY DEF Typed
<1>1. ASSUME UNCHANGED <<setting, held, unsold, unbooked>> PROVE Kept
  BY <1>1 DEF BookedInv, SoldInv, Safe, May, Intact
<1>2. ASSUME NEW l \in Legs, RetryDust(l) PROVE Kept
  <2>1. held[l].qty \in Nat
    BY <1>0, HeldFields
  <2>2. /\ held' = [held EXCEPT ![l] = Nothing] /\ setting' = setting
        /\ unsold' = [unsold EXCEPT ![l] = Left(@, 0)]
        /\ unbooked' = [unbooked EXCEPT ![l] = Left(@, held[l].qty)]
    BY <1>2 DEF RetryDust, Account
  <2>3. held[l].qty <= held[l].qty /\ 0 <= held[l].qty
    BY <2>1
  <2>4. Intact(held, unbooked) => Intact(held', unbooked')
    BY <1>0, <2>1, <2>2, <2>3, LegEnds
  <2>5. Intact(held, unsold) => Intact(held', unsold')
    BY <1>0, <2>2, <2>3, LegEnds
  <2> QED
    BY <2>2, <2>4, <2>5 DEF BookedInv, SoldInv, Safe, May
<1>3. ASSUME NEW l \in Legs, NEW q \in Nat, NEW a, Truthful(a, q), q <= held[l].qty,
             NEW n \in Nat, n <= held[l].qty,
             \/ a.ok /\ held' = [held EXCEPT ![l] = Nothing]
             \/ ~a.ok /\ held' \in {held, [held EXCEPT ![l] = [@ EXCEPT !.pending = TRUE]]},
             Account(l, a.took, IF a.ok THEN n ELSE 0), setting' = setting
      PROVE  Kept
  <2>0. held[l].qty \in Nat /\ a.took \in 0..q
    BY <1>0, <1>3, HeldFields DEF Truthful
  <2>1. a.took \in Nat /\ a.took <= held[l].qty
    BY <1>3, <2>0
  <2>2. CASE a.ok
    <3>1. /\ unsold' = [unsold EXCEPT ![l] = Left(@, a.took)]
          /\ unbooked' = [unbooked EXCEPT ![l] = Left(@, n)]
          /\ held' = [held EXCEPT ![l] = Nothing]
      BY <1>3, <2>2 DEF Account
    <3> QED
      BY <1>0, <1>3, <2>1, <3>1, LegEnds DEF BookedInv, SoldInv, Safe, May
  <2>3. CASE ~a.ok
    <3>1. /\ unbooked' = [unbooked EXCEPT ![l] = Left(@, 0)]
          /\ ~May("lose_sell") => unsold' = [unsold EXCEPT ![l] = Left(@, 0)]
          /\ held' \in {held, [held EXCEPT ![l] = [@ EXCEPT !.pending = TRUE]]}
      BY <1>3, <2>3 DEF Account, Truthful
    <3>2. ASSUME Intact(held, unbooked) PROVE Intact(held', unbooked')
      <4>1. /\ Intact(held, [unbooked EXCEPT ![l] = Left(@, 0)])
            /\ Intact([held EXCEPT ![l] = [@ EXCEPT !.pending = TRUE]],
                      [unbooked EXCEPT ![l] = Left(@, 0)])
        BY <1>0, <3>2, LegStays
      <4> QED
        BY <3>1, <4>1
    <3>3. ASSUME ~May("lose_sell"), Intact(held, unsold) PROVE Intact(held', unsold')
      <4>1. /\ Intact(held, [unsold EXCEPT ![l] = Left(@, 0)])
            /\ Intact([held EXCEPT ![l] = [@ EXCEPT !.pending = TRUE]],
                      [unsold EXCEPT ![l] = Left(@, 0)])
        BY <1>0, <3>3, LegStays
      <4> QED
        BY <3>1, <3>3, <4>1
    <3>4. setting' = setting
      BY <1>3
    <3>5. /\ Intact(held, unbooked) => Intact(held', unbooked')
          /\ ~May("lose_sell") /\ Intact(held, unsold) => Intact(held', unsold')
      BY <3>2, <3>3
    <3> QED
      BY <3>4, <3>5 DEF BookedInv, SoldInv, Safe, May
  <2> QED
    BY <2>2, <2>3
<1>4. ASSUME NEW l \in Legs, RetrySell(l) PROVE Kept
  <2>1. job.size \in Nat /\ job.size <= held[l].qty
    BY <1>0, <1>4 DEF Jobs, AskInv, RetrySell
  <2>2. PICK a \in Sales(world, job.size) :
           /\ held' = IF a.ok THEN [held EXCEPT ![l] = Nothing] ELSE held
           /\ Account(l, a.took, IF a.ok THEN job.size ELSE 0)
    BY <1>4 DEF RetrySell
  <2>3. Truthful(a, job.size) /\ setting' = setting
    BY <1>0, <1>4, <2>1, SalesTruthful DEF RetrySell
  <2> QED
    BY <1>3, <2>1, <2>2, <2>3
<1>5. ASSUME NEW l \in Legs, SellLeg(l) PROVE Kept
  <2>0. held[l].qty \in Nat
    BY <1>0, HeldFields
  <2>1. held[l].qty \in Nat /\ held[l].qty <= held[l].qty
    BY <2>0
  <2>2. PICK a \in Sales(world, held[l].qty) :
           /\ held' = [held EXCEPT ![l] = IF a.ok THEN Nothing ELSE [@ EXCEPT !.pending = TRUE]]
           /\ Account(l, a.took, IF a.ok THEN held[l].qty ELSE 0)
    BY <1>5 DEF SellLeg
  <2>3. Truthful(a, held[l].qty) /\ setting' = setting
    BY <1>0, <1>5, <2>1, SalesTruthful DEF SellLeg
  <2> QED
    BY <1>3, <2>1, <2>2, <2>3
<1>6. ASSUME NEW l \in Legs, NEW q \in BuyQty, Buy(l, q) PROVE Kept
  <2>1. q \in Nat
    BY MirrorAssumption
  <2>2. \/ UNCHANGED <<setting, held, unsold, unbooked>>
        \/ /\ held' = [held EXCEPT ![l] = [qty |-> q, pending |-> FALSE]]
           /\ unsold' = [unsold EXCEPT ![l] = q] /\ unbooked' = [unbooked EXCEPT ![l] = q]
           /\ setting' = setting
    BY <1>6 DEF Buy
  <2> QED
    BY <1>0, <1>1, <2>1, <2>2, LegBegins DEF BookedInv, SoldInv, Safe, May
<1>7. CASE Restart
  <2>1. May("crash") \/ job = Idle
    BY <1>7 DEF Restart
  <2>2. job = Idle /\ ~May("write_fail") => held' = held
    BY <1>7 DEF Restart, FileInv, Idle
  <2>3. UNCHANGED <<setting, unsold, unbooked>>
    BY <1>7 DEF Restart
  <2> QED
    BY <1>1, <2>1, <2>2, <2>3 DEF BookedInv, SoldInv, Safe, May
<1>8. ASSUME NEW l \in Legs, \/ LegOpens(l) \/ LegClips(l) \/ RetryAsk(l)
                             \/ Decline(l) \/ NotHeld(l)
      PROVE Kept
  BY <1>1, <1>8 DEF LegOpens, LegClips, Start, RetryAsk, Decline, NotHeld
<1>9. CASE PriceTick \/ Kill \/ RetryEnds \/ Finish \/ Reconcile \/ Cooled \/ BackoffEnds
           \/ StopTriggers \/ UNCHANGED vars
  BY <1>1, <1>9 DEF PriceTick, Kill, Start, RetryEnds, Finish, Reconcile, Cooled, BackoffEnds,
                    StopTriggers, vars
<1> QED
  BY <1>2, <1>4, <1>5, <1>6, <1>7, <1>8, <1>9 DEF Next, HandlerStep

LEMMA ObserversInit == Init => AskInv /\ BookedInv /\ SoldInv
BY LegsAreNotNone DEF Init, AskInv, BookedInv, SoldInv, Intact, Idle, Nothing

LEMMA ObserversHold == Spec => [](BookedInv /\ SoldInv)
<1>1. Init => Typed /\ FileInv
  BY TypeInit DEF Init, FileInv, TypeOK, Typed, Holdings, Jobs
<1> QED
  BY <1>1, TypeStep, FileStep, AskStep, ObserversInit, ObserversStep, PTL DEF Spec

(* No lot of a leg is booked as closed twice, whatever mixture of clip,    *)
(* floor, kill, retry and dust-clear closes it, unless the process dies    *)
(* inside a handler (main.cpp: book_close_ and persist_).                  *)
THEOREM NoLotBookedTwice == Spec => []BookedOnce
<1>1. BookedInv => BookedOnce
  BY DEF BookedInv, BookedOnce, Safe, Without, May, Intact
<1> QED
  BY <1>1, ObserversHold, PTL

(* No leg sells more than its BUY brought, unless a sale's answer is lost  *)
(* or the process dies inside a handler (main.cpp: retry_pending_).        *)
THEOREM NoLegOversells == Spec => []SoldOnce
<1>1. SoldInv => SoldOnce
  BY DEF SoldInv, SoldOnce, Safe, Without, May, Intact
<1> QED
  BY <1>1, ObserversHold, PTL

-----------------------------------------------------------------------------
(* The lots of all legs, when one leg's holding ends, begins or stays.     *)
QtyTotal(h) == Total([l \in Legs |-> h[l].qty], Legs)

LEMMA QtyTotalChanges ==
  ASSUME NEW h \in Holdings, NEW l \in Legs
  PROVE  /\ QtyTotal(h) \in Nat /\ h[l].qty <= QtyTotal(h)
         /\ QtyTotal([h EXCEPT ![l] = Nothing]) = QtyTotal(h) - h[l].qty
         /\ \A q \in Nat : QtyTotal([h EXCEPT ![l] = [qty |-> q, pending |-> FALSE]])
                             = QtyTotal(h) - h[l].qty + q
         /\ QtyTotal([h EXCEPT ![l] = [@ EXCEPT !.pending = TRUE]]) = QtyTotal(h)
<1> DEFINE lots == [k \in Legs |-> h[k].qty]
<1>1. lots \in [Legs -> Nat] /\ lots[l] = h[l].qty /\ h[l].qty \in Nat
  BY DEF Holdings
<1>2. IsFiniteSet(Legs)
  BY MirrorAssumption
<1>3. /\ [k \in Legs |-> [h EXCEPT ![l] = Nothing][k].qty] = [lots EXCEPT ![l] = 0]
      /\ \A q \in Nat : [k \in Legs |-> [h EXCEPT ![l] = [qty |-> q, pending |-> FALSE]][k].qty]
                          = [lots EXCEPT ![l] = q]
      /\ [k \in Legs |-> [h EXCEPT ![l] = [@ EXCEPT !.pending = TRUE]][k].qty] = lots
  BY DEF Holdings, Nothing
<1>4. QtyTotal(h) = Total(lots, Legs)
  BY DEF QtyTotal
<1> HIDE DEF lots
<1>5. Total(lots, Legs) \in Nat /\ lots[l] <= Total(lots, Legs)
  BY <1>1, <1>2, TotalBounds
<1>6. ASSUME NEW q \in Nat
      PROVE  Total([lots EXCEPT ![l] = q], Legs) = Total(lots, Legs) - h[l].qty + q
  <2>1. /\ Total([lots EXCEPT ![l] = q], Legs) \in Nat
        /\ Total([lots EXCEPT ![l] = q], Legs) + lots[l] = Total(lots, Legs) + q
    BY <1>1, <1>2, TotalUpdate
  <2> QED
    BY <1>1, <1>5, <2>1
<1>7. QtyTotal([h EXCEPT ![l] = Nothing]) = Total(lots, Legs) - h[l].qty
  <2>1. QtyTotal([h EXCEPT ![l] = Nothing]) = Total([lots EXCEPT ![l] = 0], Legs)
    BY <1>3 DEF QtyTotal
  <2>2. Total([lots EXCEPT ![l] = 0], Legs) = Total(lots, Legs) - h[l].qty + 0
    BY <1>6
  <2> QED
    BY <1>1, <1>5, <2>1, <2>2
<1>8. ASSUME NEW q \in Nat
      PROVE  QtyTotal([h EXCEPT ![l] = [qty |-> q, pending |-> FALSE]])
               = Total(lots, Legs) - h[l].qty + q
  BY <1>3, <1>6 DEF QtyTotal
<1>9. QtyTotal([h EXCEPT ![l] = [@ EXCEPT !.pending = TRUE]]) = Total(lots, Legs)
  BY <1>3 DEF QtyTotal
<1> QED
  BY <1>1, <1>4, <1>5, <1>7, <1>8, <1>9

-----------------------------------------------------------------------------
(* What is held is on the account.  The ledger never thinks it holds more  *)
(* than the account has beside the stops of earlier lives, so a new stop   *)
(* is never refused and the gateway never flattens the coin; without       *)
(* native stops nothing rests that could trigger.                          *)
Calm ==
    /\ Without({"lose_sell", "fee", "crash", "write_fail"})
    /\ setting.stops => Without({"expire", "trigger"})

Covered(w) == IF setting.stops THEN w.pos + w.orphan <= w.coins /\ w.armed <= w.pos
              ELSE w.armed = 0

BackInv == Calm => HeldTotal <= world.coins /\ Covered(world)

LEMMA ManageCovered ==
  ASSUME NEW w \in Worlds, Covered(w)
  PROVE  Covered(Manage(w)) /\ Manage(w).coins = w.coins
<1>1. CASE ~setting.stops
  BY <1>1 DEF Manage
<1>2. CASE setting.stops
  <2>1. /\ w.pos \in Nat /\ w.orphan \in Nat /\ w.coins \in Nat /\ w.armed \in Nat
        /\ w.pos + w.orphan <= w.coins /\ w.armed <= w.pos
    BY <1>2 DEF Covered, Worlds
  <2>2. w.pos <= Monus(w.coins, w.orphan)
    BY <2>1 DEF Monus
  <2>3. \/ Manage(w) = w
        \/ Manage(w) = [w EXCEPT !.armed = 0, !.latch = FALSE]
        \/ Manage(w) = [w EXCEPT !.armed = 0]
        \/ Manage(w) = [w EXCEPT !.armed = w.pos]
    BY <1>2, <2>2 DEF Manage
  <2>4. ASSUME NEW v, \/ v = [w EXCEPT !.armed = 0, !.latch = FALSE]
                      \/ v = [w EXCEPT !.armed = 0]
                      \/ v = [w EXCEPT !.armed = w.pos]
        PROVE  v.pos = w.pos /\ v.orphan = w.orphan /\ v.coins = w.coins /\ v.armed \in {0, w.pos}
    BY <2>4 DEF Worlds
  <2> QED
    BY <1>2, <2>1, <2>3, <2>4 DEF Covered
<1> QED
  BY <1>1, <1>2

(* A sale that closes a holding takes at most its lots from the account, a *)
(* failed one takes none, and neither uncovers what the ledger holds.      *)
LEMMA SalesCovered ==
  ASSUME NEW w \in Worlds, Calm, Covered(w), NEW q \in Nat, NEW a \in Sales(w, q)
  PROVE  /\ Covered(a.w)
         /\ a.w.coins >= w.coins - (IF a.ok THEN q ELSE 0)
<1> DEFINE f == Freed(w)
<1>1. /\ f \in Worlds /\ f.coins = w.coins /\ f.pos = w.pos /\ f.orphan = w.orphan
      /\ f.armed = 0 /\ w.coins \in Nat /\ w.pos \in Nat /\ w.orphan \in Nat /\ w.armed \in Nat
  BY DEF Freed, Worlds
<1>2. Covered(f)
  BY <1>1 DEF Covered
<1>3. /\ Failed(f) \in Worlds /\ Covered(Failed(f)) /\ Failed(f).coins = w.coins
  BY <1>1, <1>2 DEF Covered, Failed, Worlds
<1>4. ~May("lose_sell") /\ (setting.stops => ~May("expire"))
  BY DEF Calm, Without, May
<1>5. \/ a = Answer(w, FALSE, 0) \/ a = Answer(Failed(f), FALSE, 0)
      \/ /\ ~(q < MinSell) /\ ~(q > FreeOf(f))
         /\ a = Sold(w, q) \/ (~setting.stops /\ \E x \in 0..q-1 : a = Expired(w, x))
  BY <1>4 DEF Sales
<1>6. FreeOf(f) = Monus(w.coins, w.orphan)
  BY <1>1 DEF FreeOf
<1> HIDE DEF f
<1>7. CASE a = Answer(w, FALSE, 0) \/ a = Answer(Failed(f), FALSE, 0)
  BY <1>1, <1>3, <1>7 DEF Answer
<1>8. CASE ~(q < MinSell) /\ ~(q > FreeOf(f)) /\ a = Sold(w, q)
  <2> DEFINE c == f.coins - q
             p == Monus(f.pos, q)
             g == [f EXCEPT !.coins = c, !.pos = p, !.backoff = FALSE]
  <2>1. MinSell \in Nat \ {0} /\ q > 0 /\ q <= Monus(w.coins, w.orphan)
    BY <1>1, <1>6, <1>8, MirrorAssumption DEF Monus
  <2>2. c \in Nat /\ p \in Nat /\ c = w.coins - q /\ w.orphan + q <= w.coins
    BY <1>1, <2>1 DEF Monus
  <2>3. setting.stops => p + w.orphan <= c
    <3>1. ASSUME setting.stops PROVE w.pos + w.orphan <= w.coins
      BY <3>1 DEF Covered
    <3> QED
      BY <1>1, <2>2, <3>1 DEF Monus
  <2>4. a = Answer(Manage(g), TRUE, q)
    BY <1>8 DEF Sold, f
  <2> HIDE DEF c, p
  <2>5. /\ g \in Worlds /\ g.coins = c /\ g.pos = p /\ g.orphan = w.orphan /\ g.armed = 0
    BY <1>1, <2>2 DEF Worlds
  <2> HIDE DEF g
  <2>6. Covered(g)
    BY <2>2, <2>3, <2>5 DEF Covered
  <2>7. Covered(Manage(g)) /\ Manage(g).coins = w.coins - q
    BY <2>2, <2>5, <2>6, ManageCovered
  <2> QED
    BY <1>1, <2>2, <2>4, <2>7 DEF Answer
<1>9. ASSUME ~(q > FreeOf(f)), ~setting.stops, NEW x \in 0..q-1, a = Expired(w, x)
      PROVE  Covered(a.w) /\ a.w.coins >= w.coins - (IF a.ok THEN q ELSE 0)
  <2> DEFINE c == f.coins - x
             b == (x = 0)
             g == [f EXCEPT !.coins = c, !.backoff = b]
  <2>1. c \in Int /\ c >= w.coins - q
    BY <1>1
  <2>2. a = Answer(Manage(g), TRUE, x)
    BY <1>9 DEF Expired, f
  <2>3. Manage(g) = g
    BY <1>9 DEF Manage
  <2> HIDE DEF c, b
  <2>4. g.coins = c /\ g.armed = 0
    BY <1>1 DEF Worlds
  <2> HIDE DEF g
  <2> QED
    BY <1>9, <2>1, <2>2, <2>3, <2>4 DEF Answer, Covered
<1> QED
  BY <1>5, <1>7, <1>8, <1>9

LEMMA BuysCovered ==
  ASSUME NEW w \in Worlds, Calm, Covered(w), NEW q \in BuyQty, NEW a \in Buys(w, q)
  PROVE  /\ Covered(a.w)
         /\ a.w.coins >= w.coins + (IF a.ok /\ a.took > 0 THEN q ELSE 0)
<1>1. /\ q \in Nat \ {0} /\ w.coins \in Nat /\ w.pos \in Nat /\ w.orphan \in Nat
      /\ w.armed \in Nat
  BY MirrorAssumption DEF Worlds
<1>2. ~May("fee")
  BY DEF Calm, Without, May
<1> DEFINE c == w.coins + q
           p == w.pos + q
           g == [w EXCEPT !.coins = c, !.pos = p, !.backoff = FALSE]
           k == [w EXCEPT !.coins = c]
           filled == Manage([w EXCEPT !.coins = @ + q - 0, !.pos = @ + q, !.backoff = FALSE])
<1>3. a \in {Answer(w, FALSE, 0), Answer(filled, TRUE, q), Answer(k, FALSE, q),
             Answer(Manage(w), TRUE, 0)}
  BY <1>2 DEF Buys
<1>4. filled = Manage(g)
  <2>1. w.coins + q - 0 = w.coins + q
    BY <1>1
  <2> QED
    BY <2>1
<1> HIDE DEF filled
<1>5. c \in Nat /\ p \in Nat /\ c >= w.coins /\ (w.pos + w.orphan <= w.coins => p + w.orphan <= c)
      /\ (w.armed <= w.pos => w.armed <= p)
  BY <1>1
<1>6. /\ g \in Worlds /\ g.coins = c /\ g.pos = p /\ g.orphan = w.orphan /\ g.armed = w.armed
      /\ k.coins = c /\ k.pos = w.pos /\ k.orphan = w.orphan /\ k.armed = w.armed
  BY <1>5 DEF Worlds
<1>7. c = w.coins + q
  OBVIOUS
<1> HIDE DEF c, p, g, k
<1>8. Covered(g)
  BY <1>1, <1>5, <1>6 DEF Covered
<1>9. Covered(k)
  BY <1>1, <1>5, <1>6 DEF Covered
<1>10. Covered(Manage(g)) /\ Manage(g).coins = c
  BY <1>6, <1>8, ManageCovered
<1>11. Covered(Manage(w)) /\ Manage(w).coins = w.coins
  BY ManageCovered
<1>12. CASE a = Answer(w, FALSE, 0)
  BY <1>1, <1>12 DEF Answer
<1>13. CASE a = Answer(Manage(g), TRUE, q)
  BY <1>1, <1>7, <1>10, <1>13 DEF Answer
<1>14. CASE a = Answer(k, FALSE, q)
  BY <1>1, <1>5, <1>6, <1>9, <1>14 DEF Answer
<1>15. CASE a = Answer(Manage(w), TRUE, 0)
  BY <1>1, <1>11, <1>15 DEF Answer
<1> QED
  BY <1>3, <1>4, <1>12, <1>13, <1>14, <1>15

(* What the handlers' sales and dust-clears do to the sum.                 *)
LEMMA LegSettles ==
  ASSUME NEW h \in Holdings, NEW l \in Legs, NEW c \in Nat, NEW d \in Nat, NEW q \in Nat,
         NEW ok \in BOOLEAN, QtyTotal(h) <= c, q <= h[l].qty, d >= c - (IF ok THEN q ELSE 0)
  PROVE  /\ ok => QtyTotal([h EXCEPT ![l] = Nothing]) <= d
         /\ ~ok => QtyTotal(h) <= d /\ QtyTotal([h EXCEPT ![l] = [@ EXCEPT !.pending = TRUE]]) <= d
<1> DEFINE t == QtyTotal(h)
           n == h[l].qty
<1>1. /\ t \in Nat /\ n \in Nat
      /\ QtyTotal([h EXCEPT ![l] = Nothing]) = t - n
      /\ QtyTotal([h EXCEPT ![l] = [@ EXCEPT !.pending = TRUE]]) = t
  BY QtyTotalChanges, HeldFields
<1>2. t <= c /\ q <= n
  OBVIOUS
<1> HIDE DEF t, n
<1>3. ok => t - n <= d
  BY <1>1, <1>2
<1>4. ~ok => t <= d
  BY <1>1, <1>2
<1> QED
  BY <1>1, <1>3, <1>4 DEF t

LEMMA BackStep ==
  ASSUME Typed, AskInv, FileInv, BackInv, [Next]_vars
  PROVE  BackInv'
<1> DEFINE Backed == HeldTotal <= world.coins /\ Covered(world)
<1>0. /\ held \in Holdings /\ job \in Jobs /\ world \in Worlds
      /\ HeldTotal = QtyTotal(held) /\ HeldTotal' = QtyTotal(held')
  BY DEF Typed, HeldTotal, HeldLots, QtyTotal
<1>1. setting' = setting
  BY DEF Next, HandlerStep, LegOpens, LegClips, PriceTick, Kill, Start, RetryAsk, RetryDust,
         RetrySell, RetryEnds, Decline, Buy, SellLeg, NotHeld, Finish, Reconcile, Cooled,
         BackoffEnds, StopTriggers, Restart, vars
<1>2. SUFFICES ASSUME Calm, Backed PROVE Backed'
  BY <1>1 DEF Calm, Without, BackInv
<1>3. ASSUME UNCHANGED <<world, held>> PROVE Backed'
  BY <1>1, <1>2, <1>3 DEF HeldTotal, HeldLots, Covered
<1>4. ASSUME NEW v, world' = v, held' = held, Covered(v), v.coins = world.coins
      PROVE  Backed'
  BY <1>1, <1>2, <1>4 DEF HeldTotal, HeldLots, Covered
<1>5. \A v : Covered(v) /\ world' = v => Covered(world)'
  BY <1>1 DEF Covered
<1>6. world.coins \in Nat /\ HeldTotal \in Nat
  BY <1>0, QtyTotalChanges, TotalBounds, MirrorAssumption
     DEF Worlds, HeldTotal, HeldLots, Holdings
<1>7. ASSUME NEW l \in Legs, RetryDust(l) PROVE Backed'
  <2>1. /\ world' = world /\ held' = [held EXCEPT ![l] = Nothing]
    BY <1>7 DEF RetryDust
  <2>2. QtyTotal(held') = QtyTotal(held) - held[l].qty /\ held[l].qty \in Nat
    BY <1>0, <2>1, QtyTotalChanges, HeldFields
  <2>3. QtyTotal(held') <= world.coins
    BY <1>0, <1>2, <1>6, <2>2
  <2> QED
    BY <1>0, <1>2, <1>5, <2>1, <2>3
<1>8. ASSUME NEW l \in Legs, NEW q \in Nat, q <= held[l].qty, NEW a \in Sales(world, q),
             world' = a.w,
             \/ a.ok /\ held' = [held EXCEPT ![l] = Nothing]
             \/ ~a.ok /\ held' \in {held, [held EXCEPT ![l] = [@ EXCEPT !.pending = TRUE]]}
      PROVE  Backed'
  <2>1. Covered(a.w) /\ a.w.coins >= world.coins - (IF a.ok THEN q ELSE 0)
    BY <1>0, <1>2, SalesCovered
  <2>2. a.w \in Worlds /\ a.ok \in BOOLEAN
    BY <1>0, SalesTruthful DEF Truthful
  <2>3. a.w.coins \in Nat
    BY <2>2 DEF Worlds
  <2> DEFINE ok == a.ok
             d == a.w.coins
             c == world.coins
  <2>4. ok \in BOOLEAN /\ d \in Nat /\ c \in Nat /\ d >= c - (IF ok THEN q ELSE 0)
        /\ QtyTotal(held) <= c
    BY <1>0, <1>2, <1>6, <2>1, <2>2, <2>3
  <2> HIDE DEF ok, d, c
  <2>5. /\ ok => QtyTotal([held EXCEPT ![l] = Nothing]) <= d
        /\ ~ok => QtyTotal(held) <= d
                  /\ QtyTotal([held EXCEPT ![l] = [@ EXCEPT !.pending = TRUE]]) <= d
    BY <1>0, <1>8, <2>4, LegSettles
  <2>6. QtyTotal(held') <= d
    BY <1>8, <2>5 DEF ok
  <2> QED
    BY <1>0, <1>5, <1>8, <2>1, <2>6 DEF d
<1>9. ASSUME NEW l \in Legs, RetrySell(l) PROVE Backed'
  <2>1. job.size \in Nat /\ job.size <= held[l].qty
    BY <1>0, <1>9 DEF Jobs, AskInv, RetrySell
  <2>2. PICK a \in Sales(world, job.size) :
           world' = a.w /\ held' = IF a.ok THEN [held EXCEPT ![l] = Nothing] ELSE held
    BY <1>9 DEF RetrySell
  <2> QED
    BY <1>8, <2>1, <2>2
<1>10. ASSUME NEW l \in Legs, SellLeg(l) PROVE Backed'
  <2>1. held[l].qty \in Nat
    BY <1>0, HeldFields
  <2>2. PICK a \in Sales(world, held[l].qty) :
           /\ world' = a.w
           /\ held' = [held EXCEPT ![l] = IF a.ok THEN Nothing ELSE [@ EXCEPT !.pending = TRUE]]
    BY <1>10 DEF SellLeg
  <2>3. held[l].qty <= held[l].qty
    BY <2>1
  <2> QED
    BY <1>8, <2>1, <2>2, <2>3
<1>11. ASSUME NEW l \in Legs, NEW q \in BuyQty, Buy(l, q) PROVE Backed'
  <2>0. q \in Nat
    BY MirrorAssumption
  <2>1. PICK a \in Buys(world, q) :
           /\ world' = a.w
           /\ IF a.ok /\ a.took > 0
              THEN held' = [held EXCEPT ![l] = [qty |-> q, pending |-> FALSE]]
              ELSE held' = held
    BY <1>11 DEF Buy
  <2>2. Covered(a.w) /\ a.w.coins >= world.coins + (IF a.ok /\ a.took > 0 THEN q ELSE 0)
    BY <1>0, <1>2, BuysCovered
  <2>3. a.w.coins \in Nat
    BY <1>0, BuysTruthful DEF Worlds
  <2>4. held[l].qty = 0
    <3>1. ~(held[l].qty > 0)
      BY <1>11 DEF Buy, Holds
    <3>2. held[l].qty \in Nat
      BY <1>0, HeldFields
    <3> QED
      BY <3>1, <3>2
  <2>5. QtyTotal([held EXCEPT ![l] = [qty |-> q, pending |-> FALSE]])
          = QtyTotal(held) - held[l].qty + q
    BY <1>0, <2>0, QtyTotalChanges
  <2>6. QtyTotal(held') = QtyTotal(held) + (IF a.ok /\ a.took > 0 THEN q ELSE 0)
    <3>1. CASE a.ok /\ a.took > 0
      <4>1. QtyTotal(held') = QtyTotal(held) - 0 + q
        BY <2>1, <2>4, <2>5, <3>1
      <4> QED
        BY <1>0, <1>6, <2>0, <3>1, <4>1
    <3>2. CASE ~(a.ok /\ a.took > 0)
      <4>1. QtyTotal(held') = QtyTotal(held)
        BY <2>1, <3>2
      <4> QED
        BY <1>0, <1>6, <3>2, <4>1
    <3> QED
      BY <3>1, <3>2
  <2>7. QtyTotal(held') <= a.w.coins
    BY <1>0, <1>2, <1>6, <2>0, <2>2, <2>3, <2>6
  <2> QED
    BY <1>0, <1>5, <2>1, <2>2, <2>7
<1>12. CASE Reconcile
  BY <1>0, <1>2, <1>4, <1>12, ManageCovered DEF Reconcile
<1>13. CASE BackoffEnds
  <2> DEFINE v == [world EXCEPT !.backoff = FALSE]
  <2>1. /\ v.coins = world.coins /\ v.pos = world.pos /\ v.orphan = world.orphan
        /\ v.armed = world.armed
    BY <1>0 DEF Worlds
  <2>2. world' = v /\ held' = held
    BY <1>13 DEF BackoffEnds
  <2> HIDE DEF v
  <2>3. Covered(v)
    BY <1>2, <2>1 DEF Covered
  <2> QED
    BY <1>4, <2>1, <2>2, <2>3
<1>14. CASE StopTriggers
  <2>1. May("trigger") /\ world.armed > 0
    BY <1>14 DEF StopTriggers
  <2>2. world.armed = 0
    BY <1>2, <2>1 DEF Calm, Without, May, Covered
  <2> QED
    BY <2>1, <2>2
<1>15. CASE Restart
  <2> DEFINE locked == world.orphan + world.armed
             free == Monus(world.coins, locked)
             p == IF free < MinSell THEN 0 ELSE free
             w == [coins |-> world.coins, orphan |-> locked, pos |-> p,
                   armed |-> 0, latch |-> FALSE, backoff |-> FALSE]
  <2>1. job = Idle /\ ~May("write_fail")
    BY <1>2, <1>15 DEF Restart, Calm, Without, May
  <2>2. held' = held
    BY <1>15, <2>1 DEF Restart, FileInv, Idle
  <2>3. world' = Manage(w)
    BY <1>15 DEF Restart
  <2>4. /\ locked \in Nat /\ free \in Nat /\ p \in Nat /\ world.coins \in Nat /\ world.pos \in Nat
        /\ world.orphan \in Nat /\ world.armed \in Nat
    BY <1>0 DEF Worlds, Monus
  <2>5. setting.stops => p + locked <= world.coins
    <3>1. ASSUME setting.stops PROVE world.pos + world.orphan <= world.coins /\ world.armed <= world.pos
      BY <1>2, <3>1 DEF Covered
    <3> QED
      BY <2>4, <3>1 DEF Monus
  <2> HIDE DEF p, locked
  <2>6. /\ w \in Worlds /\ w.coins = world.coins /\ w.pos = p /\ w.orphan = locked /\ w.armed = 0
    BY <2>4 DEF Worlds
  <2> HIDE DEF w
  <2>7. Covered(w)
    BY <2>4, <2>5, <2>6 DEF Covered
  <2>8. Covered(Manage(w)) /\ Manage(w).coins = world.coins
    BY <2>6, <2>7, ManageCovered
  <2> QED
    BY <1>4, <2>2, <2>3, <2>8
<1>16. ASSUME NEW l \in Legs, \/ LegOpens(l) \/ LegClips(l) \/ RetryAsk(l)
                              \/ Decline(l) \/ NotHeld(l)
       PROVE  Backed'
  BY <1>3, <1>16 DEF LegOpens, LegClips, Start, RetryAsk, Decline, NotHeld
<1>17. CASE PriceTick \/ Kill \/ RetryEnds \/ Finish \/ Cooled \/ UNCHANGED vars
  BY <1>3, <1>17 DEF PriceTick, Kill, Start, RetryEnds, Finish, Cooled, vars
<1> QED
  BY <1>7, <1>9, <1>10, <1>11, <1>12, <1>13, <1>14, <1>15, <1>16, <1>17 DEF Next, HandlerStep

(* What the mirror records as held is on the account through every mixture *)
(* of retries, clips, kills, restarts and lost BUY answers: the gateway's  *)
(* emergency flatten never sells it from under the mirror (main.cpp:       *)
(* fill_, retry_pending_; GW: manage_protective_stop_).                    *)
THEOREM HoldingsBacked == Spec => []HoldsBacked
<1>1. Init => Typed /\ FileInv /\ AskInv
  BY TypeInit, ObserversInit DEF Init, FileInv, TypeOK, Typed, Holdings, Jobs
<1>2. Init => BackInv
  <2> SUFFICES ASSUME Init PROVE HeldTotal <= world.coins /\ Covered(world)
    BY DEF BackInv
  <2>1. HeldTotal = 0
    BY TotalBounds, MirrorAssumption DEF Init, HeldTotal, HeldLots, Nothing
  <2> QED
    BY <2>1 DEF Init, Covered
<1>3. BackInv => HoldsBacked
  BY DEF BackInv, HoldsBacked, Calm
<1> QED
  BY <1>1, <1>2, <1>3, TypeStep, FileStep, AskStep, BackStep, PTL DEF Spec

-----------------------------------------------------------------------------
(* Nothing above dust is left behind.  Without native stops no coin is     *)
(* locked, so that all of them are free; a retry asks for all the leg      *)
(* holds, or for all there is; and a sale takes what it was asked for, or  *)
(* leaves the holding in place.                                            *)
Sure == ~setting.stops /\ Without({"lose_buy", "expire", "crash", "write_fail"})

Unlocked(w) == w.armed = 0 /\ w.orphan = 0

StrandInv ==
    Sure => /\ world.coins < HeldTotal + MinSell
            /\ Unlocked(world)
            /\ \A l \in Legs : job.asked = l => job.size \in {held[l].qty, world.coins}

LEMMA SalesSure ==
  ASSUME NEW w \in Worlds, Sure, Unlocked(w), NEW q \in Nat, NEW a \in Sales(w, q)
  PROVE  /\ Unlocked(a.w) /\ a.w.coins <= w.coins
         /\ a.ok => a.w.coins = w.coins - q
<1> DEFINE f == Freed(w)
<1>1. /\ f \in Worlds /\ f.coins = w.coins /\ f.orphan = 0 /\ f.armed = 0 /\ w.coins \in Nat
  BY DEF Freed, Worlds, Unlocked
<1>2. ~setting.stops /\ ~May("expire")
  BY DEF Sure, Without, May
<1>3. \/ a = Answer(w, FALSE, 0) \/ a = Answer(Failed(f), FALSE, 0)
      \/ a = Sold(w, q) \/ a = SoldUnheard(w, q)
  BY <1>2 DEF Sales
<1>4. \A v : Manage(v) = v
  BY <1>2 DEF Manage
<1> HIDE DEF f
<1>5. CASE a = Answer(w, FALSE, 0)
  BY <1>1, <1>5 DEF Answer
<1>6. CASE a = Answer(Failed(f), FALSE, 0)
  BY <1>1, <1>6 DEF Answer, Failed, Worlds, Unlocked
<1>7. CASE a = Sold(w, q)
  <2> DEFINE c == f.coins - q
             p == Monus(f.pos, q)
             g == [f EXCEPT !.coins = c, !.pos = p, !.backoff = FALSE]
  <2>1. a = Answer(Manage(g), TRUE, q)
    BY <1>7 DEF Sold, f
  <2>2. a = Answer(g, TRUE, q)
    BY <1>4, <2>1
  <2>3. c = w.coins - q /\ c <= w.coins
    BY <1>1
  <2> HIDE DEF c, p
  <2>4. g.coins = c /\ g.armed = 0 /\ g.orphan = 0
    BY <1>1 DEF Worlds
  <2> HIDE DEF g
  <2> QED
    BY <2>2, <2>3, <2>4 DEF Answer, Unlocked
<1>8. CASE a = SoldUnheard(w, q)
  <2> DEFINE c == f.coins - q
             g == Failed([f EXCEPT !.coins = c])
  <2>1. a = Answer(g, FALSE, q)
    BY <1>8 DEF SoldUnheard, f
  <2>2. c <= w.coins
    BY <1>1
  <2> HIDE DEF c
  <2>3. g.coins = c /\ g.armed = 0 /\ g.orphan = 0
    BY <1>1 DEF Worlds, Failed
  <2> HIDE DEF g
  <2> QED
    BY <2>1, <2>2, <2>3 DEF Answer, Unlocked
<1> QED
  BY <1>3, <1>5, <1>6, <1>7, <1>8

LEMMA BuysSure ==
  ASSUME NEW w \in Worlds, Sure, Unlocked(w), NEW q \in BuyQty, NEW a \in Buys(w, q)
  PROVE  /\ Unlocked(a.w)
         /\ a.w.coins <= w.coins + (IF a.ok /\ a.took > 0 THEN q ELSE 0)
<1>1. q \in Nat \ {0} /\ w.coins \in Nat /\ w.pos \in Nat
  BY MirrorAssumption DEF Worlds
<1>2. ~setting.stops /\ ~May("lose_buy") /\ ~May("expire")
  BY DEF Sure, Without, May
<1> DEFINE Filled(fee) == [w EXCEPT !.coins = @ + q - fee, !.pos = @ + q, !.backoff = FALSE]
<1>3. \A v : Manage(v) = v
  BY <1>2 DEF Manage
<1>4. a \in {Answer(w, FALSE, 0), Answer(Manage(Filled(0)), TRUE, q),
             Answer(Manage(Filled(1)), TRUE, q)}
  BY <1>2 DEF Buys
<1>5. a \in {Answer(w, FALSE, 0), Answer(Filled(0), TRUE, q), Answer(Filled(1), TRUE, q)}
  BY <1>3, <1>4
<1>6. ASSUME NEW fee \in {0, 1}
      PROVE  Unlocked(Filled(fee)) /\ Filled(fee).coins <= w.coins + q
  BY <1>1 DEF Worlds, Unlocked
<1> HIDE DEF Filled
<1>7. CASE a = Answer(w, FALSE, 0)
  BY <1>1, <1>7 DEF Answer
<1>8. ASSUME NEW fee \in {0, 1}, a = Answer(Filled(fee), TRUE, q)
      PROVE  /\ Unlocked(a.w)
             /\ a.w.coins <= w.coins + (IF a.ok /\ a.took > 0 THEN q ELSE 0)
  <2>1. a.ok /\ a.took > 0 /\ a.w = Filled(fee)
    BY <1>1, <1>8 DEF Answer
  <2> QED
    BY <1>6, <2>1
<1> QED
  BY <1>5, <1>7, <1>8

LEMMA StrandStep ==
  ASSUME Typed, AskInv, FileInv, StrandInv, [Next]_vars
  PROVE  StrandInv'
<1> DEFINE Few == world.coins < HeldTotal + MinSell
           Asks == \A l \in Legs : job.asked = l => job.size \in {held[l].qty, world.coins}
<1>0. /\ held \in Holdings /\ job \in Jobs /\ world \in Worlds
      /\ HeldTotal = QtyTotal(held) /\ HeldTotal' = QtyTotal(held')
      /\ MinSell \in Nat \ {0}
  BY MirrorAssumption DEF Typed, HeldTotal, HeldLots, QtyTotal
<1>1. setting' = setting
  BY DEF Next, HandlerStep, LegOpens, LegClips, PriceTick, Kill, Start, RetryAsk, RetryDust,
         RetrySell, RetryEnds, Decline, Buy, SellLeg, NotHeld, Finish, Reconcile, Cooled,
         BackoffEnds, StopTriggers, Restart, vars
<1>2. SUFFICES ASSUME Sure, Few, Unlocked(world), Asks
               PROVE  Few' /\ Unlocked(world)' /\ Asks'
  BY <1>1 DEF Sure, Without, StrandInv
<1>3. /\ world.coins \in Nat /\ HeldTotal \in Nat /\ world.armed = 0 /\ world.orphan = 0
  BY <1>0, <1>2, QtyTotalChanges, TotalBounds, MirrorAssumption
     DEF Worlds, HeldTotal, HeldLots, Holdings, Unlocked
<1>4. ASSUME NEW v, world' = v, held' = held, Unlocked(v), v.coins = world.coins,
             \/ job'.asked = NoLeg \/ job' = job
             \/ \E l \in Legs : job'.asked = l /\ job'.size \in {held[l].qty, world.coins}
      PROVE  Few' /\ Unlocked(world)' /\ Asks'
  BY <1>2, <1>4, LegsAreNotNone DEF HeldTotal, HeldLots, Unlocked
<1>5. ASSUME NEW l \in Legs, RetryAsk(l) PROVE Few' /\ Unlocked(world)' /\ Asks'
  <2> DEFINE m == Least(held[l].qty, FreeOf(world))
             q == held[l].qty
  <2>1. FreeOf(world) = world.coins
    BY <1>3 DEF FreeOf, Monus
  <2>2. m \in {q, world.coins}
    BY <2>1 DEF Least
  <2>3. PICK n \in {m, q} : job' = [job EXCEPT !.asked = l, !.size = n]
    BY <1>5, Zenon DEF RetryAsk
  <2> HIDE DEF m
  <2>4. job'.asked = l /\ job'.size \in {q, world.coins}
    BY <1>0, <2>2, <2>3 DEF Jobs
  <2>5. world' = world /\ held' = held
    BY <1>5 DEF RetryAsk
  <2> QED
    BY <1>2, <1>4, <2>4, <2>5
<1>6. ASSUME NEW l \in Legs, RetryDust(l) PROVE Few' /\ Unlocked(world)' /\ Asks'
  <2>1. /\ world' = world /\ held' = [held EXCEPT ![l] = Nothing] /\ FreeOf(world) < MinSell
    BY <1>6 DEF RetryDust
  <2>2. FreeOf(world) = world.coins
    BY <1>3 DEF FreeOf, Monus
  <2>3. QtyTotal(held') \in Nat
    BY <1>0, <1>6, <2>1, HeldFields, QtyTotalChanges
  <2>4. job'.asked = NoLeg
    BY <1>0, <1>6 DEF RetryDust, Retrying, Jobs
  <2> QED
    BY <1>0, <1>2, <1>3, <2>1, <2>2, <2>3, <2>4, LegsAreNotNone
<1>7. ASSUME NEW l \in Legs, NEW q \in Nat, q \in {held[l].qty, world.coins},
             NEW a \in Sales(world, q), world' = a.w, job'.asked = NoLeg,
             \/ a.ok /\ held' = [held EXCEPT ![l] = Nothing]
             \/ ~a.ok /\ held' \in {held, [held EXCEPT ![l] = [@ EXCEPT !.pending = TRUE]]}
      PROVE  Few' /\ Unlocked(world)' /\ Asks'
  <2>1. /\ Unlocked(a.w) /\ a.w.coins <= world.coins
        /\ a.ok => a.w.coins = world.coins - q
    BY <1>0, <1>2, SalesSure
  <2>2. a.w.coins \in Nat
    BY <1>0, SalesTruthful DEF Truthful, Worlds
  <2>3. /\ QtyTotal(held) \in Nat /\ held[l].qty \in Nat /\ held[l].qty <= QtyTotal(held)
        /\ QtyTotal([held EXCEPT ![l] = Nothing]) = QtyTotal(held) - held[l].qty
        /\ QtyTotal([held EXCEPT ![l] = [@ EXCEPT !.pending = TRUE]]) = QtyTotal(held)
    BY <1>0, QtyTotalChanges, HeldFields
  <2>4. CASE a.ok
    <3>1. QtyTotal(held') = QtyTotal(held) - held[l].qty
      BY <1>7, <2>3, <2>4
    <3>2. a.w.coins = world.coins - q
      BY <2>1, <2>4
    <3>3. a.w.coins < QtyTotal(held') + MinSell
      BY <1>0, <1>2, <1>3, <1>7, <2>2, <2>3, <3>1, <3>2
    <3> QED
      BY <1>0, <1>7, <2>1, <3>3, LegsAreNotNone
  <2>5. CASE ~a.ok
    <3>1. QtyTotal(held') = QtyTotal(held)
      BY <1>7, <2>3, <2>5
    <3>2. a.w.coins < QtyTotal(held') + MinSell
      BY <1>0, <1>2, <1>3, <2>1, <2>2, <3>1
    <3> QED
      BY <1>0, <1>7, <2>1, <3>2, LegsAreNotNone
  <2> QED
    BY <2>4, <2>5
<1>8. ASSUME NEW l \in Legs, RetrySell(l) PROVE Few' /\ Unlocked(world)' /\ Asks'
  <2>1. job.size \in Nat /\ job.size \in {held[l].qty, world.coins}
    BY <1>0, <1>2, <1>8 DEF Jobs, RetrySell
  <2>2. PICK a \in Sales(world, job.size) :
           /\ world' = a.w /\ held' = IF a.ok THEN [held EXCEPT ![l] = Nothing] ELSE held
           /\ job' = [job EXCEPT !.retry = @ \ {l}, !.asked = NoLeg, !.size = 0,
                                 !.dirty = @ \/ a.ok]
    BY <1>8 DEF RetrySell
  <2> DEFINE d == job.dirty \/ a.ok
  <2>3. job' = [job EXCEPT !.retry = @ \ {l}, !.asked = NoLeg, !.size = 0, !.dirty = d]
    BY <2>2
  <2> HIDE DEF d
  <2>4. job'.asked = NoLeg
    BY <1>0, <2>3 DEF Jobs
  <2> QED
    BY <1>7, <2>1, <2>2, <2>4
<1>9. ASSUME NEW l \in Legs, SellLeg(l) PROVE Few' /\ Unlocked(world)' /\ Asks'
  <2>1. held[l].qty \in Nat
    BY <1>0, HeldFields
  <2>2. PICK a \in Sales(world, held[l].qty) :
           /\ world' = a.w
           /\ held' = [held EXCEPT ![l] = IF a.ok THEN Nothing ELSE [@ EXCEPT !.pending = TRUE]]
    BY <1>9 DEF SellLeg
  <2>3. job.phase = "body" /\ job'.asked = job.asked
    BY <1>0, <1>9 DEF SellLeg, Jobs
  <2>4. job'.asked = NoLeg
    BY <1>0, <2>3 DEF AskInv, Jobs
  <2> QED
    BY <1>7, <2>1, <2>2, <2>4
<1>10. ASSUME NEW l \in Legs, NEW q \in BuyQty, Buy(l, q)
       PROVE  Few' /\ Unlocked(world)' /\ Asks'
  <2>0. q \in Nat
    BY MirrorAssumption
  <2>1. PICK a \in Buys(world, q) :
           /\ world' = a.w
           /\ IF a.ok /\ a.took > 0
              THEN held' = [held EXCEPT ![l] = [qty |-> q, pending |-> FALSE]]
              ELSE held' = held
    BY <1>10 DEF Buy
  <2>2. /\ Unlocked(a.w)
        /\ a.w.coins <= world.coins + (IF a.ok /\ a.took > 0 THEN q ELSE 0)
    BY <1>0, <1>2, BuysSure
  <2>3. a.w.coins \in Nat
    BY <1>0, BuysTruthful DEF Worlds
  <2>4. held[l].qty = 0
    <3>1. ~(held[l].qty > 0)
      BY <1>10 DEF Buy, Holds
    <3>2. held[l].qty \in Nat
      BY <1>0, HeldFields
    <3> QED
      BY <3>1, <3>2
  <2>5. QtyTotal([held EXCEPT ![l] = [qty |-> q, pending |-> FALSE]])
          = QtyTotal(held) - held[l].qty + q
    BY <1>0, <2>0, QtyTotalChanges
  <2>6. a.w.coins < QtyTotal(held') + MinSell
    <3>1. CASE a.ok /\ a.took > 0
      <4>1. QtyTotal(held') = QtyTotal(held) - 0 + q /\ a.w.coins <= world.coins + q
        BY <2>1, <2>2, <2>4, <2>5, <3>1
      <4> QED
        BY <1>0, <1>2, <1>3, <2>0, <2>3, <4>1
    <3>2. CASE ~(a.ok /\ a.took > 0)
      <4>1. QtyTotal(held') = QtyTotal(held) /\ a.w.coins <= world.coins + 0
        BY <2>1, <2>2, <3>2
      <4> QED
        BY <1>0, <1>2, <1>3, <2>3, <4>1
    <3> QED
      BY <3>1, <3>2
  <2>7. job.phase = "body" /\ job'.asked = job.asked
    BY <1>0, <1>10 DEF Buy, Jobs
  <2>8. job'.asked = NoLeg
    BY <1>0, <2>7 DEF AskInv, Jobs
  <2> QED
    BY <1>0, <2>1, <2>2, <2>6, <2>8, LegsAreNotNone
<1>11. CASE Reconcile
  <2>1. Manage(world) = world
    BY <1>2 DEF Manage, Sure
  <2> QED
    BY <1>2, <1>4, <1>11, <2>1 DEF Reconcile
<1>12. CASE BackoffEnds
  <2> DEFINE v == [world EXCEPT !.backoff = FALSE]
  <2>1. Unlocked(v) /\ v.coins = world.coins
    BY <1>0, <1>2 DEF Worlds, Unlocked
  <2> QED
    BY <1>4, <1>12, <2>1 DEF BackoffEnds
<1>13. CASE StopTriggers
  BY <1>3, <1>13 DEF StopTriggers
<1>14. CASE Restart
  <2> DEFINE locked == world.orphan + world.armed
             free == Monus(world.coins, locked)
             w == [coins |-> world.coins, orphan |-> locked,
                   pos |-> IF free < MinSell THEN 0 ELSE free,
                   armed |-> 0, latch |-> FALSE, backoff |-> FALSE]
  <2>1. job = Idle /\ ~May("write_fail")
    BY <1>2, <1>14 DEF Restart, Sure, Without, May
  <2>2. held' = held /\ job' = Idle
    BY <1>14, <2>1 DEF Restart, FileInv, Idle
  <2>3. world' = Manage(w)
    BY <1>14 DEF Restart
  <2>4. Manage(w) = w
    BY <1>2 DEF Manage, Sure
  <2>5. w.coins = world.coins /\ Unlocked(w)
    BY <1>3 DEF Unlocked
  <2>6. job'.asked = NoLeg
    BY <2>2 DEF Idle
  <2> QED
    BY <1>4, <2>2, <2>3, <2>4, <2>5, <2>6
<1>15. ASSUME NEW l \in Legs, LegOpens(l) \/ LegClips(l)
       PROVE  Few' /\ Unlocked(world)' /\ Asks'
  <2>1. job'.asked = NoLeg /\ world' = world /\ held' = held
    BY <1>15, StartTyped DEF LegOpens, LegClips
  <2> QED
    BY <1>2, <1>4, <2>1
<1>16. CASE PriceTick \/ Kill
  <2>0. {l \in Legs : Holds(l)} \in SUBSET Legs /\ {} \in SUBSET Legs
    OBVIOUS
  <2>1. job'.asked = NoLeg /\ world' = world /\ held' = held
    BY <1>16, <2>0, StartTyped DEF PriceTick, Kill
  <2> QED
    BY <1>2, <1>4, <2>1
<1>17. ASSUME job.phase = "body", job'.asked = job.asked, world' = world, held' = held
       PROVE  Few' /\ Unlocked(world)' /\ Asks'
  <2>1. job'.asked = NoLeg
    BY <1>0, <1>17 DEF AskInv, Jobs
  <2> QED
    BY <1>2, <1>4, <1>17, <2>1
<1>18. ASSUME NEW l \in Legs, Decline(l) \/ NotHeld(l)
       PROVE  Few' /\ Unlocked(world)' /\ Asks'
  <2>1. job.phase = "body" /\ job'.asked = job.asked /\ world' = world /\ held' = held
    BY <1>0, <1>18 DEF Decline, NotHeld, Jobs
  <2> QED
    BY <1>17, <2>1
<1>19. CASE RetryEnds
  <2>1. PICK b : job' = [job EXCEPT !.phase = "body", !.dirty = FALSE, !.body = b]
    BY <1>19, Zenon DEF RetryEnds
  <2>2. job'.asked = job.asked /\ job.retry = {} /\ world' = world /\ held' = held
    BY <1>0, <1>19, <2>1 DEF Jobs, RetryEnds
  <2>3. job'.asked = NoLeg
    BY <1>0, <2>2 DEF AskInv, Jobs
  <2> QED
    BY <1>2, <1>4, <2>2, <2>3
<1>20. CASE Finish
  BY <1>2, <1>4, <1>20 DEF Finish, Idle
<1>21. CASE Cooled \/ UNCHANGED vars
  BY <1>2, <1>4, <1>21 DEF Cooled, vars
<1> QED
  BY <1>5, <1>6, <1>8, <1>9, <1>10, <1>11, <1>12, <1>13, <1>14, <1>15, <1>16, <1>18, <1>19,
     <1>20, <1>21 DEF Next, HandlerStep

(* Without native stops every coin above dust belongs to a recorded        *)
(* holding at every step, also after a lost sale, a fee, a failed balance  *)
(* query or a restart between handlers (main.cpp: fill_, retry_pending_).  *)
THEOREM NoCoinStranded == Spec => []NothingStranded
<1>1. Init => Typed /\ FileInv /\ AskInv
  BY TypeInit, ObserversInit DEF Init, FileInv, TypeOK, Typed, Holdings, Jobs
<1>2. Init => StrandInv
  <2> SUFFICES ASSUME Init PROVE StrandInv
    OBVIOUS
  <2>1. HeldTotal = 0 /\ MinSell \in Nat \ {0}
    BY TotalBounds, MirrorAssumption DEF Init, HeldTotal, HeldLots, Nothing
  <2> QED
    BY <2>1, LegsAreNotNone DEF Init, Unlocked, StrandInv, Idle
<1>3. StrandInv => NothingStranded
  BY DEF StrandInv, NothingStranded, Sure
<1> QED
  BY <1>1, <1>2, <1>3, TypeStep, FileStep, AskStep, StrandStep, PTL DEF Spec
=============================================================================

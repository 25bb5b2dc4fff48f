----------------------- MODULE PortfolioHalts_proofs -----------------------
(***************************************************************************)
(* The promises of the protections, for any engines, trades, requests and  *)
(* restarts: the symbol has one position; the equity is that of all trades *)
(* and the peak is never lost; a daily kill outlives the process, an       *)
(* emergency keeps the gates shut, and the ratchet is neither skipped nor  *)
(* latched.                                                                *)
(***************************************************************************)
EXTENDS PortfolioHalts, Totals_proofs

-----------------------------------------------------------------------------
(* The running totals of the trades, and what each operation adds to them. *)
Earned(l) == Running(l)[Len(l)]

LEMMA TradeFields ==
  ASSUME NEW s \in Trades
  PROVE  Len(s) \in Nat /\ \A i \in 1..Len(s) : s[i].bp \in Int
<1> DEFINE R == [bp : Bps, age : {"fresh", "day", "old"}]
<1>1. \A r \in R : r.bp \in Int
  BY HaltsAssumption
<1> HIDE DEF R
<1>2. s \in Seq(R)
  BY DEF Trades, R
<1>3. Len(s) \in Nat /\ \A i \in 1..Len(s) : s[i] \in R
  BY <1>2
<1> QED BY <1>1, <1>3

LEMMA RunningIs ==
  ASSUME NEW s \in Trades
  PROVE /\ Running(s) \in [0..Len(s) -> Int]
        /\ Running(s)[0] = 0
        /\ \A i \in 1..Len(s) : Running(s)[i] = Running(s)[i-1] + s[i].bp
<1> DEFINE n == Len(s)
           bp == [i \in 1..n |-> s[i].bp]
           g == [p \in (1..n) \X Int |-> p[2] + bp[p[1]]]
           Body(r) == [i \in 0..n |-> IF i = 0 THEN 0 ELSE r[i-1] + s[i].bp]
<1>1. n \in Nat /\ 0 \in Int
  BY TradeFields
<1>2. \A i \in 1..n : bp[i] \in Int /\ s[i].bp = bp[i]
  BY TradeFields
<1> HIDE DEF n, bp
<1>3. g \in [(1..n) \X Int -> Int] /\ \A i \in 1..n, x \in Int : g[<<i, x>>] = x + bp[i]
  BY <1>2
<1> HIDE DEF g
<1>4. PICK r \in [0..n -> Int] : r[0] = 0 /\ \A i \in 1..n : r[i] = g[<<i, r[i-1]>>]
  <2>1. \E r \in [0..n -> Int] : Accumulates(r, n, 0, g)
    BY <1>1, <1>3, Accumulation, Zenon
  <2> QED BY <2>1 DEF Accumulates
<1>5. r = Body(r)
  <2>1. ASSUME NEW i \in 0..n PROVE r[i] = IF i = 0 THEN 0 ELSE r[i-1] + s[i].bp
    <3>1. CASE i = 0
      BY <1>4, <3>1
    <3>2. CASE i # 0
      <4>1. i \in 1..n /\ i - 1 \in 0..n
        BY <1>1, <3>2
      <4>2. r[i-1] \in Int /\ r[i] = g[<<i, r[i-1]>>]
        BY <1>4, <4>1
      <4>3. r[i] = r[i-1] + bp[i]
        BY <1>3, <4>1, <4>2
      <4> QED BY <1>2, <3>2, <4>1, <4>3
    <3> QED BY <3>1, <3>2
  <2> QED BY <1>4, <2>1
<1>6. Running(s) = CHOOSE f : f = Body(f)
  BY DEF Running, n
<1>7. Running(s) = Body(Running(s))
  BY <1>5, <1>6
<1> DEFINE q == Running(s)
<1> HIDE DEF q
<1>8. q = [i \in 0..n |-> IF i = 0 THEN 0 ELSE q[i - 1] + s[i].bp]
  BY <1>7 DEF q
<1>9. q[0] = 0 /\ \A i \in 1..n : q[i] = q[i-1] + s[i].bp
  <2>1. 0 \in 0..n /\ \A i \in 1..n : i \in 0..n /\ i # 0
    BY <1>1
  <2> QED BY <1>8, <2>1
<1>10. \A k \in 0..n : q[k] \in Int
  <2>1. \A k \in 1..n : q[k-1] \in Int => q[k] \in Int
    BY <1>2, <1>9
  <2>2. q[0] \in Int
    BY <1>9
  <2> QED BY <1>1, <2>1, <2>2, KeptAlong
<1>11. q \in [0..n -> Int]
  BY <1>8, <1>10
<1> QED BY <1>9, <1>11 DEF q, n

LEMMA NetIs ==
  ASSUME NEW s \in Trades, NEW n \in 0..Len(s)
  PROVE  Earned(s) \in Int /\ Net(s, n) = Earned(s) - Running(s)[n] /\ Net(s, n) \in Int
         /\ Net(s, 0) = Earned(s)
<1> DEFINE r == Running(s)
           l == Len(s)
<1>1. l \in Nat /\ r \in [0..l -> Int] /\ r[0] = 0
  BY TradeFields, RunningIs
<1> HIDE DEF r
<1>2. l \in 0..l /\ r[l] \in Int /\ r[n] \in Int
  BY <1>1
<1> QED BY <1>1, <1>2 DEF Net, Earned, r

LEMMA HighWaterIs ==
  ASSUME NEW s \in Trades
  PROVE  /\ HighWater(s) \in Int
         /\ \A i \in 0..Len(s) : Running(s)[i] <= HighWater(s)
         /\ \E i \in 0..Len(s) : Running(s)[i] = HighWater(s)
<1> DEFINE n == Len(s)
           r == Running(s)
<1>1. n \in Nat
  BY DEF Trades
<1>2. r \in [0..n -> Int]
  BY RunningIs
<1> HIDE DEF n, r
<1>3. PICK j \in 0..n : \A i \in 0..n : r[i] <= r[j]
  <2>1. \A i \in 0..n : r[i] \in Int
    BY <1>2
  <2> QED BY <1>1, <2>1, Highest
<1>4. Range(r) = {r[i] : i \in 0..n}
  BY <1>2 DEF Range
<1>5. \E top \in Range(r) : \A total \in Range(r) : total <= top
  BY <1>3, <1>4
<1>6. HighWater(s) \in Range(r) /\ \A total \in Range(r) : total <= HighWater(s)
  BY <1>5 DEF HighWater, r
<1> QED BY <1>2, <1>4, <1>6 DEF n, r

(* One more trade leaves the earlier totals as they are.                   *)
LEMMA LoggedIs ==
  ASSUME NEW s \in Trades, NEW bp \in Bps
  PROVE  /\ Logged(s, bp) \in Trades /\ Len(Logged(s, bp)) = Len(s) + 1
         /\ \A i \in 0..Len(s) : Running(Logged(s, bp))[i] = Running(s)[i]
         /\ Earned(Logged(s, bp)) = Earned(s) + bp
<1> DEFINE l == Logged(s, bp)
           T == {i \in Nat : Running(l)[i] = Running(s)[i]}
<1>1. l \in Trades /\ Len(s) \in Nat /\ Len(l) = Len(s) + 1 /\ l[Len(s) + 1].bp = bp
      /\ \A i \in 1..Len(s) : l[i] = s[i]
  BY DEF Logged, Trades
<1> HIDE DEF l
<1>2. /\ Running(l) \in [0..Len(l) -> Int] /\ Running(l)[0] = 0
      /\ \A i \in 1..Len(l) : Running(l)[i] = Running(l)[i-1] + l[i].bp
      /\ Running(s) \in [0..Len(s) -> Int] /\ Running(s)[0] = 0
      /\ \A i \in 1..Len(s) : Running(s)[i] = Running(s)[i-1] + s[i].bp
  BY <1>1, RunningIs
<1> DEFINE d == [i \in 0..Len(s) |-> Running(l)[i] - Running(s)[i]]
<1>3. \A i \in 0..Len(s) : d[i] \in {0}
  <2>1. d[0] \in {0}
    BY <1>1, <1>2
  <2>2. ASSUME NEW i \in 1..Len(s), d[i-1] \in {0} PROVE d[i] \in {0}
    <3>1. i \in 0..Len(s) /\ i - 1 \in 0..Len(s) /\ i \in 1..Len(l) /\ i \in 0..Len(l)
          /\ i - 1 \in 0..Len(l)
      BY <1>1
    <3>2. d[i-1] = Running(l)[i-1] - Running(s)[i-1] /\ d[i] = Running(l)[i] - Running(s)[i]
      BY <3>1
    <3>3. Running(l)[i-1] \in Int /\ Running(s)[i-1] \in Int /\ l[i] = s[i] /\ s[i].bp \in Int
      BY <1>1, <1>2, <3>1, TradeFields
    <3>4. Running(l)[i-1] = Running(s)[i-1]
      BY <2>2, <3>2, <3>3
    <3>5. Running(l)[i] = Running(l)[i-1] + l[i].bp /\ Running(s)[i] = Running(s)[i-1] + s[i].bp
      BY <1>2, <3>1
    <3> QED BY <3>2, <3>3, <3>4, <3>5
  <2> HIDE DEF d
  <2> QED BY <1>1, <2>1, <2>2, KeptAlong
<1>4. \A i \in 0..Len(s) : Running(l)[i] = Running(s)[i]
  <2> SUFFICES ASSUME NEW i \in 0..Len(s) PROVE Running(l)[i] = Running(s)[i]
    OBVIOUS
  <2>1. i \in 0..Len(l)
    BY <1>1
  <2> QED BY <1>2, <1>3, <2>1
<1>5. Running(l)[Len(l)] = Running(s)[Len(s)] + bp
  <2>1. Len(l) \in 1..Len(l) /\ Len(l) - 1 = Len(s) /\ Len(s) \in 0..Len(s)
    BY <1>1
  <2> QED BY <1>1, <1>2, <1>4, <2>1
<1> QED BY <1>1, <1>4, <1>5 DEF l, Earned

(* The totals do not depend on the trades' ages.                           *)
LEMMA AgedIs ==
  ASSUME log \in Trades, NEW k
  PROVE  /\ Aged(k) \in Trades /\ Len(Aged(k)) = Len(log)
         /\ Running(Aged(k)) = Running(log)
<1> DEFINE l == Aged(k)
           d == [i \in 0..Len(log) |-> Running(l)[i] - Running(log)[i]]
<1>1. Len(log) \in Nat
  BY TradeFields
<1>2. l \in Trades /\ Len(l) = Len(log) /\ \A i \in 1..Len(log) : l[i].bp = log[i].bp
  <2> DEFINE R == [bp : Bps, age : {"fresh", "day", "old"}]
             Older(r, i) == [r EXCEPT !.age = IF i <= k THEN "old" ELSE "day"]
  <2>1. \A r \in R, i \in 1..Len(log) : Older(r, i) \in R /\ Older(r, i).bp = r.bp
    OBVIOUS
  <2>2. l = [i \in 1..Len(log) |-> Older(log[i], i)]
    BY DEF Aged
  <2> HIDE DEF R, Older, l
  <2>3. log \in Seq(R)
    BY DEF Trades, R
  <2>4. \A i \in 1..Len(log) : log[i] \in R
    BY <2>3
  <2>5. l \in [1..Len(log) -> R] /\ \A i \in 1..Len(log) : l[i].bp = log[i].bp
    BY <2>1, <2>2, <2>4
  <2>6. l \in Seq(R) /\ Len(l) = Len(log)
    BY <1>1, <2>5
  <2> QED BY <2>5, <2>6 DEF Trades, R
<1> HIDE DEF l
<1>3. /\ Running(l) \in [0..Len(log) -> Int] /\ Running(l)[0] = 0
      /\ \A i \in 1..Len(log) : Running(l)[i] = Running(l)[i-1] + l[i].bp
      /\ Running(log) \in [0..Len(log) -> Int] /\ Running(log)[0] = 0
      /\ \A i \in 1..Len(log) : Running(log)[i] = Running(log)[i-1] + log[i].bp
  BY <1>2, RunningIs
<1>4. \A i \in 0..Len(log) : d[i] \in {0}
  <2>1. d[0] \in {0}
    BY <1>1, <1>3
  <2>2. ASSUME NEW i \in 1..Len(log), d[i-1] \in {0} PROVE d[i] \in {0}
    <3>1. i \in 0..Len(log) /\ i - 1 \in 0..Len(log)
      BY <1>1
    <3>2. d[i-1] = Running(l)[i-1] - Running(log)[i-1] /\ d[i] = Running(l)[i] - Running(log)[i]
      BY <3>1
    <3>3. Running(l)[i-1] \in Int /\ Running(log)[i-1] \in Int /\ l[i].bp = log[i].bp
          /\ log[i].bp \in Int
      BY <1>2, <1>3, <3>1, TradeFields
    <3>4. Running(l)[i-1] = Running(log)[i-1]
      BY <2>2, <3>2, <3>3
    <3>5. Running(l)[i] = Running(l)[i-1] + l[i].bp /\ Running(log)[i] = Running(log)[i-1] + log[i].bp
      BY <1>3, <3>1
    <3> QED BY <3>2, <3>3, <3>4, <3>5
  <2> HIDE DEF d
  <2> QED BY <1>1, <2>1, <2>2, KeptAlong
<1>5. \A i \in 0..Len(log) : Running(l)[i] = Running(log)[i]
  BY <1>3, <1>4
<1> QED BY <1>2, <1>3, <1>5 DEF l

-----------------------------------------------------------------------------
(* What trades and closings do to the trades and the protection state: the *)
(* equity moves with the totals, and the peak is above each of the new.    *)
Follows(l, m) ==
    /\ l \in Trades /\ m \in States /\ Len(l) >= Len(log)
    /\ \A i \in 0..Len(log) : Running(l)[i] = Running(log)[i]
    /\ m.epoch = mem.epoch /\ m.base = mem.base /\ m.kill = mem.kill
    /\ m.cum - mem.cum = Earned(l) - Earned(log)
    /\ m.peak >= mem.peak /\ (mem.peak >= mem.cum => m.peak >= m.cum)
    /\ \A i \in Len(log) + 1..Len(l) : Running(l)[i] - Earned(log) + mem.cum <= m.peak

LEMMA FollowsSelf ==
  ASSUME log \in Trades, mem \in States
  PROVE  Follows(log, mem)
<1>1. Len(log) \in Nat /\ Earned(log) \in Int
  <2>1. Len(log) \in Nat /\ 0 \in 0..Len(log)
    BY DEF Trades
  <2> QED BY <2>1, NetIs
<1> QED BY <1>1 DEF Follows, States

LEMMA CreditedIs ==
  ASSUME NEW m \in States, NEW bp \in Int
  PROVE  /\ Credited(m, bp) \in States /\ Credited(m, bp).cum = m.cum + bp
         /\ Credited(m, bp).peak = Larger(m.peak, m.cum + bp)
         /\ Credited(m, bp).epoch = m.epoch /\ Credited(m, bp).base = m.base
         /\ Credited(m, bp).kill = m.kill
<1> DEFINE x == m.cum + bp
           y == Larger(m.peak, x)
<1>1. x \in Int /\ y \in Int
  BY DEF States, Larger
<1>2. Credited(m, bp) = [m EXCEPT !.cum = x, !.peak = y]
  BY DEF Credited
<1> HIDE DEF x, y
<1>3. [m EXCEPT !.cum = x, !.peak = y] \in States
  BY <1>1 DEF States
<1>4. /\ Credited(m, bp).cum = x /\ Credited(m, bp).peak = y
      /\ Credited(m, bp).epoch = m.epoch /\ Credited(m, bp).base = m.base
      /\ Credited(m, bp).kill = m.kill
  BY <1>2 DEF States
<1> QED BY <1>2, <1>3, <1>4 DEF x, y

LEMMA FollowsTrade ==
  ASSUME log \in Trades, mem \in States, NEW l, NEW m, Follows(l, m), NEW bp \in Bps
  PROVE  Follows(Logged(l, bp), Credited(m, bp))
<1> DEFINE l2 == Logged(l, bp)
           m2 == Credited(m, bp)
<1>1. /\ l \in Trades /\ l2 \in Trades /\ Len(l2) = Len(l) + 1
      /\ \A i \in 0..Len(l) : Running(l2)[i] = Running(l)[i]
      /\ Earned(l2) = Earned(l) + bp
  BY LoggedIs DEF Follows
<1>2. Len(log) \in Nat /\ Len(l) \in Nat /\ bp \in Int
  BY <1>1, HaltsAssumption DEF Trades
<1>3. /\ Earned(log) \in Int /\ Earned(l) \in Int /\ Earned(l2) \in Int
      /\ Running(l) \in [0..Len(l) -> Int]
  <2>1. 0 \in 0..Len(log) /\ 0 \in 0..Len(l) /\ 0 \in 0..Len(l2)
    BY <1>1, <1>2
  <2> QED BY <1>1, <2>1, NetIs, RunningIs
<1>4. /\ m2 \in States /\ m2.cum = m.cum + bp /\ m2.peak = Larger(m.peak, m.cum + bp)
      /\ m2.epoch = m.epoch /\ m2.base = m.base /\ m2.kill = m.kill
  BY <1>2, CreditedIs DEF Follows
<1> HIDE DEF l2, m2
<1>5. m2.peak >= m.peak /\ m2.peak >= m2.cum /\ m.peak \in Int /\ m.cum \in Int /\ m2.peak \in Int
  BY <1>2, <1>4 DEF Larger, Follows, States
<1>6. mem.peak \in Int /\ mem.cum \in Int
  BY DEF States
<1>9. m2.cum - mem.cum = Earned(l2) - Earned(log)
  <2>1. m.cum - mem.cum = Earned(l) - Earned(log)
    BY DEF Follows
  <2>2. Earned(l2) = Earned(l) + bp /\ m2.cum = m.cum + bp
    BY <1>1, <1>4
  <2>3. /\ m.cum \in Int /\ mem.cum \in Int /\ bp \in Int
        /\ Earned(l) \in Int /\ Earned(log) \in Int
    BY <1>2, <1>3, <1>5, <1>6
  <2>4. \A a, b, c, x, y \in Int : a - b = x - y => (a + c) - b = (x + c) - y
    OBVIOUS
  <2> QED BY <2>1, <2>2, <2>3, <2>4
<1>7. ASSUME NEW i \in Len(log) + 1..Len(l2)
      PROVE  Running(l2)[i] - Earned(log) + mem.cum <= m2.peak
  <2>1. CASE i = Len(l2)
    <3>1. Running(l2)[i] = Earned(l) + bp
      BY <1>1, <2>1 DEF Earned
    <3>2. m2.cum - mem.cum = (Earned(l) + bp) - Earned(log)
      BY <1>1, <1>9
    <3>3. m2.cum \in Int /\ mem.cum \in Int /\ m2.peak \in Int /\ m2.peak >= m2.cum
      BY <1>2, <1>4, <1>5, <1>6
    <3>4. Earned(l) + bp \in Int /\ Earned(log) \in Int
      BY <1>2, <1>3
    <3>5. \A r, e, c, d, p \in Int : d - c = r - e /\ p >= d => r - e + c <= p
      OBVIOUS
    <3> QED BY ONLY <3>1, <3>2, <3>3, <3>4, <3>5
  <2>2. CASE i # Len(l2)
    <3>1. i \in Len(log) + 1..Len(l) /\ i \in 0..Len(l)
      BY <1>1, <1>2, <2>2
    <3>2. Running(l)[i] - Earned(log) + mem.cum <= m.peak /\ Running(l)[i] \in Int
      BY <1>3, <3>1 DEF Follows
    <3> QED BY <1>1, <1>3, <1>5, <1>6, <3>1, <3>2
  <2> QED BY <2>1, <2>2
<1>8. \A i \in 0..Len(log) : Running(l2)[i] = Running(log)[i]
  BY <1>1, <1>2 DEF Follows
<1>10. Follows(l2, m2)
  BY <1>1, <1>2, <1>4, <1>5, <1>6, <1>7, <1>8, <1>9 DEF Follows
<1> QED BY <1>10 DEF l2, m2

LEMMA OrderIs ==
  /\ Len(Order) \in Nat
  /\ \A i \in 1..Len(Order) : Order[i] \in Wired
  /\ \A e \in Wired : \E i \in 1..Len(Order) : e = Order[i]
BY HaltsAssumption DEF Wired, Range

(* Closing position after position is a sequence of such trades; with no   *)
(* position nothing changes.                                               *)
LEMMA ClosingIs ==
  ASSUME TypeOK, NEW bps \in [Wired -> setting.bps]
  PROVE  /\ Follows(Closing(bps).log, Closing(bps).mem)
         /\ (\A e \in Wired : ~eng[e].in) => Closing(bps) = [log |-> log, mem |-> mem]
<1> DEFINE n == Len(Order)
           start == [log |-> log, mem |-> mem]
           S == {p \in [log : Trades, mem : States] :
                    Follows(p.log, p.mem) /\ ((\A e \in Wired : ~eng[e].in) => p = start)}
           Step(p, bp) == [log |-> Logged(p.log, bp), mem |-> Credited(p.mem, bp)]
           Body(r) == [i \in 0..n |->
                          IF i = 0 THEN start
                          ELSE IF eng[Order[i]].in THEN Step(r[i-1], bps[Order[i]]) ELSE r[i-1]]
           g == [p \in (1..n) \X S |->
                    IF eng[Order[p[1]]].in THEN Step(p[2], bps[Order[p[1]]]) ELSE p[2]]
<1>1. log \in Trades /\ mem \in States /\ setting.bps \subseteq Bps
  BY HaltsAssumption DEF TypeOK, AllSettings
<1>2. start \in S
  BY <1>1, FollowsSelf
<1>3. ASSUME NEW e \in Wired, eng[e].in, NEW p \in S PROVE Step(p, bps[e]) \in S
  <2>1. bps[e] \in Bps
    BY <1>1
  <2>2. Follows(Logged(p.log, bps[e]), Credited(p.mem, bps[e]))
    BY <1>1, <2>1, FollowsTrade
  <2>3. Logged(p.log, bps[e]) \in Trades /\ Credited(p.mem, bps[e]) \in States
    BY <2>2 DEF Follows
  <2> QED BY <1>3, <2>2, <2>3
<1> HIDE DEF S, start
<1>4. n \in Nat /\ \A i \in 1..n : Order[i] \in Wired
  BY OrderIs
<1> HIDE DEF n, Step
<1>5. g \in [(1..n) \X S -> S]
  BY <1>3, <1>4
<1>6. \A i \in 1..n, p \in S :
         g[<<i, p>>] = IF eng[Order[i]].in THEN Step(p, bps[Order[i]]) ELSE p
  OBVIOUS
<1> HIDE DEF g
<1>7. PICK r \in [0..n -> S] : r[0] = start /\ \A i \in 1..n : r[i] = g[<<i, r[i-1]>>]
  <2>1. \E r \in [0..n -> S] : Accumulates(r, n, start, g)
    BY <1>2, <1>4, <1>5, Accumulation, Zenon
  <2> QED BY <2>1 DEF Accumulates
<1>8. r = Body(r)
  <2>1. ASSUME NEW i \in 0..n, i # 0
        PROVE r[i] = IF eng[Order[i]].in THEN Step(r[i-1], bps[Order[i]]) ELSE r[i-1]
    <3>1. i \in 1..n /\ i - 1 \in 0..n
      BY <1>4, <2>1
    <3>2. r[i-1] \in S /\ r[i] = g[<<i, r[i-1]>>]
      BY <1>7, <3>1
    <3> QED BY <1>6, <3>1, <3>2
  <2> QED BY <1>7, <2>1
<1> DEFINE q == CHOOSE f : f = Body(f)
<1>9. q = Body(q)
  BY <1>8
<1>10. Closing(bps) = q[n]
  BY DEF Closing, n, start, Step
<1> HIDE DEF q
<1>11. \A i \in 0..n : q[i] \in S
  <2>1. q[0] = start /\ \A i \in 1..n : q[i] = IF eng[Order[i]].in
                                             THEN Step(q[i-1], bps[Order[i]]) ELSE q[i-1]
    <3>1. 0 \in 0..n /\ \A i \in 1..n : i \in 0..n /\ i # 0
      BY <1>4
    <3> QED BY <1>9, <3>1
  <2>2. \A i \in 1..n : q[i-1] \in S => q[i] \in S
    BY <1>3, <1>4, <2>1
  <2> QED BY <1>2, <1>4, <2>1, <2>2, KeptAlong
<1>12. q[n] \in S
  BY <1>4, <1>11
<1> QED BY <1>10, <1>12 DEF S, start

-----------------------------------------------------------------------------
(* Type correctness.                                                       *)
LEMMA FreshIsTyped == Fresh \in Engines
BY DEF Fresh, Engines

LEMMA EngineFields ==
  ASSUME NEW s \in Engines
  PROVE  /\ [s EXCEPT !.gate = FALSE] \in Engines /\ [s EXCEPT !.gate = FALSE].gate = FALSE
         /\ [s EXCEPT !.gate = TRUE, !.cool = "none"] \in Engines
         /\ [s EXCEPT !.in = FALSE, !.halted = TRUE] \in Engines
BY DEF Engines

LEMMA SettledEngine ==
  ASSUME NEW s \in Engines
  PROVE  /\ Blocked(Cooled(s)) \in Engines /\ Blocked(Cooled(s)).in = s.in
         /\ emergency # 0 /\ s.gate = FALSE => Blocked(Cooled(s)).gate = FALSE
<1>1. Cooled(s) \in Engines /\ Cooled(s).in = s.in /\ (emergency # 0 => Cooled(s) = s)
  <2>1. [s EXCEPT !.gate = TRUE, !.cool = "none"] \in Engines
        /\ [s EXCEPT !.gate = TRUE, !.cool = "none"].in = s.in
    BY DEF Engines
  <2> QED BY <2>1 DEF Cooled
<1>2. \A t \in Engines : /\ Blocked(t) \in Engines /\ Blocked(t).in = t.in
                         /\ t.gate = FALSE => Blocked(t).gate = FALSE
  BY DEF Blocked, Engines
<1> QED BY <1>1, <1>2

LEMMA AfterTickIs ==
  ASSUME TypeOK, NEW signals \in SUBSET Wired
  PROVE  /\ AfterTick(signals) \in [Wired -> Engines]
         /\ \A e \in Wired :
               /\ AfterTick(signals)[e].gate = Blocked(Cooled(eng[e])).gate
               /\ AfterTick(signals)[e].in =
                     (eng[e].in \/ e \in Entered([o \in Wired |-> Blocked(Cooled(eng[o]))], signals))
<1> DEFINE st == [e \in Wired |-> Blocked(Cooled(eng[e]))]
           got == Entered(st, signals)
<1>1. \A e \in Wired : st[e] \in Engines /\ st[e].in = eng[e].in
  BY SettledEngine DEF TypeOK
<1>2. AfterTick(signals) = [e \in Wired |-> [st[e] EXCEPT !.in = @ \/ e \in got]]
  BY DEF AfterTick
<1>3. st = [o \in Wired |-> Blocked(Cooled(eng[o]))]
  OBVIOUS
<1> HIDE DEF got
<1>4. ASSUME NEW e \in Wired
      PROVE  /\ AfterTick(signals)[e] \in Engines
             /\ AfterTick(signals)[e].gate = st[e].gate
             /\ AfterTick(signals)[e].in = (eng[e].in \/ e \in got)
  <2> DEFINE t == st[e]
             b == t.in \/ e \in got
  <2>1. AfterTick(signals)[e] = [t EXCEPT !.in = b] /\ t \in Engines /\ t.in = eng[e].in
        /\ b \in BOOLEAN
    BY <1>1, <1>2
  <2> HIDE DEF t, b
  <2>2. [t EXCEPT !.in = b] \in Engines /\ [t EXCEPT !.in = b].gate = t.gate
        /\ [t EXCEPT !.in = b].in = b
    BY <2>1 DEF Engines
  <2> QED BY <2>1, <2>2 DEF t, b
<1>5. AfterTick(signals) \in [Wired -> Engines]
  BY <1>2, <1>4
<1> QED BY <1>3, <1>4, <1>5 DEF got

LEMMA EmptyIsTyped ==
  /\ Empty \in States /\ Idle \in Passes /\ NoReset \in Resets /\ <<>> \in Trades
  /\ Unlocked \in [locked : BOOLEAN, for : 0..Day]
BY DEF Empty, States, KillUnits, Idle, Passes, NoReset, Resets, Trades, Unlocked, Day

LEMMA TypeInit == Init => TypeOK
<1> SUFFICES ASSUME Init PROVE TypeOK
  OBVIOUS
<1>1. eng \in [Wired -> Engines]
  BY FreshIsTyped DEF Init
<1>2. Len(log) = 0 /\ mem.epoch = 0 /\ file.epoch = 0 /\ reset.epoch = 0 /\ reset.save.epoch = 0
  BY DEF Init, Empty, NoReset
<1> QED
  <2>1. /\ log = <<>> /\ mem = Empty /\ file = Empty /\ emergency = 0 /\ ratchet = Unlocked
        /\ below = "unset" /\ forced = FALSE /\ open = TRUE /\ symCool = FALSE /\ loop = Idle
        /\ reset = NoReset /\ up = TRUE /\ due = TRUE /\ seen = FALSE /\ owed = 0
        /\ saved = FALSE /\ eased = FALSE /\ rebased = FALSE /\ setting \in Settings
    BY DEF Init
  <2>2. /\ mem.epoch <= Len(log) /\ file.epoch <= Len(log) /\ reset.epoch <= Len(log)
        /\ reset.save.epoch <= Len(log)
    BY <1>2
  <2>3. emergency \in 0..EmergencyUnits /\ owed \in 0..KillUnits
    BY <2>1 DEF EmergencyUnits, KillUnits
  <2> QED BY <1>1, <2>1, <2>2, <2>3, EmptyIsTyped DEF TypeOK

(* The fields of the protection state, one by one.                         *)
LEMMA StateFields ==
  ASSUME NEW m \in States
  PROVE  m.peak \in Int /\ m.cum \in Int /\ m.kill \in 0..1 /\ m.epoch \in Nat /\ m.base \in Int
BY DEF States, KillUnits

LEMMA KillFields ==
  ASSUME NEW m \in States, NEW k \in 0..1
  PROVE  /\ [m EXCEPT !.kill = k] \in States /\ [m EXCEPT !.kill = k].kill = k
         /\ [m EXCEPT !.kill = k].epoch = m.epoch
         /\ [m EXCEPT !.kill = k].peak = m.peak /\ [m EXCEPT !.kill = k].cum = m.cum
         /\ [m EXCEPT !.kill = k].base = m.base
BY DEF States, KillUnits

LEMMA ResetFields ==
  ASSUME NEW r \in Resets
  PROVE  /\ r.epoch \in Nat /\ r.cum \in Int /\ r.peak \in Int /\ r.save \in States
         /\ r.old \in BOOLEAN
         /\ \A a \in {"none", "peak", "read", "rebase", "clear", "save", "write"} :
               /\ [r EXCEPT !.at = a] \in Resets /\ [r EXCEPT !.at = a].at = a
               /\ [r EXCEPT !.at = a].epoch = r.epoch /\ [r EXCEPT !.at = a].save = r.save
         /\ \A b \in BOOLEAN :
               /\ [r EXCEPT !.old = b] \in Resets /\ [r EXCEPT !.old = b].old = b
               /\ [r EXCEPT !.old = b].at = r.at /\ [r EXCEPT !.old = b].save = r.save
               /\ [r EXCEPT !.old = b].epoch = r.epoch
BY DEF Resets

LEMMA SaveFields ==
  ASSUME NEW r \in Resets, NEW m \in States
  PROVE  /\ [r EXCEPT !.at = "write", !.save = m, !.old = FALSE] \in Resets
         /\ [r EXCEPT !.at = "write", !.save = m, !.old = FALSE].epoch = r.epoch
         /\ [r EXCEPT !.at = "write", !.save = m, !.old = FALSE].save = m
         /\ [r EXCEPT !.at = "write", !.save = m, !.old = FALSE].at = "write"
<1> DEFINE r1 == [r EXCEPT !.at = "write"]
           r2 == [r1 EXCEPT !.save = m]
           r3 == [r2 EXCEPT !.old = FALSE]
<1>1. r1 \in Resets /\ r1.at = "write" /\ r1.epoch = r.epoch
  BY ResetFields
<1> HIDE DEF r1
<1>2. r2 \in Resets /\ r2.at = "write" /\ r2.epoch = r.epoch /\ r2.save = m
  BY <1>1 DEF Resets
<1> HIDE DEF r2
<1>3. r3 \in Resets /\ r3.at = "write" /\ r3.epoch = r.epoch /\ r3.save = m
  BY <1>2 DEF Resets
<1>4. r3 = [r EXCEPT !.at = "write", !.save = m, !.old = FALSE]
  BY DEF r1, r2, Resets
<1> QED BY <1>3, <1>4

LEMMA EpochsPast ==
  ASSUME TypeOK
  PROVE  /\ Len(log) \in Nat /\ mem.epoch \in 0..Len(log) /\ file.epoch \in 0..Len(log)
         /\ reset.epoch \in 0..Len(log) /\ reset.save.epoch \in 0..Len(log)
<1>1. Len(log) \in Nat
  BY TradeFields DEF TypeOK
<1>2. mem.epoch \in Nat /\ file.epoch \in Nat /\ reset.epoch \in Nat /\ reset.save.epoch \in Nat
  <2>1. reset.save \in States
    BY ResetFields DEF TypeOK
  <2> QED BY <2>1, StateFields, ResetFields DEF TypeOK
<1> QED BY <1>1, <1>2 DEF TypeOK

LEMMA EquityIs ==
  ASSUME TypeOK
  PROVE  Equity \in Int /\ Equity = mem.base + Earned(log) - Running(log)[mem.epoch]
<1>1. mem.epoch \in 0..Len(log) /\ log \in Trades
  BY EpochsPast DEF TypeOK
<1>2. mem.base \in Int
  BY DEF TypeOK, States
<1>3. Running(log)[mem.epoch] \in Int
  BY <1>1, RunningIs
<1>4. /\ Earned(log) \in Int /\ Net(log, mem.epoch) \in Int
      /\ Net(log, mem.epoch) = Earned(log) - Running(log)[mem.epoch]
  BY <1>1, NetIs
<1> QED BY <1>2, <1>3, <1>4 DEF Equity

LEMMA TypeStep == TypeOK /\ [Next]_vars => TypeOK'
<1> SUFFICES ASSUME TypeOK, [Next]_vars PROVE TypeOK'
  OBVIOUS
<1>0. /\ setting.bps \subseteq Bps /\ Bps \subseteq Int
      /\ Len(log) \in Nat /\ mem.epoch \in 0..Len(log) /\ file.epoch \in 0..Len(log)
      /\ reset.epoch \in 0..Len(log) /\ reset.save.epoch \in 0..Len(log)
      /\ setting.warm \subseteq Int
  BY HaltsAssumption, EpochsPast DEF TypeOK, AllSettings
<1>a. /\ mem.epoch <= Len(log) /\ file.epoch <= Len(log) /\ reset.epoch <= Len(log)
      /\ reset.save.epoch <= Len(log) /\ NoReset.epoch <= Len(log) /\ NoReset.save.epoch <= Len(log)
  BY <1>0 DEF NoReset, Empty
<1>1. ASSUME NEW e \in Wired, NEW bp \in setting.bps, Trade(e, bp) PROVE TypeOK'
  <2>1. Follows(log', mem')
    BY <1>0, <1>1, FollowsSelf, FollowsTrade DEF Trade, TypeOK
  <2>2. eng' \in [Wired -> Engines]
    BY <1>1 DEF Trade, TypeOK, Engines
  <2>3. symCool' \in BOOLEAN
    BY <1>0, <1>1 DEF Trade, TypeOK
  <2>4. log' \in Trades /\ mem' \in States /\ Len(log') \in Nat /\ Len(log') >= Len(log)
        /\ mem'.epoch = mem.epoch
    BY <2>1 DEF Follows, Trades
  <2>5. file' = mem' /\ due' = TRUE
        /\ UNCHANGED <<emergency, ratchet, below, forced, open, loop, reset, up,
                       seen, owed, saved, eased, rebased, count, setting>>
    BY <1>1 DEF Trade
  <2>6. /\ mem'.epoch <= Len(log') /\ file'.epoch <= Len(log') /\ reset'.epoch <= Len(log')
        /\ reset'.save.epoch <= Len(log')
    BY <1>0, <2>4, <2>5
  <2> QED BY <2>2, <2>3, <2>4, <2>5, <2>6 DEF TypeOK
<1>2. CASE Tick
  BY <1>2, AfterTickIs DEF Tick, TypeOK
<1>3. ASSUME NEW alarm \in BOOLEAN, NEW bps \in [Wired -> setting.bps], LoopReads(alarm, bps)
      PROVE TypeOK'
  <2> DEFINE pnl == DailyPnl(log, mem.epoch)
             trips == EmergencyTrips(HalfHourPnl(log, mem.epoch), alarm)
             after == IF trips THEN Closing(bps) ELSE [log |-> log, mem |-> mem]
             closes == trips /\ \E e \in Wired : eng[e].in
             kills == KillTrips(pnl)
  <2>1. Follows(after.log, after.mem)
    <3>1. Follows(log, mem) /\ Follows(Closing(bps).log, Closing(bps).mem)
      BY FollowsSelf, ClosingIs DEF TypeOK
    <3> QED BY <3>1
  <2>2. /\ log' = after.log
        /\ mem' = IF kills THEN [after.mem EXCEPT !.kill = KillUnits] ELSE after.mem
        /\ file' = IF closes THEN after.mem ELSE file
        /\ eng' = IF trips THEN Flattened ELSE IF emergency > 0 THEN Shut ELSE eng
        /\ emergency' = IF trips THEN EmergencyUnits ELSE emergency
        /\ below' = IF pnl < -DailyLoss THEN "yes" ELSE "no"
        /\ loop' = [Idle EXCEPT !.at = IF kills THEN "save" ELSE "equity",
                                !.halted = mem'.kill > 0]
        /\ reset' = [reset EXCEPT !.old = @ \/ (kills /\ reset.at = "write")]
        /\ due' = trips /\ seen' = (emergency > 0)
        /\ owed' = IF kills THEN KillUnits ELSE owed
        /\ saved' = (saved /\ ~kills)
        /\ UNCHANGED <<ratchet, forced, open, symCool, up, eased, rebased, count, setting>>
    BY <1>3, Zenon DEF LoopReads
  <2>3. trips \in BOOLEAN
    BY DEF EmergencyTrips
  <2> HIDE DEF after, closes, kills, trips, pnl
  <2>4. after.log \in Trades /\ after.mem \in States /\ Len(after.log) >= Len(log)
        /\ after.mem.epoch = mem.epoch /\ Len(after.log) \in Nat
    BY <2>1 DEF Follows, Trades
  <2>5. mem' \in States /\ mem'.epoch = mem.epoch
    <3>1. [after.mem EXCEPT !.kill = 1] \in States
          /\ [after.mem EXCEPT !.kill = 1].epoch = after.mem.epoch
      BY <2>4 DEF States, KillUnits
    <3> QED BY <2>2, <2>4, <3>1 DEF KillUnits
  <2>6. file' \in {after.mem, file}
    BY <2>2
  <2>7. eng' \in [Wired -> Engines]
    <3>1. Flattened \in [Wired -> Engines] /\ Shut \in [Wired -> Engines]
      BY EngineFields DEF TypeOK, Flattened, Shut
    <3> QED BY <2>2, <3>1 DEF TypeOK
  <2>8. loop' \in Passes
    <3>1. (mem'.kill > 0) \in BOOLEAN /\ (IF kills THEN "save" ELSE "equity") \in {"save", "equity"}
      OBVIOUS
    <3> QED BY <2>2, <3>1, EmptyIsTyped DEF Passes
  <2>9. emergency' \in 0..EmergencyUnits /\ owed' \in 0..KillUnits /\ seen' \in BOOLEAN
        /\ due' \in BOOLEAN /\ below' \in {"unset", "no", "yes"} /\ saved' \in BOOLEAN
    BY <2>2, <2>3 DEF TypeOK, EmergencyUnits, KillUnits
  <2>11. reset' \in Resets /\ reset'.epoch = reset.epoch /\ reset'.save = reset.save
    <3>1. reset.old \in BOOLEAN
      BY ResetFields DEF TypeOK
    <3>2. PICK b \in BOOLEAN : reset' = [reset EXCEPT !.old = b]
      BY <2>2, <3>1
    <3> QED BY <3>2 DEF TypeOK, Resets
  <2>10. /\ mem'.epoch <= Len(log') /\ file'.epoch <= Len(log') /\ reset'.epoch <= Len(log')
         /\ reset'.save.epoch <= Len(log')
    <3>1. file'.epoch \in {mem'.epoch, file.epoch} /\ log' = after.log
      BY <2>2, <2>4, <2>5, <2>6
    <3> QED BY <1>0, <2>4, <2>5, <2>11, <3>1
  <2> QED
    BY <2>2, <2>4, <2>5, <2>6, <2>7, <2>8, <2>9, <2>10, <2>11 DEF TypeOK
<1>12. CASE LoopSaves
  <2>1. /\ loop' = [loop EXCEPT !.at = "equity"] /\ file' = mem /\ saved' = TRUE
        /\ UNCHANGED <<log, mem, emergency, ratchet, below, forced, open, eng, symCool,
                       reset, up, due, seen, owed, eased, rebased, count, setting>>
    BY <1>12 DEF LoopSaves
  <2>2. loop' \in Passes
    BY <2>1 DEF TypeOK, Passes
  <2> QED BY <2>1, <2>2 DEF TypeOK
<1>4. CASE LoopEquity
  <2> DEFINE peak == Larger(mem.peak, Equity)
             clamp == peak - Equity > MaxToleratedDd
  <2>1. Equity \in Int /\ peak \in Int /\ clamp \in BOOLEAN
    <3>1. mem.peak \in Int
      BY DEF TypeOK, States
    <3> QED BY <3>1, EquityIs DEF Larger
  <2>2. /\ loop' = [loop EXCEPT !.at = "ratchet", !.cum = Equity,
                               !.peak = IF clamp THEN Equity ELSE peak]
        /\ file' = IF clamp THEN mem ELSE file
        /\ eased' = (eased \/ clamp)
        /\ UNCHANGED <<log, mem, emergency, ratchet, below, forced, open, eng, symCool,
                       reset, up, due, seen, owed, saved, rebased, count, setting>>
    BY <1>4, Zenon DEF LoopEquity
  <2> HIDE DEF clamp, peak
  <2>3. loop' \in Passes
    BY <2>1, <2>2 DEF TypeOK, Passes
  <2>4. file' \in {mem, file} /\ eased' \in BOOLEAN
    BY <2>1, <2>2 DEF TypeOK
  <2> QED BY <2>2, <2>3, <2>4 DEF TypeOK
<1>5. CASE LoopRatchet
  <2>1. PICK held, cum, decays, peak :
          /\ held = IF forced THEN Unlocked ELSE ratchet
          /\ cum = loop.cum
          /\ decays = (held.locked /\ held.for > 0 /\ loop.peak > cum)
          /\ peak = IF decays THEN Decayed(loop.peak, cum, held.for) ELSE loop.peak
          /\ mem' = [mem EXCEPT !.cum = cum, !.peak = peak]
          /\ file' = IF peak < loop.peak THEN mem' ELSE file
          /\ ratchet' = Relocked(IF decays THEN [held EXCEPT !.for = 0] ELSE held, peak, cum)
          /\ open' = (~ratchet'.locked /\ ~loop.halted /\ peak - cum < ThrottleZeroAt)
          /\ forced' = FALSE /\ loop' = Idle
          /\ eased' = (eased \/ peak < loop.peak)
          /\ UNCHANGED <<log, emergency, below, eng, symCool, reset, up, due, seen, owed,
                         saved, rebased, count, setting>>
    BY <1>5, Zenon DEF LoopRatchet
  <2>2. held \in [locked : BOOLEAN, for : 0..Day] /\ cum \in Int /\ loop.peak \in Int
    BY <2>1, EmptyIsTyped DEF TypeOK, Passes
  <2>3. peak \in Int
    <3>1. held.for \in Int
      BY <2>2
    <3>2. (loop.peak * held.for) \div (10 * Day) \in Int
      <4>1. loop.peak * held.for \in Int
        BY <2>2, <3>1
      <4> QED BY <4>1 DEF Day
    <3>3. Decayed(loop.peak, cum, held.for) \in Int
      BY <2>2, <3>2 DEF Decayed, Larger
    <3> QED BY <2>1, <2>2, <3>3
  <2>4. mem' \in States /\ mem'.epoch = mem.epoch
    BY <2>1, <2>2, <2>3 DEF TypeOK, States
  <2>5. ratchet' \in [locked : BOOLEAN, for : 0..Day]
    <3>1. [held EXCEPT !.for = 0] \in [locked : BOOLEAN, for : 0..Day]
      BY <2>2 DEF Day
    <3>2. PICK r \in [locked : BOOLEAN, for : 0..Day] : ratchet' = Relocked(r, peak, cum)
      BY <2>1, <2>2, <3>1
    <3>3. [r EXCEPT !.locked = TRUE] \in [locked : BOOLEAN, for : 0..Day]
      OBVIOUS
    <3> QED BY <3>2, <3>3, EmptyIsTyped DEF Relocked
  <2>6. file' \in {mem', file} /\ eased' \in BOOLEAN /\ open' \in BOOLEAN /\ forced' \in BOOLEAN
    BY <2>1 DEF TypeOK
  <2> QED BY <2>1, <2>4, <2>5, <2>6, EmptyIsTyped DEF TypeOK
<1>6. ASSUME ResetPeak \/ DailyKillClear \/ ClearHalts PROVE TypeOK'
  <2>0. mem \in States /\ reset \in Resets
    BY DEF TypeOK
  <2>1. mem' \in States /\ mem'.epoch = mem.epoch
    <3>1. [mem EXCEPT !.peak = reset.cum, !.kill = 0] \in States
          /\ [mem EXCEPT !.peak = reset.cum, !.kill = 0].epoch = mem.epoch
      <4> DEFINE c == reset.cum
      <4>1. c \in Int
        BY <2>0, ResetFields
      <4> DEFINE m == [mem EXCEPT !.peak = c]
      <4> HIDE DEF c
      <4>2. m \in States /\ m.epoch = mem.epoch
        BY <2>0, <4>1 DEF States
      <4>3. [mem EXCEPT !.peak = c, !.kill = 0] = [m EXCEPT !.kill = 0]
        BY <2>0 DEF States
      <4> HIDE DEF m
      <4>4. [m EXCEPT !.kill = 0] \in States /\ [m EXCEPT !.kill = 0].epoch = m.epoch
        BY <4>2 DEF States, KillUnits
      <4> QED BY <4>2, <4>3, <4>4 DEF c
    <3>2. [mem EXCEPT !.kill = 0] \in States /\ [mem EXCEPT !.kill = 0].epoch = mem.epoch
      BY <2>0 DEF States, KillUnits
    <3> QED BY <1>6, <3>1, <3>2 DEF ResetPeak, DailyKillClear, ClearHalts
  <2>2. reset' \in Resets /\ reset'.epoch <= Len(log) /\ reset'.save.epoch <= Len(log)
    <3>1. reset' \in {[reset EXCEPT !.at = "save"], [NoReset EXCEPT !.at = "save"]}
      BY <1>6 DEF ResetPeak, DailyKillClear, ClearHalts
    <3>2. /\ reset' \in Resets
          /\ \/ reset'.epoch = reset.epoch /\ reset'.save = reset.save
             \/ reset'.epoch = NoReset.epoch /\ reset'.save = NoReset.save
      BY <2>0, <3>1, EmptyIsTyped DEF Resets
    <3> QED BY <1>a, <3>2
  <2>3. forced' \in BOOLEAN /\ due' \in BOOLEAN /\ seen' \in BOOLEAN /\ eased' \in BOOLEAN
        /\ owed' \in 0..KillUnits /\ emergency' \in 0..EmergencyUnits
    <3>1. CASE ResetPeak
      BY <3>1 DEF ResetPeak, TypeOK, KillUnits
    <3>2. CASE DailyKillClear
      BY <3>2 DEF DailyKillClear, TypeOK, KillUnits
    <3>3. CASE ClearHalts
      <4>1. emergency' = 0 /\ forced' = TRUE /\ due' = TRUE /\ owed' = 0 /\ seen' = FALSE /\ eased' = eased
        BY <3>3 DEF ClearHalts
      <4>2. 0 \in 0..KillUnits /\ 0 \in 0..EmergencyUnits
        BY DEF KillUnits, EmergencyUnits
      <4> QED BY <4>1, <4>2 DEF TypeOK
    <3> QED BY <1>6, <3>1, <3>2, <3>3
  <2>4. UNCHANGED <<log, file, ratchet, below, open, eng, symCool, loop, up, saved, rebased, setting>>
    BY <1>6 DEF ResetPeak, DailyKillClear, ClearHalts
  <2> QED BY <2>1, <2>2, <2>3, <2>4 DEF TypeOK
<1>7. ASSUME RatchetReset \/ SessionReset \/ ReadEquity \/ Rebase PROVE TypeOK'
  <2>0. mem \in States /\ reset \in Resets
    BY DEF TypeOK
  <2>1. mem' \in States /\ mem'.epoch <= Len(log)
    <3>1. CASE RatchetReset \/ SessionReset
      BY <3>1 DEF RatchetReset, SessionReset, TypeOK
    <3>2. CASE ReadEquity
      <4>1. mem' = [mem EXCEPT !.epoch = reset.epoch] /\ reset.epoch \in Nat
        BY <2>0, <3>2, ResetFields DEF ReadEquity
      <4>2. mem' \in States /\ mem'.epoch = reset.epoch
        BY <2>0, <4>1 DEF States
      <4> QED BY <1>a, <4>2
    <3>3. CASE Rebase
      <4>1. reset.cum \in Int /\ reset.peak \in Int
        BY <2>0, ResetFields
      <4>2. mem' = [mem EXCEPT !.base = reset.cum, !.cum = reset.cum, !.peak = reset.peak]
        BY <3>3 DEF Rebase
      <4>3. mem' \in States /\ mem'.epoch = mem.epoch
        BY <2>0, <4>1, <4>2 DEF States
      <4> QED BY <1>a, <4>3
    <3> QED BY <1>7, <3>1, <3>2, <3>3
  <2>2. reset' \in Resets /\ reset'.epoch <= Len(log) /\ reset'.save.epoch <= Len(log)
    <3>0. mem.cum \in Int /\ mem.peak \in Int /\ NoReset.epoch = 0 /\ NoReset.save.epoch = 0
      BY <2>0, StateFields DEF NoReset, Empty
    <3>1. CASE SessionReset
      <4>1. reset' = [NoReset EXCEPT !.at = "read", !.epoch = Len(log)]
        BY <3>1 DEF SessionReset
      <4> DEFINE n == Len(log)
      <4>2. n \in Nat /\ n <= n
        BY <1>0
      <4> HIDE DEF n
      <4>3. [NoReset EXCEPT !.at = "read", !.epoch = n] \in Resets
            /\ [NoReset EXCEPT !.at = "read", !.epoch = n].epoch = n
            /\ [NoReset EXCEPT !.at = "read", !.epoch = n].save = NoReset.save
        BY <4>2, EmptyIsTyped DEF Resets
      <4> QED BY <1>0, <3>0, <4>1, <4>2, <4>3 DEF n
    <3>2. CASE ReadEquity
      <4>1. PICK c \in Int, p \in Int : reset' = [reset EXCEPT !.at = "rebase", !.cum = c, !.peak = p]
        <5>1. \A c \in setting.warm : c \in Int /\ Larger(mem.peak, c) \in Int
          BY <1>0, <3>0 DEF Larger
        <5> QED BY <3>0, <3>2, <5>1 DEF ReadEquity
      <4>2. reset' \in Resets /\ reset'.epoch = reset.epoch /\ reset'.save = reset.save
        BY <2>0, <4>1 DEF Resets
      <4> QED BY <1>a, <4>2
    <3>3. CASE Rebase
      <4>1. reset' = [reset EXCEPT !.at = "clear"]
        BY <3>3 DEF Rebase
      <4>2. reset' \in Resets /\ reset'.epoch = reset.epoch /\ reset'.save = reset.save
        BY <2>0, <4>1 DEF Resets
      <4> QED BY <1>a, <4>2
    <3>4. CASE RatchetReset
      <4>1. reset' = [NoReset EXCEPT !.at = "peak", !.cum = mem.cum]
        BY <3>4 DEF RatchetReset
      <4> DEFINE c == mem.cum
      <4> HIDE DEF c
      <4>2. c \in Int
        BY <3>0 DEF c
      <4>3. [NoReset EXCEPT !.at = "peak", !.cum = c] \in Resets
            /\ [NoReset EXCEPT !.at = "peak", !.cum = c].epoch = NoReset.epoch
            /\ [NoReset EXCEPT !.at = "peak", !.cum = c].save = NoReset.save
        BY <4>2, EmptyIsTyped DEF Resets
      <4> QED BY <1>0, <3>0, <4>1, <4>3 DEF c
    <3> QED BY <1>7, <3>1, <3>2, <3>3, <3>4
  <2>3. /\ UNCHANGED <<log, file, emergency, ratchet, below, forced, open, eng, symCool, loop, up,
                       due, seen, owed, saved, setting>>
        /\ eased' \in BOOLEAN /\ rebased' \in BOOLEAN
    BY <1>7 DEF RatchetReset, SessionReset, ReadEquity, Rebase, TypeOK
  <2> QED BY <2>1, <2>2, <2>3 DEF TypeOK
<1>13. ASSUME SaveReads \/ SaveWrites PROVE TypeOK'
  <2>0. mem \in States /\ reset \in Resets
    BY DEF TypeOK
  <2>1. reset' \in Resets /\ reset'.epoch <= Len(log) /\ reset'.save.epoch <= Len(log)
    <3>1. CASE SaveReads
      <4>1. reset' = [reset EXCEPT !.at = "write", !.save = mem, !.old = FALSE]
        BY <3>1 DEF SaveReads
      <4>2. reset' \in Resets /\ reset'.epoch = reset.epoch /\ reset'.save = mem
        BY <2>0, <4>1, SaveFields
      <4> QED BY <1>a, <4>2
    <3>2. CASE SaveWrites
      <4>1. NoReset.epoch = 0 /\ NoReset.save.epoch = 0 /\ reset' = NoReset
        BY <3>2 DEF NoReset, Empty, SaveWrites
      <4> QED BY <1>0, <4>1, EmptyIsTyped
    <3> QED BY <1>13, <3>1, <3>2
  <2>2. file' \in States /\ file'.epoch <= Len(log)
    <3>1. file' \in {file, reset.save}
      BY <1>13 DEF SaveReads, SaveWrites
    <3>2. file \in States /\ reset.save \in States
      BY <2>0, ResetFields DEF TypeOK
    <3> QED BY <1>a, <3>1, <3>2
  <2>3. /\ UNCHANGED <<log, mem, emergency, ratchet, below, forced, open, eng, symCool, loop, up,
                       due, seen, owed, eased, rebased, setting>>
        /\ saved' \in BOOLEAN
    BY <1>13 DEF SaveReads, SaveWrites, TypeOK
  <2> QED BY <2>1, <2>2, <2>3 DEF TypeOK
<1>8. ASSUME NEW units \in {1, Day}, Pass(units) PROVE TypeOK'
  <2>1. PICK k : log' = Aged(k)
    BY <1>8, Zenon DEF Pass
  <2>2. log' \in Trades /\ Len(log') = Len(log)
    BY <2>1, AgedIs DEF TypeOK
  <2>3. \A n \in Nat : Less(n, units) \in 0..n
    BY DEF Less, Larger, Day
  <2>4. /\ mem' = [mem EXCEPT !.kill = Less(mem.kill, units)]
        /\ file' = [file EXCEPT !.kill = Less(file.kill, units)]
        /\ emergency' = Less(emergency, units) /\ owed' = Less(owed, units)
        /\ ratchet' = [ratchet EXCEPT !.for = IF ratchet.locked THEN units ELSE 0]
        /\ symCool' = FALSE /\ due' = TRUE /\ seen' = (seen /\ emergency' > 0)
        /\ UNCHANGED <<below, forced, open, loop, reset, up, saved, eased, rebased, setting>>
    BY <1>8 DEF Pass
  <2>5. mem' \in States /\ mem'.epoch = mem.epoch /\ file' \in States /\ file'.epoch = file.epoch
    <3>1. mem.kill \in 0..1 /\ file.kill \in 0..1
      BY StateFields DEF TypeOK
    <3>2. Less(mem.kill, units) \in 0..1 /\ Less(file.kill, units) \in 0..1
      BY <2>3, <3>1
    <3> QED BY <2>4, <3>2, KillFields DEF TypeOK
  <2>6. emergency' \in 0..EmergencyUnits /\ owed' \in 0..KillUnits
    BY <2>3, <2>4 DEF TypeOK, EmergencyUnits, KillUnits
  <2>7. ratchet' \in [locked : BOOLEAN, for : 0..Day]
    BY <2>4 DEF TypeOK, Day
  <2>8. eng' \in [Wired -> Engines]
    <3>1. PICK over \in SUBSET Wired :
             eng' = [e \in Wired |-> IF e \in over THEN Warmer(eng[e]) ELSE eng[e]]
      BY <1>8 DEF Pass
    <3>2. \A t \in Engines : Warmer(t) \in Engines
      BY DEF Engines, Warmer
    <3> QED BY <3>1, <3>2 DEF TypeOK
  <2>9. seen' \in BOOLEAN
    BY <2>4 DEF TypeOK
  <2> QED BY <2>2, <2>4, <2>5, <2>6, <2>7, <2>8, <2>9 DEF TypeOK
<1>9. CASE Crash
  <2>1. log' \in Trades /\ Len(log') \in Nat /\ Len(log') >= Len(log)
    <3>1. log' = log \/ \E bp \in setting.bps : log' = Logged(log, bp)
      BY <1>9 DEF Crash
    <3>2. \A bp \in setting.bps : Logged(log, bp) \in Trades /\ Len(Logged(log, bp)) = Len(log) + 1
      BY <1>0, LoggedIs DEF TypeOK
    <3>3. log \in Trades /\ Len(log) \in Nat
      BY <1>0 DEF TypeOK
    <3>4. log' \in Trades /\ (Len(log') = Len(log) \/ Len(log') = Len(log) + 1)
      BY <3>1, <3>2, <3>3, Zenon
    <3> QED BY <3>3, <3>4
  <2>2. file' \in {file, Empty}
    BY <1>9 DEF Crash
  <2>3. file' \in States /\ file'.epoch <= Len(log')
    <3>1. Empty.epoch = 0 /\ file.epoch \in Nat
      BY StateFields DEF Empty, TypeOK
    <3> QED BY <1>0, <2>1, <2>2, <3>1, EmptyIsTyped DEF TypeOK
  <2>4. eng' \in [Wired -> Engines]
    BY <1>9, FreshIsTyped DEF Crash
  <2>5. mem'.epoch = 0 /\ reset'.epoch = 0 /\ reset'.save.epoch = 0
    BY <1>9 DEF Crash, Empty, NoReset
  <2>6. /\ up' = FALSE /\ mem' = Empty /\ emergency' = 0 /\ ratchet' = Unlocked
        /\ below' = "unset" /\ forced' = FALSE /\ open' = TRUE /\ symCool' = FALSE
        /\ loop' = Idle /\ reset' = NoReset /\ due' = TRUE /\ seen' = FALSE
        /\ owed' \in {0, owed} /\ UNCHANGED <<saved, eased, rebased, setting>>
    BY <1>9 DEF Crash
  <2>7. mem'.epoch <= Len(log') /\ reset'.epoch <= Len(log') /\ reset'.save.epoch <= Len(log')
        /\ emergency' \in 0..EmergencyUnits
    BY <2>1, <2>5, <2>6 DEF EmergencyUnits
  <2>8. owed' \in 0..KillUnits
    BY <2>6 DEF KillUnits, TypeOK
  <2> QED
    BY <2>1, <2>3, <2>4, <2>6, <2>7, <2>8, EmptyIsTyped DEF TypeOK
<1>10. CASE Boot
  <2>1. mem' \in {file, Rebuilt(file)} /\ file' \in {file, Rebuilt(file)} /\ eased' \in BOOLEAN
    BY <1>10 DEF Boot, TypeOK
  <2>2. Rebuilt(file) \in States /\ Rebuilt(file).epoch = file.epoch
    <3>1. Net(log, 0) \in Int /\ HighWater(log) \in Int
      BY <1>0, NetIs, HighWaterIs DEF TypeOK
    <3> QED BY <3>1 DEF Rebuilt, TypeOK, States, Larger
  <2>3. up' = TRUE /\ UNCHANGED <<log, emergency, ratchet, below, forced, open, eng, symCool,
                                  loop, reset, due, seen, owed, saved, rebased, setting>>
    BY <1>10 DEF Boot
  <2> QED BY <2>1, <2>2, <2>3 DEF TypeOK
<1>11. CASE UNCHANGED vars
  BY <1>11 DEF vars, TypeOK
<1> QED
  BY <1>1, <1>2, <1>3, <1>4, <1>5, <1>6, <1>7, <1>8, <1>9, <1>10, <1>11, <1>12, <1>13
  DEF Next, Loop, Handler

(* Whatever happens the state stays well typed, and no epoch of a session  *)
(* reset, stored, loaded or half-way, lies ahead of the trades.            *)
THEOREM StateWellTyped == Spec => []TypeOK
BY TypeInit, TypeStep, PTL DEF Spec

-----------------------------------------------------------------------------
(* The engines that enter on one tick: at most one, and none unless all of *)
(* the symbol are out of position.                                         *)
Alone(X, st) == X # {} => (\A e, o \in X : e = o) /\ \A o \in Wired : ~st[o].in

LEMMA EnteredIs ==
  ASSUME NEW st, NEW signals
  PROVE  Entered(st, signals) \subseteq Wired /\ Alone(Entered(st, signals), st)
<1> DEFINE n == Len(Order)
           S == {X \in SUBSET Wired : Alone(X, st)}
           Step(X, i) == X \cup {e \in {Order[i]} \cap signals : MayEnter(st, X, e)}
           Body(r) == [i \in 0..n |-> IF i = 0 THEN {} ELSE Step(r[i-1], i)]
           g == [p \in (1..n) \X S |-> Step(p[2], p[1])]
<1>1. n \in Nat /\ \A i \in 1..n : Order[i] \in Wired
  BY OrderIs
<1>2. {} \in S
  BY DEF Alone
<1>3. ASSUME NEW i \in 1..n, NEW X \in S PROVE Step(X, i) \in S
  <2>1. Order[i] \in Wired
    BY <1>1
  <2>2. CASE X = {}
    BY <2>1, <2>2 DEF MayEnter, Alone
  <2>3. CASE X # {}
    <3>1. PICK x \in Wired : x \in X
      BY <2>3
    <3>2. \A e : ~MayEnter(st, X, e)
      BY <3>1 DEF MayEnter
    <3> QED BY <3>2
  <2> QED BY <2>2, <2>3
<1> HIDE DEF S, n, Step
<1>4. g \in [(1..n) \X S -> S] /\ \A i \in 1..n, X \in S : g[<<i, X>>] = Step(X, i)
  BY <1>3
<1> HIDE DEF g
<1>5. PICK r \in [0..n -> S] : r[0] = {} /\ \A i \in 1..n : r[i] = g[<<i, r[i-1]>>]
  <2>1. \E r \in [0..n -> S] : Accumulates(r, n, {}, g)
    BY <1>1, <1>2, <1>4, Accumulation, Zenon
  <2> QED BY <2>1 DEF Accumulates
<1>6. r = Body(r)
  <2>1. ASSUME NEW i \in 0..n, i # 0 PROVE r[i] = Step(r[i-1], i)
    <3>1. i \in 1..n /\ i - 1 \in 0..n
      BY <1>1, <2>1
    <3>2. r[i-1] \in S /\ r[i] = g[<<i, r[i-1]>>]
      BY <1>5, <3>1
    <3> QED BY <1>4, <3>1, <3>2
  <2> QED BY <1>5, <2>1
<1> DEFINE q == CHOOSE f : f = Body(f)
<1>7. q = Body(q)
  BY <1>6
<1>8. Entered(st, signals) = q[n]
  BY DEF Entered, n, Step
<1> HIDE DEF q
<1>9. \A i \in 0..n : q[i] \in S
  <2>1. q[0] = {} /\ \A i \in 1..n : q[i] = Step(q[i-1], i)
    <3>1. 0 \in 0..n /\ \A i \in 1..n : i \in 0..n /\ i # 0
      BY <1>1
    <3> QED BY <1>7, <3>1
  <2>2. \A i \in 1..n : q[i-1] \in S => q[i] \in S
    BY <1>3, <2>1
  <2> QED BY <1>1, <1>2, <2>1, <2>2, KeptAlong
<1>10. Entered(st, signals) \in S
  BY <1>1, <1>8, <1>9
<1> QED BY <1>10 DEF S

LEMMA CapStep == TypeOK /\ CapHolds /\ [Next]_vars => CapHolds'
<1> SUFFICES ASSUME TypeOK, CapHolds, [Next]_vars PROVE CapHolds'
  OBVIOUS
<1>0. eng \in [Wired -> Engines]
  BY DEF TypeOK
<1>1. CASE Tick
  <2> DEFINE st == [o \in Wired |-> Blocked(Cooled(eng[o]))]
  <2>1. PICK signals \in SUBSET Wired : eng' = AfterTick(signals)
    BY <1>1 DEF Tick
  <2> DEFINE got == Entered(st, signals)
  <2>2. \A e \in Wired : eng'[e].in = (eng[e].in \/ e \in got)
    BY <2>1, AfterTickIs
  <2>3. \A e \in Wired : st[e].in = eng[e].in
    BY <1>0, SettledEngine
  <2>4. (\A e, o \in got : e = o) /\ (got # {} => \A o \in Wired : ~st[o].in)
    BY EnteredIs DEF Alone
  <2> HIDE DEF got, st
  <2> QED BY <2>2, <2>3, <2>4 DEF CapHolds
<1>2. ASSUME ~Tick PROVE \A e \in Wired : eng'[e].in => eng[e].in
  <2> SUFFICES ASSUME NEW e \in Wired PROVE eng'[e].in => eng[e].in
    OBVIOUS
  <2>0. eng[e] \in Engines /\ ~Fresh.in
    BY <1>0 DEF Fresh
  <2>1. ASSUME NEW x \in Wired, NEW bp \in setting.bps, Trade(x, bp) PROVE eng'[e].in => eng[e].in
    BY <1>0, <2>1 DEF Trade, Engines
  <2>2. ASSUME NEW alarm \in BOOLEAN, NEW bps \in [Wired -> setting.bps], LoopReads(alarm, bps)
        PROVE  eng'[e].in => eng[e].in
    <3>1. eng' \in {Flattened, Shut, eng}
      BY <2>2, Zenon DEF LoopReads
    <3>2. Flattened[e].in => eng[e].in
      BY <2>0 DEF Flattened, Engines
    <3>3. Shut[e].in => eng[e].in
      BY <2>0 DEF Shut, Engines
    <3> QED BY <3>1, <3>2, <3>3
  <2>3. CASE LoopSaves \/ LoopEquity \/ LoopRatchet
    BY <2>3 DEF LoopSaves, LoopEquity, LoopRatchet
  <2>4. CASE RatchetReset \/ DailyKillClear \/ SessionReset \/ Handler
    BY <2>4 DEF RatchetReset, DailyKillClear, SessionReset, Handler, ResetPeak, ReadEquity,
                Rebase, ClearHalts, SaveReads, SaveWrites
  <2>5. ASSUME NEW units \in {1, Day}, Pass(units) PROVE eng'[e].in => eng[e].in
    <3>1. PICK over \in SUBSET Wired :
             eng' = [x \in Wired |-> IF x \in over THEN Warmer(eng[x]) ELSE eng[x]]
      BY <2>5 DEF Pass
    <3>2. Warmer(eng[e]).in => eng[e].in
      BY <2>0 DEF Warmer, Engines
    <3> QED BY <3>1, <3>2
  <2>6. CASE Crash \/ Boot
    BY <2>0, <2>6 DEF Crash, Boot
  <2>7. CASE UNCHANGED vars
    BY <2>7 DEF vars
  <2> QED BY <1>2, <2>1, <2>2, <2>3, <2>4, <2>5, <2>6, <2>7 DEF Next, Loop
<1> QED BY <1>1, <1>2 DEF CapHolds

(* However many engines' bars close on one tick, the symbol never has two  *)
(* positions: the exposure counts are kept up to date from engine to       *)
(* engine (main.cpp: "exact within-tick caps").                            *)
THEOREM OnePositionPerSymbol == Spec => []CapHolds
<1>1. Init => CapHolds
  BY DEF Init, CapHolds, Fresh
<1> QED BY TypeInit, TypeStep, CapStep, <1>1, PTL DEF Spec

-----------------------------------------------------------------------------
(* The baseline of a session is the total at its epoch, and the equity the *)
(* total of all trades, both but for the replay's tolerance, in memory, in *)
(* the file and half-way through a pass or a session reset.                *)
RightBase(l, m) == Near(m.base, Running(l)[m.epoch])

EquityInv == ~setting.race /\ ~rebased =>
    /\ RightBase(log, file)
    /\ reset.at # "rebase" => RightBase(log, mem)
    /\ reset.at = "read" => reset.epoch = Len(log)
    /\ reset.at = "rebase" =>
          mem.epoch = Len(log) /\ reset.cum = mem.cum /\ reset.peak = mem.peak
    /\ up => Near(mem.cum, Earned(log))
    /\ loop.at = "ratchet" => Near(loop.cum, Earned(log))

(* A request that does not overlap the block saves what is in memory, and  *)
(* an equity that an operator sets is a deliberate change of the peak too. *)
QuietInv ==
    /\ rebased => eased
    /\ ~setting.race =>
          /\ reset.at # "none" => loop.at = "idle"
          /\ reset.at = "write" => reset.save = mem
          /\ ~up => reset = NoReset /\ loop = Idle

LEMMA NearIs ==
  ASSUME NEW a \in Int, NEW b \in Int
  PROVE  /\ Near(a, b) <=> -1 <= a - b /\ a - b <= 1
         /\ Near(a, b) <=> Near(b, a)
         /\ Near(a, a)
BY DEF Near, ReplayTolerance

LEMMA EmptyIsRight ==
  ASSUME NEW l \in Trades
  PROVE  RightBase(l, Empty)
<1>1. Running(l)[0] = 0 /\ Empty.base = 0 /\ Empty.epoch = 0
  BY RunningIs DEF Empty
<1>2. Near(0, 0)
  BY NearIs
<1> QED BY <1>1, <1>2 DEF RightBase

LEMMA EarnedIs ==
  ASSUME NEW l \in Trades
  PROVE  /\ Earned(l) \in Int /\ Net(l, 0) = Earned(l)
         /\ Earned(l) = Running(l)[Len(l)]
         /\ \A i \in 0..Len(l) : Running(l)[i] \in Int
<1>1. 0 \in 0..Len(l)
  BY TradeFields
<1> QED BY <1>1, NetIs, RunningIs DEF Earned

(* Trades keep what is right, in memory and in a file that is behind.      *)
LEMMA FollowsKeeps ==
  ASSUME TypeOK, NEW l, NEW m, Follows(l, m)
  PROVE  /\ RightBase(log, mem) => RightBase(l, m)
         /\ RightBase(log, file) => RightBase(l, file)
         /\ Near(mem.cum, Earned(log)) => Near(m.cum, Earned(l))
<1>1. mem.epoch \in 0..Len(log) /\ file.epoch \in 0..Len(log)
  BY EpochsPast
<1>2. Running(l)[mem.epoch] = Running(log)[mem.epoch]
      /\ Running(l)[file.epoch] = Running(log)[file.epoch]
  BY <1>1 DEF Follows
<1>3. m.epoch = mem.epoch /\ m.base = mem.base /\ m.cum - mem.cum = Earned(l) - Earned(log)
  BY DEF Follows
<1>4. m.cum \in Int /\ mem.cum \in Int
  BY DEF Follows, TypeOK, States
<1>5. Earned(l) \in Int /\ Earned(log) \in Int
  BY EarnedIs DEF Follows, TypeOK
<1>6. m.cum - Earned(l) = mem.cum - Earned(log)
  BY <1>3, <1>4, <1>5
<1> QED BY <1>2, <1>3, <1>6 DEF RightBase, Near

LEMMA SettingFixed == TypeOK /\ [Next]_vars => setting' = setting /\ (rebased => rebased')
<1> SUFFICES ASSUME TypeOK, [Next]_vars PROVE setting' = setting /\ (rebased => rebased')
  OBVIOUS
<1>1. ASSUME NEW e \in Wired, NEW bp \in setting.bps, Trade(e, bp) PROVE UNCHANGED <<setting, rebased>>
  BY <1>1 DEF Trade
<1>2. ASSUME NEW alarm \in BOOLEAN, NEW bps \in [Wired -> setting.bps], LoopReads(alarm, bps)
      PROVE UNCHANGED <<setting, rebased>>
  BY <1>2, Zenon DEF LoopReads
<1>3. ASSUME Tick \/ LoopSaves \/ LoopEquity \/ LoopRatchet PROVE UNCHANGED <<setting, rebased>>
  BY <1>3, Zenon DEF Tick, LoopSaves, LoopEquity, LoopRatchet
<1>4. ASSUME \/ RatchetReset \/ DailyKillClear \/ SessionReset \/ ResetPeak \/ Rebase
             \/ ClearHalts \/ SaveReads \/ SaveWrites
      PROVE  UNCHANGED <<setting, rebased>>
  BY <1>4 DEF RatchetReset, DailyKillClear, SessionReset, ResetPeak, Rebase, ClearHalts, SaveReads,
              SaveWrites
<1>7. CASE ReadEquity
  <2>1. setting' = setting
    BY <1>7 DEF ReadEquity
  <2>2. rebased' = rebased \/ rebased' = TRUE
    BY <1>7 DEF ReadEquity
  <2> QED BY <2>1, <2>2
<1>5. ASSUME NEW units \in {1, Day}, Pass(units) PROVE UNCHANGED <<setting, rebased>>
  BY <1>5 DEF Pass
<1>6. ASSUME Crash \/ Boot \/ UNCHANGED vars PROVE UNCHANGED <<setting, rebased>>
  BY <1>6 DEF Crash, Boot, vars
<1> QED BY <1>1, <1>2, <1>3, <1>4, <1>5, <1>6, <1>7 DEF Next, Loop, Handler

(* What a pass of the block makes of the money: that of the closings, and  *)
(* a file that is not written only when nothing was closed.                *)
SameMoney(m, n) ==
    m.peak = n.peak /\ m.cum = n.cum /\ m.base = n.base /\ m.epoch = n.epoch

LEMMA ReadsIs ==
  ASSUME TypeOK, NEW alarm \in BOOLEAN, NEW bps \in [Wired -> setting.bps], LoopReads(alarm, bps)
  PROVE  /\ \E m : /\ Follows(log', m) /\ SameMoney(mem', m)
                   /\ file' = m \/ (file' = file /\ log' = log /\ SameMoney(mem', mem))
         /\ loop'.at \in {"save", "equity"} /\ reset'.at = reset.at
         /\ up /\ UNCHANGED <<up, eased, rebased>>
<1> DEFINE pnl == DailyPnl(log, mem.epoch)
           trips == EmergencyTrips(HalfHourPnl(log, mem.epoch), alarm)
           after == IF trips THEN Closing(bps) ELSE [log |-> log, mem |-> mem]
           closes == trips /\ \E e \in Wired : eng[e].in
           kills == KillTrips(pnl)
<1>1. /\ log' = after.log
      /\ mem' = IF kills THEN [after.mem EXCEPT !.kill = KillUnits] ELSE after.mem
      /\ file' = IF closes THEN after.mem ELSE file
      /\ loop' = [Idle EXCEPT !.at = IF kills THEN "save" ELSE "equity", !.halted = mem'.kill > 0]
      /\ reset' = [reset EXCEPT !.old = @ \/ (kills /\ reset.at = "write")]
      /\ up /\ UNCHANGED <<up, eased, rebased>>
  BY Zenon DEF LoopReads, MayRun
<1>2. Follows(after.log, after.mem)
  <2>1. Follows(log, mem) /\ Follows(Closing(bps).log, Closing(bps).mem)
    BY FollowsSelf, ClosingIs DEF TypeOK
  <2> QED BY <2>1
<1>3. ~closes => after = [log |-> log, mem |-> mem]
  BY ClosingIs
<1> HIDE DEF after, closes, kills
<1>4. SameMoney(mem', after.mem)
  <2>1. after.mem \in States /\ KillUnits \in 0..1
    BY <1>2 DEF Follows, KillUnits
  <2> QED BY <1>1, <2>1, KillFields DEF SameMoney
<1>5. loop'.at \in {"save", "equity"} /\ reset'.at = reset.at
  BY <1>1 DEF Idle, TypeOK, Resets
<1>6. file' = after.mem \/ (~closes /\ file' = file)
  BY <1>1
<1>7. ~closes => log' = log /\ SameMoney(mem', mem)
  BY <1>1, <1>3, <1>4
<1> QED BY <1>1, <1>2, <1>4, <1>5, <1>6, <1>7

LEMMA QuietStep == TypeOK /\ QuietInv /\ [Next]_vars => QuietInv'
<1> SUFFICES ASSUME TypeOK, QuietInv, [Next]_vars PROVE QuietInv'
  OBVIOUS
<1> USE DEF QuietInv
<1>0. reset \in Resets /\ loop \in Passes /\ NoReset.at = "none" /\ Idle.at = "idle"
  BY DEF TypeOK, NoReset, Idle
<1>1. ASSUME NEW e \in Wired, NEW bp \in setting.bps, Trade(e, bp) PROVE QuietInv'
  BY <1>0, <1>1 DEF Trade, MayRun
<1>2. CASE Tick
  BY <1>2 DEF Tick
<1>3. ASSUME NEW alarm \in BOOLEAN, NEW bps \in [Wired -> setting.bps], LoopReads(alarm, bps)
      PROVE QuietInv'
  <2>1. reset'.at = reset.at /\ up /\ UNCHANGED <<up, eased, rebased>>
    BY <1>3, ReadsIs
  <2>2. setting.race \/ reset.at = "none"
    BY <1>3, Zenon DEF LoopReads, MayRun
  <2>3. setting' = setting
    BY SettingFixed
  <2> QED BY <2>1, <2>2, <2>3
<1>4. CASE LoopSaves \/ LoopEquity \/ LoopRatchet
  <2>1. /\ up /\ loop.at # "idle" /\ UNCHANGED <<reset, up, setting, rebased>>
        /\ eased => eased'
    BY <1>4, Zenon DEF LoopSaves, LoopEquity, LoopRatchet
  <2> QED BY <2>1
<1>5. CASE RatchetReset \/ DailyKillClear \/ SessionReset
  <2>1. /\ up /\ (setting.race \/ loop.at = "idle")
        /\ reset'.at \in {"peak", "save", "read"} /\ UNCHANGED <<loop, up, setting, eased, rebased>>
    BY <1>5 DEF RatchetReset, DailyKillClear, SessionReset, Asked, MayHandle, Locked, NoReset
  <2> QED BY <2>1
<1>6. CASE ResetPeak \/ ReadEquity \/ Rebase \/ ClearHalts
  <2>1. up /\ reset.at # "none" /\ UNCHANGED <<loop, up, setting>>
    BY <1>6 DEF ResetPeak, ReadEquity, Rebase, ClearHalts
  <2>2. reset'.at \in {"save", "rebase", "clear"}
    BY <1>0, <1>6 DEF ResetPeak, ReadEquity, Rebase, ClearHalts, Resets
  <2>3. rebased' => eased'
    BY <1>6, Zenon DEF ResetPeak, ReadEquity, Rebase, ClearHalts
  <2> QED BY <2>1, <2>2, <2>3
<1>7. CASE SaveReads
  <2>1. /\ reset' = [reset EXCEPT !.at = "write", !.save = mem, !.old = FALSE]
        /\ up /\ reset.at = "save" /\ UNCHANGED <<mem, loop, up, setting, eased, rebased>>
    BY <1>7 DEF SaveReads
  <2>2. reset'.at = "write" /\ reset'.save = mem
    BY <1>0, <2>1, SaveFields DEF TypeOK
  <2> QED BY <2>1, <2>2
<1>8. CASE SaveWrites
  BY <1>0, <1>8 DEF SaveWrites
<1>9. ASSUME NEW units \in {1, Day}, Pass(units) PROVE QuietInv'
  BY <1>9 DEF Pass
<1>10. CASE Crash
  BY <1>0, <1>10 DEF Crash
<1>11. CASE Boot
  <2>1. ~up /\ UNCHANGED <<loop, reset, setting, rebased>> /\ (eased => eased') /\ up'
    BY <1>11 DEF Boot
  <2> QED BY <1>0, <2>1
<1>12. CASE UNCHANGED vars
  BY <1>12 DEF vars
<1> QED
  BY <1>1, <1>2, <1>3, <1>4, <1>5, <1>6, <1>7, <1>8, <1>9, <1>10, <1>11, <1>12
  DEF Next, Loop, Handler

LEMMA QuietInit == Init => QuietInv
BY DEF Init, QuietInv, NoReset, Idle

LEMMA EquityStep == TypeOK /\ QuietInv /\ EquityInv /\ [Next]_vars => EquityInv'
<1> SUFFICES ASSUME TypeOK, QuietInv, EquityInv, [Next]_vars, ~setting.race, ~setting'.race,
                    ~rebased, ~rebased'
             PROVE  /\ RightBase(log', file')
                    /\ reset'.at # "rebase" => RightBase(log', mem')
                    /\ reset'.at = "read" => reset'.epoch = Len(log')
                    /\ reset'.at = "rebase" =>
                          mem'.epoch = Len(log') /\ reset'.cum = mem'.cum /\ reset'.peak = mem'.peak
                    /\ up' => Near(mem'.cum, Earned(log'))
                    /\ loop'.at = "ratchet" => Near(loop'.cum, Earned(log'))
  <2> QED BY SettingFixed DEF EquityInv, RightBase, Near, ReplayTolerance, Earned
<1> DEFINE Goal ==
             /\ RightBase(log', file')
             /\ reset'.at # "rebase" => RightBase(log', mem')
             /\ reset'.at = "read" => reset'.epoch = Len(log')
             /\ reset'.at = "rebase" =>
                   mem'.epoch = Len(log') /\ reset'.cum = mem'.cum /\ reset'.peak = mem'.peak
             /\ up' => Near(mem'.cum, Earned(log'))
             /\ loop'.at = "ratchet" => Near(loop'.cum, Earned(log'))
<1> SUFFICES Goal
  OBVIOUS
<1>0. /\ RightBase(log, file)
      /\ reset.at # "rebase" => RightBase(log, mem)
      /\ reset.at # "none" => loop.at = "idle"
      /\ reset.at = "read" => reset.epoch = Len(log)
      /\ reset.at = "rebase" =>
            mem.epoch = Len(log) /\ reset.cum = mem.cum /\ reset.peak = mem.peak
      /\ up => Near(mem.cum, Earned(log))
      /\ loop.at = "ratchet" => Near(loop.cum, Earned(log))
      /\ ~up => reset = NoReset /\ loop = Idle
      /\ reset.at = "write" => reset.save = mem
  BY DEF EquityInv, QuietInv
<1>00. /\ log \in Trades /\ mem \in States /\ file \in States /\ loop \in Passes /\ reset \in Resets
       /\ setting.bps \subseteq Bps
  BY HaltsAssumption DEF TypeOK, AllSettings
<1>1. ASSUME NEW e \in Wired, NEW bp \in setting.bps, Trade(e, bp) PROVE Goal
  <2>1. Follows(log', mem')
    BY <1>00, <1>1, FollowsSelf, FollowsTrade DEF Trade
  <2>2. up /\ reset.at = "none" /\ loop.at = "idle" /\ file' = mem' /\ UNCHANGED <<loop, reset, up>>
    BY <1>1 DEF Trade, MayRun, Locked
  <2>3. RightBase(log', mem') /\ Near(mem'.cum, Earned(log'))
    BY <1>0, <2>1, <2>2, FollowsKeeps
  <2> QED BY <2>2, <2>3
<1>2. CASE Tick
  BY <1>0, <1>2 DEF Tick
<1>3. ASSUME NEW alarm \in BOOLEAN, NEW bps \in [Wired -> setting.bps], LoopReads(alarm, bps)
      PROVE Goal
  <2>1. /\ \E m : /\ Follows(log', m) /\ SameMoney(mem', m)
                  /\ file' = m \/ (file' = file /\ log' = log /\ SameMoney(mem', mem))
        /\ loop'.at \in {"save", "equity"} /\ reset'.at = reset.at
    BY <1>3, ReadsIs
  <2>2. up /\ reset.at = "none"
    BY <1>3, Zenon DEF LoopReads, MayRun
  <2>3. PICK m : /\ Follows(log', m) /\ SameMoney(mem', m)
                 /\ file' = m \/ (file' = file /\ log' = log /\ SameMoney(mem', mem))
    BY <2>1
  <2>4. RightBase(log', m) /\ RightBase(log', file) /\ Near(m.cum, Earned(log'))
    BY <1>0, <2>2, <2>3, FollowsKeeps
  <2>5. RightBase(log', mem') /\ Near(mem'.cum, Earned(log'))
    BY <2>3, <2>4 DEF RightBase, SameMoney
  <2>6. RightBase(log', file')
    BY <2>3, <2>4
  <2> QED BY <2>1, <2>2, <2>5, <2>6
<1>15. CASE LoopSaves
  <2>1. /\ loop' = [loop EXCEPT !.at = "equity"] /\ file' = mem
        /\ loop.at = "save" /\ up /\ UNCHANGED <<log, mem, reset, up>>
    BY <1>15 DEF LoopSaves
  <2>2. loop'.at = "equity" /\ reset.at = "none"
    BY <1>0, <1>00, <2>1 DEF Passes
  <2> QED BY <1>0, <2>1, <2>2
<1>4. CASE LoopEquity
  <2>1. PICK peak :
          /\ loop' = [loop EXCEPT !.at = "ratchet", !.cum = Equity, !.peak = peak]
          /\ file' \in {mem, file} /\ up /\ loop.at = "equity" /\ UNCHANGED <<log, mem, reset, up>>
    BY <1>4, Zenon DEF LoopEquity
  <2>2. RightBase(log, mem) /\ reset.at = "none"
    BY <1>0, <2>1
  <2>3. Near(Equity, Earned(log))
    <3>1. mem.epoch \in 0..Len(log) /\ mem.base \in Int
      BY EpochsPast, StateFields DEF TypeOK
    <3>2. Earned(log) \in Int /\ Running(log)[mem.epoch] \in Int
      BY <1>00, <3>1, EarnedIs
    <3>3. Equity = mem.base + Earned(log) - Running(log)[mem.epoch]
      BY EquityIs
    <3>4. Equity - Earned(log) = mem.base - Running(log)[mem.epoch]
      BY <3>1, <3>2, <3>3
    <3> QED BY <2>2, <3>4 DEF RightBase, Near
  <2>4. loop'.at = "ratchet" /\ loop'.cum = Equity
    BY <1>00, <2>1 DEF Passes
  <2> QED BY <1>0, <2>1, <2>2, <2>3, <2>4
<1>5. CASE LoopRatchet
  <2>1. PICK peak :
          /\ mem' = [mem EXCEPT !.cum = loop.cum, !.peak = peak]
          /\ file' \in {mem', file} /\ up /\ loop.at = "ratchet" /\ loop' = Idle
          /\ UNCHANGED <<log, reset, up>>
    BY <1>5, Zenon DEF LoopRatchet
  <2>2. mem'.cum = loop.cum /\ mem'.base = mem.base /\ mem'.epoch = mem.epoch
    BY <1>00, <2>1 DEF States
  <2>3. RightBase(log, mem) /\ reset.at = "none" /\ Near(loop.cum, Earned(log))
    BY <1>0, <2>1
  <2>4. loop'.at = "idle"
    BY <2>1 DEF Idle
  <2> QED BY <1>0, <2>1, <2>2, <2>3, <2>4 DEF RightBase
<1>6. CASE DailyKillClear \/ ResetPeak \/ ClearHalts
  <2>1. /\ mem' \in {[mem EXCEPT !.peak = reset.cum, !.kill = 0], [mem EXCEPT !.kill = 0]}
        /\ reset' \in {[reset EXCEPT !.at = "save"], [NoReset EXCEPT !.at = "save"]}
        /\ up /\ reset.at \in {"none", "peak", "clear"} /\ UNCHANGED <<log, file, loop, up>>
    BY <1>6 DEF DailyKillClear, ResetPeak, ClearHalts, Asked, MayHandle
  <2>2. mem'.cum = mem.cum /\ mem'.base = mem.base /\ mem'.epoch = mem.epoch /\ reset'.at = "save"
    BY <1>00, <2>1 DEF States, Resets, NoReset
  <2> QED BY <1>0, <2>1, <2>2 DEF RightBase
<1>7. CASE RatchetReset \/ SessionReset
  <2>1. /\ reset' \in {[NoReset EXCEPT !.at = "read", !.epoch = Len(log)],
                       [NoReset EXCEPT !.at = "peak", !.cum = mem.cum]}
        /\ up /\ reset.at = "none" /\ UNCHANGED <<log, mem, file, loop, up>>
    BY <1>7 DEF RatchetReset, SessionReset, Asked, MayHandle
  <2>2. reset'.at = "peak" \/ (reset'.at = "read" /\ reset'.epoch = Len(log))
    BY <2>1 DEF NoReset
  <2> QED BY <1>0, <2>1, <2>2
<1>8. CASE ReadEquity
  <2>1. /\ reset' = [reset EXCEPT !.at = "rebase", !.cum = mem.cum, !.peak = mem.peak]
        /\ mem' = [mem EXCEPT !.epoch = reset.epoch]
        /\ up /\ reset.at = "read" /\ UNCHANGED <<log, file, loop, up>>
    BY <1>8 DEF ReadEquity
  <2>2. /\ reset'.at = "rebase" /\ reset'.cum = mem.cum /\ reset'.peak = mem.peak
        /\ mem'.cum = mem.cum /\ mem'.peak = mem.peak /\ mem'.epoch = reset.epoch
    BY <1>00, <2>1 DEF States, Resets
  <2> QED BY <1>0, <2>1, <2>2
<1>9. CASE Rebase
  <2>1. /\ mem' = [mem EXCEPT !.base = reset.cum, !.cum = reset.cum, !.peak = reset.peak]
        /\ reset' = [reset EXCEPT !.at = "clear"]
        /\ up /\ reset.at = "rebase" /\ UNCHANGED <<log, file, loop, up>>
    BY <1>9 DEF Rebase
  <2>2. mem'.base = reset.cum /\ mem'.cum = reset.cum /\ mem'.epoch = mem.epoch /\ reset'.at = "clear"
    BY <1>00, <2>1 DEF States, Resets
  <2>3. Near(mem'.base, Running(log)[mem'.epoch])
    BY <1>0, <2>1, <2>2 DEF Earned
  <2> QED BY <1>0, <2>1, <2>2, <2>3 DEF RightBase
<1>10. CASE SaveReads \/ SaveWrites
  <2>1. /\ reset' \in {[reset EXCEPT !.at = "write", !.save = mem, !.old = FALSE], NoReset}
        /\ file' = file \/ (reset.at = "write" /\ file' = reset.save)
        /\ up /\ reset.at \in {"save", "write"} /\ UNCHANGED <<log, mem, loop, up>>
    BY <1>10 DEF SaveReads, SaveWrites
  <2>2. reset'.at \in {"none", "write"}
    <3>1. [reset EXCEPT !.at = "write", !.save = mem, !.old = FALSE].at = "write"
      BY <1>00, SaveFields
    <3>2. NoReset.at = "none"
      BY DEF NoReset
    <3> QED BY <2>1, <3>1, <3>2
  <2> QED BY <1>0, <2>1, <2>2
<1>11. ASSUME NEW units \in {1, Day}, Pass(units) PROVE Goal
  <2>1. PICK k : log' = Aged(k)
    BY <1>11, Zenon DEF Pass
  <2>2. Len(log') = Len(log) /\ Running(log') = Running(log)
    BY <1>00, <2>1, AgedIs
  <2>3. PICK x, y : mem' = [mem EXCEPT !.kill = x] /\ file' = [file EXCEPT !.kill = y]
    BY <1>11 DEF Pass
  <2>4. /\ mem'.cum = mem.cum /\ mem'.base = mem.base /\ mem'.epoch = mem.epoch
        /\ file'.base = file.base /\ file'.epoch = file.epoch
    BY <1>00, <2>3 DEF States
  <2>5. UNCHANGED <<loop, reset, up>> /\ reset.at = "none"
    BY <1>11 DEF Pass
  <2> QED BY <1>0, <2>2, <2>4, <2>5 DEF RightBase, Earned
<1>12. CASE Crash
  <2>1. log' = log \/ \E bp \in Bps : log' = Logged(log, bp)
    BY <1>00, <1>12 DEF Crash
  <2>2. log' \in Trades /\ RightBase(log', file)
    <3>1. file.epoch \in 0..Len(log)
      BY EpochsPast
    <3> QED BY <1>0, <1>00, <2>1, <3>1, LoggedIs DEF RightBase
  <2>3. file' \in {file, Empty} /\ mem' = Empty /\ reset' = NoReset /\ loop' = Idle /\ up' = FALSE
    BY <1>12 DEF Crash
  <2>4. RightBase(log', Empty)
    BY <2>2, EmptyIsRight
  <2>5. reset'.at = "none" /\ loop'.at = "idle"
    BY <2>3 DEF NoReset, Idle
  <2> QED BY <2>2, <2>3, <2>4, <2>5
<1>13. CASE Boot
  <2>1. ~up /\ up' = TRUE /\ UNCHANGED <<log, loop, reset>>
        /\ \/ Near(Net(log, 0), file.cum) /\ mem' = file /\ file' = file
           \/ mem' = Rebuilt(file) /\ file' = mem'
    BY <1>13 DEF Boot
  <2>2. Earned(log) \in Int /\ Net(log, 0) = Earned(log) /\ file.cum \in Int /\ HighWater(log) \in Int
    BY <1>00, EarnedIs, StateFields, HighWaterIs
  <2>3. reset'.at = "none" /\ loop'.at = "idle"
    BY <1>0, <2>1 DEF NoReset, Idle
  <2>4. CASE Near(Net(log, 0), file.cum) /\ mem' = file /\ file' = file
    BY <1>0, <2>1, <2>2, <2>3, <2>4, NearIs
  <2>5. CASE mem' = Rebuilt(file) /\ file' = mem'
    <3>1. mem'.cum = Earned(log) /\ mem'.base = file.base /\ mem'.epoch = file.epoch
      BY <1>00, <2>2, <2>5 DEF Rebuilt, States
    <3>2. Near(Earned(log), Earned(log))
      BY <2>2, NearIs
    <3> QED BY <1>0, <2>1, <2>3, <2>5, <3>1, <3>2 DEF RightBase
  <2> QED BY <2>1, <2>4, <2>5
<1>14. CASE UNCHANGED vars
  BY <1>0, <1>14 DEF vars
<1> QED
  BY <1>1, <1>2, <1>3, <1>4, <1>5, <1>6, <1>7, <1>8, <1>9, <1>10, <1>11, <1>12, <1>13, <1>14, <1>15
  DEF Next, Loop, Handler

LEMMA EquityInit == Init => EquityInv
<1> SUFFICES ASSUME Init PROVE EquityInv
  OBVIOUS
<1>1. /\ log = <<>> /\ mem = Empty /\ file = Empty /\ loop = Idle /\ reset = NoReset /\ up = TRUE
  BY DEF Init
<1>2. log \in Trades /\ Len(log) = 0
  BY <1>1 DEF Trades
<1>3. RightBase(log, Empty) /\ Earned(log) = 0 /\ Empty.cum = 0 /\ Near(0, 0)
  BY <1>2, EmptyIsRight, RunningIs, NearIs DEF Earned, Empty
<1>4. loop.at = "idle" /\ reset.at = "none"
  BY <1>1 DEF Idle, NoReset
<1> QED BY <1>1, <1>3, <1>4 DEF EquityInv

(* The equity the protections use is that of all trades, up to the one     *)
(* basis point the replay tolerates, as long as no operator sets another:  *)
(* callback, recount, rebase onto the current equity and replay agree, and *)
(* their errors never add up.                                              *)
THEOREM EquityNeverMiscounted == Spec => []EquityIsAllTrades
<1>1. TypeOK /\ EquityInv => EquityIsAllTrades
  <2> SUFFICES ASSUME TypeOK, EquityInv, ~setting.race, ~rebased, Settled
               PROVE  Near(mem.cum, Net(log, 0))
    BY DEF EquityIsAllTrades
  <2>1. Net(log, 0) = Earned(log)
    BY EarnedIs DEF TypeOK
  <2> QED BY <2>1 DEF EquityInv, Settled
<1> QED BY TypeInit, TypeStep, QuietInit, QuietStep, EquityInit, EquityStep, <1>1, PTL DEF Spec

-----------------------------------------------------------------------------
(* The peak is at least the equity and each total the trades ever had; the *)
(* file misses at most the trade that a crash kept out of it.              *)
Above(l, peak, cum) ==
    peak >= cum /\ \A i \in 0..Len(l) : Running(l)[i] <= peak + ReplayTolerance

PeakInv == ~setting.race /\ ~eased =>
    /\ up => Above(log, mem.peak, mem.cum) /\ Above(log, file.peak, file.cum)
    /\ loop.at = "ratchet" => Above(log, loop.peak, loop.cum)
    /\ ~up => \/ file = Empty
              \/ /\ file.peak >= file.cum
                 /\ \A i \in 0..Len(log) - 1 : Running(log)[i] <= file.peak + ReplayTolerance

LEMMA FollowsAbove ==
  ASSUME TypeOK, NEW l, NEW m, Follows(l, m), Near(mem.cum, Earned(log)),
         Above(log, mem.peak, mem.cum)
  PROVE  Above(l, m.peak, m.cum)
<1>1. m.peak >= m.cum
  BY DEF Above, Follows
<1>2. ASSUME NEW i \in 0..Len(l) PROVE Running(l)[i] <= m.peak + ReplayTolerance
  <2>1. Len(log) \in Nat /\ l \in Trades /\ log \in Trades /\ Len(l) \in Nat
    BY TradeFields DEF TypeOK, Follows
  <2>2. Running(l)[i] \in Int /\ Earned(log) \in Int
    BY <2>1, EarnedIs
  <2>3. m.peak \in Int /\ mem.peak \in Int /\ mem.cum \in Int /\ m.peak >= mem.peak
    BY StateFields DEF TypeOK, Follows
  <2>4. CASE i \in 0..Len(log)
    <3>1. Running(l)[i] <= mem.peak + ReplayTolerance
      BY <2>4 DEF Above, Follows
    <3> QED BY <2>2, <2>3, <3>1 DEF ReplayTolerance
  <2>5. CASE i \notin 0..Len(log)
    <3>1. i \in Len(log) + 1..Len(l)
      BY <2>1, <2>5
    <3>2. Running(l)[i] - Earned(log) + mem.cum <= m.peak
      BY <3>1 DEF Follows
    <3>3. -1 <= mem.cum - Earned(log)
      BY <2>2, <2>3, NearIs
    <3> QED BY <2>2, <2>3, <3>2, <3>3 DEF ReplayTolerance
  <2> QED BY <2>4, <2>5
<1> QED BY <1>1, <1>2 DEF Above

(* A total that is near the equity is not far above the peak.              *)
LEMMA RecountAbove ==
  ASSUME NEW l \in Trades, NEW peak \in Int, NEW cum \in Int,
         peak >= cum, Near(cum, Earned(l)),
         \A i \in 0..Len(l) - 1 : Running(l)[i] <= peak + ReplayTolerance
  PROVE  Above(l, peak, cum)
<1>1. Len(l) \in Nat /\ Earned(l) \in Int /\ Earned(l) = Running(l)[Len(l)]
  BY TradeFields, EarnedIs
<1>2. Earned(l) <= peak + ReplayTolerance
  BY <1>1, NearIs DEF ReplayTolerance
<1>3. ASSUME NEW i \in 0..Len(l) PROVE Running(l)[i] <= peak + ReplayTolerance
  <2>1. i = Len(l) \/ i \in 0..Len(l) - 1
    BY <1>1
  <2> QED BY <1>1, <1>2, <2>1
<1> QED BY <1>3 DEF Above

LEMMA PeakStep == TypeOK /\ QuietInv /\ EquityInv /\ PeakInv /\ [Next]_vars => PeakInv'
<1> DEFINE Goal ==
             /\ up' => Above(log', mem'.peak, mem'.cum) /\ Above(log', file'.peak, file'.cum)
             /\ loop'.at = "ratchet" => Above(log', loop'.peak, loop'.cum)
             /\ ~up' => \/ file' = Empty
                        \/ /\ file'.peak >= file'.cum
                           /\ \A i \in 0..Len(log') - 1 :
                                 Running(log')[i] <= file'.peak + ReplayTolerance
<1> SUFFICES ASSUME TypeOK, QuietInv, EquityInv, PeakInv, [Next]_vars, ~setting.race, ~eased'
             PROVE  Goal
  BY SettingFixed DEF PeakInv, Above, ReplayTolerance
<1>0. /\ log \in Trades /\ mem \in States /\ file \in States /\ loop \in Passes /\ reset \in Resets
      /\ setting.bps \subseteq Bps /\ eased \in BOOLEAN
      /\ reset.at # "none" => loop.at = "idle"
      /\ reset.at = "write" => reset.save = mem
      /\ ~up => loop = Idle
  BY HaltsAssumption DEF TypeOK, AllSettings, QuietInv
<1>b. ~eased => ~rebased
  BY DEF QuietInv
<1>c. ASSUME ~eased
      PROVE  /\ reset.at = "rebase" => reset.cum = mem.cum /\ reset.peak = mem.peak
             /\ up => Near(mem.cum, Earned(log))
             /\ loop.at = "ratchet" => Near(loop.cum, Earned(log))
  BY <1>b, <1>c DEF EquityInv
<1>a. ASSUME ~eased
      PROVE  /\ up => Above(log, mem.peak, mem.cum) /\ Above(log, file.peak, file.cum)
             /\ loop.at = "ratchet" => Above(log, loop.peak, loop.cum)
             /\ ~up => \/ file = Empty
                       \/ /\ file.peak >= file.cum
                          /\ \A i \in 0..Len(log) - 1 : Running(log)[i] <= file.peak + ReplayTolerance
  BY <1>a DEF PeakInv
<1>1. ASSUME NEW e \in Wired, NEW bp \in setting.bps, Trade(e, bp) PROVE Goal
  <2>1. Follows(log', mem')
    BY <1>0, <1>1, FollowsSelf, FollowsTrade DEF Trade
  <2>2. up /\ loop.at = "idle" /\ file' = mem' /\ UNCHANGED <<loop, up, eased>>
    BY <1>1 DEF Trade, MayRun, Locked
  <2>3. Above(log', mem'.peak, mem'.cum)
    BY <1>0, <1>a, <1>c, <2>1, <2>2, FollowsAbove
  <2> QED BY <2>2, <2>3
<1>2. CASE Tick
  <2>1. UNCHANGED <<log, mem, file, loop, up, eased>>
    BY <1>2 DEF Tick
  <2> QED BY <1>a, <2>1
<1>3. ASSUME NEW alarm \in BOOLEAN, NEW bps \in [Wired -> setting.bps], LoopReads(alarm, bps)
      PROVE Goal
  <2>1. up /\ loop'.at \in {"save", "equity"} /\ UNCHANGED <<up, eased>>
    BY <1>3, ReadsIs
  <2>2. PICK m : /\ Follows(log', m) /\ SameMoney(mem', m)
                 /\ file' = m \/ (file' = file /\ log' = log /\ SameMoney(mem', mem))
    BY <1>3, ReadsIs
  <2>3. Above(log', m.peak, m.cum)
    BY <1>0, <1>a, <1>c, <2>1, <2>2, FollowsAbove
  <2>4. Above(log', mem'.peak, mem'.cum)
    BY <2>2, <2>3 DEF SameMoney
  <2>5. Above(log', file'.peak, file'.cum)
    BY <1>a, <2>1, <2>2, <2>3
  <2> QED BY <2>1, <2>4, <2>5
<1>14. CASE LoopSaves
  <2>1. /\ loop' = [loop EXCEPT !.at = "equity"] /\ file' = mem /\ up
        /\ UNCHANGED <<log, mem, up, eased>>
    BY <1>14 DEF LoopSaves
  <2>2. loop'.at = "equity"
    BY <1>0, <2>1 DEF Passes
  <2> QED BY <1>a, <2>1, <2>2
<1>4. CASE LoopEquity
  <2> DEFINE peak == Larger(mem.peak, Equity)
             clamp == peak - Equity > MaxToleratedDd
  <2>1. /\ loop' = [loop EXCEPT !.at = "ratchet", !.cum = Equity,
                               !.peak = IF clamp THEN Equity ELSE peak]
        /\ file' = IF clamp THEN mem ELSE file
        /\ eased' = (eased \/ clamp) /\ up /\ UNCHANGED <<log, mem, up>>
    BY <1>4, Zenon DEF LoopEquity
  <2> HIDE DEF clamp
  <2>2. ~clamp /\ ~eased /\ file' = file
    BY <1>0, <2>1
  <2>3. loop'.cum = Equity /\ loop'.peak = peak
    BY <1>0, <2>1, <2>2 DEF Passes
  <2>4. Above(log, peak, Equity)
    <3>1. Equity \in Int /\ mem.peak \in Int
      BY <1>0, EquityIs, StateFields
    <3>2. peak \in Int /\ peak >= Equity /\ peak >= mem.peak
      BY <3>1 DEF Larger
    <3> HIDE DEF peak
    <3>3. \A i \in 0..Len(log) : Running(log)[i] \in Int /\ Running(log)[i] <= mem.peak + ReplayTolerance
      BY <1>0, <1>a, <2>1, <2>2, EarnedIs DEF Above
    <3> QED BY <3>1, <3>2, <3>3 DEF Above, ReplayTolerance
  <2> QED BY <1>a, <2>1, <2>2, <2>3, <2>4
<1>5. CASE LoopRatchet
  <2>1. PICK peak :
          /\ mem' = [mem EXCEPT !.cum = loop.cum, !.peak = peak]
          /\ file' = IF peak < loop.peak THEN mem' ELSE file
          /\ eased' = (eased \/ peak < loop.peak)
          /\ up /\ loop.at = "ratchet" /\ loop' = Idle
          /\ UNCHANGED <<log, reset, up>>
    BY <1>5, Zenon DEF LoopRatchet
  <2>2. ~eased /\ ~(peak < loop.peak) /\ file' = file
    BY <1>0, <2>1
  <2>3. mem'.cum = loop.cum /\ mem'.peak = peak
    BY <1>0, <2>1 DEF States
  <2>4. peak \in Int /\ loop.peak \in Int /\ loop.cum \in Int
    <3>1. mem' \in States
      BY TypeStep DEF TypeOK
    <3>2. mem'.peak \in Int
      BY <3>1, StateFields
    <3> QED BY <1>0, <2>3, <3>2 DEF Passes
  <2>5. Above(log, peak, loop.cum)
    <3>1. Above(log, loop.peak, loop.cum)
      BY <1>a, <2>1, <2>2
    <3>2. \A i \in 0..Len(log) : Running(log)[i] \in Int
      BY <1>0, EarnedIs
    <3> QED BY <2>2, <2>4, <3>1, <3>2 DEF Above, ReplayTolerance
  <2>6. loop'.at = "idle"
    BY <2>1 DEF Idle
  <2> QED BY <1>a, <2>1, <2>2, <2>3, <2>5, <2>6
<1>6. CASE ResetPeak
  BY <1>6 DEF ResetPeak
<1>7. CASE DailyKillClear \/ ClearHalts
  <2>1. /\ mem' = [mem EXCEPT !.kill = 0] /\ up
        /\ UNCHANGED <<log, file, loop, up, eased>>
    BY <1>7 DEF DailyKillClear, ClearHalts, Asked, MayHandle
  <2>2. mem'.cum = mem.cum /\ mem'.peak = mem.peak
    BY <1>0, <2>1 DEF States
  <2> QED BY <1>a, <2>1, <2>2
<1>8. CASE RatchetReset \/ SessionReset \/ SaveReads \/ SaveWrites
  <2>1. /\ UNCHANGED <<log, mem, loop, up, eased>>
        /\ file' = file \/ (up /\ reset.at = "write" /\ file' = reset.save)
    BY <1>8 DEF RatchetReset, SessionReset, SaveReads, SaveWrites
  <2> QED BY <1>0, <1>a, <2>1
<1>9. CASE ReadEquity \/ Rebase
  <2>0. UNCHANGED eased
    BY <1>0, <1>9 DEF ReadEquity, Rebase
  <2>1. /\ mem'.cum = mem.cum /\ mem'.peak = mem.peak
        /\ up /\ UNCHANGED <<log, file, loop, up, eased>>
    <3>1. CASE ReadEquity
      <4>1. mem' = [mem EXCEPT !.epoch = reset.epoch] /\ up /\ UNCHANGED <<log, file, loop, up>>
        BY <3>1 DEF ReadEquity
      <4> QED BY <1>0, <2>0, <4>1 DEF States
    <3>2. CASE Rebase
      <4>1. /\ mem' = [mem EXCEPT !.base = reset.cum, !.cum = reset.cum, !.peak = reset.peak]
            /\ up /\ reset.at = "rebase" /\ UNCHANGED <<log, file, loop, up, eased>>
        BY <3>2 DEF Rebase
      <4>2. mem'.cum = reset.cum /\ mem'.peak = reset.peak
        BY <1>0, <4>1 DEF States
      <4> QED BY <1>0, <1>c, <4>1, <4>2
    <3> QED BY <1>9, <3>1, <3>2
  <2> QED BY <1>a, <2>1
<1>10. ASSUME NEW units \in {1, Day}, Pass(units) PROVE Goal
  <2>1. PICK k : log' = Aged(k)
    BY <1>10, Zenon DEF Pass
  <2>2. Len(log') = Len(log) /\ Running(log') = Running(log)
    BY <1>0, <2>1, AgedIs
  <2>3. /\ mem' = [mem EXCEPT !.kill = Less(mem.kill, units)]
        /\ file' = [file EXCEPT !.kill = Less(file.kill, units)]
        /\ UNCHANGED <<loop, up, eased>>
    BY <1>10 DEF Pass
  <2>4. /\ mem'.cum = mem.cum /\ mem'.peak = mem.peak
        /\ file'.cum = file.cum /\ file'.peak = file.peak
    BY <1>0, <2>3 DEF States
  <2>5. file = Empty => file' = Empty
    <3>1. Less(0, units) = 0
      BY DEF Less, Larger, Day
    <3>2. Empty.kill = 0 /\ [Empty EXCEPT !.kill = 0] = Empty
      BY DEF Empty
    <3> QED BY <2>3, <3>1, <3>2
  <2> QED BY <1>a, <2>2, <2>3, <2>4, <2>5 DEF Above
<1>11. CASE Crash
  <2>1. log' = log \/ \E bp \in Bps : log' = Logged(log, bp)
    BY <1>0, <1>11 DEF Crash
  <2>2. file' \in {file, Empty} /\ loop' = Idle /\ up /\ up' = FALSE /\ eased' = eased
    BY <1>11 DEF Crash
  <2>3. loop'.at = "idle"
    BY <2>2 DEF Idle
  <2>4. file.peak >= file.cum /\ \A i \in 0..Len(log) : Running(log)[i] <= file.peak + ReplayTolerance
    BY <1>a, <2>2 DEF Above
  <2>5. \A i \in 0..Len(log') - 1 : i \in 0..Len(log) /\ Running(log')[i] = Running(log)[i]
    <3>1. Len(log) \in Nat
      BY <1>0, TradeFields
    <3>2. CASE log' = log
      BY <3>1, <3>2
    <3>3. ASSUME NEW bp \in Bps, log' = Logged(log, bp)
          PROVE  \A i \in 0..Len(log') - 1 : i \in 0..Len(log) /\ Running(log')[i] = Running(log)[i]
      <4>1. /\ Len(Logged(log, bp)) = Len(log) + 1
            /\ \A i \in 0..Len(log) : Running(Logged(log, bp))[i] = Running(log)[i]
        BY <1>0, LoggedIs
      <4> QED BY <3>1, <3>3, <4>1
    <3> QED BY <2>1, <3>2, <3>3
  <2> QED BY <2>2, <2>3, <2>4, <2>5
<1>12. CASE Boot
  <2>1. /\ ~up /\ up' = TRUE /\ UNCHANGED <<log, loop>>
        /\ \/ /\ Near(Net(log, 0), file.cum) /\ mem' = file /\ file' = file
              /\ eased' = (eased \/ (file = Empty /\ HighWater(log) > ReplayTolerance))
           \/ mem' = Rebuilt(file) /\ file' = mem' /\ eased' = eased
    BY <1>12 DEF Boot
  <2>2. /\ Earned(log) \in Int /\ Net(log, 0) = Earned(log) /\ file.cum \in Int /\ file.peak \in Int
        /\ HighWater(log) \in Int
        /\ \A i \in 0..Len(log) : Running(log)[i] \in Int /\ Running(log)[i] <= HighWater(log)
    BY <1>0, EarnedIs, StateFields, HighWaterIs
  <2>3. loop'.at = "idle" /\ loop.at = "idle"
    BY <1>0, <2>1 DEF Idle
  <2>4. CASE /\ Near(Net(log, 0), file.cum) /\ mem' = file /\ file' = file
             /\ eased' = (eased \/ (file = Empty /\ HighWater(log) > ReplayTolerance))
    <3>1. ~eased /\ (file = Empty => ~(HighWater(log) > ReplayTolerance))
      BY <1>0, <2>4
    <3>2. CASE file = Empty
      <4>1. file.peak = 0 /\ file.cum = 0
        BY <3>2 DEF Empty
      <4>2. \A i \in 0..Len(log) : Running(log)[i] <= 0 + ReplayTolerance
        BY <2>2, <3>1, <3>2 DEF ReplayTolerance
      <4>3. Above(log, file.peak, file.cum)
        BY <4>1, <4>2 DEF Above
      <4> QED BY <2>1, <2>3, <2>4, <4>3
    <3>3. CASE file # Empty
      <4>1. /\ file.peak >= file.cum
            /\ \A i \in 0..Len(log) - 1 : Running(log)[i] <= file.peak + ReplayTolerance
        BY <1>a, <2>1, <3>1, <3>3
      <4>2. Near(file.cum, Earned(log))
        BY <2>2, <2>4, NearIs
      <4>3. Above(log, file.peak, file.cum)
        BY <1>0, <2>2, <4>1, <4>2, RecountAbove
      <4> QED BY <2>1, <2>3, <2>4, <4>3
    <3> QED BY <3>2, <3>3
  <2>5. CASE mem' = Rebuilt(file) /\ file' = mem' /\ eased' = eased
    <3>1. mem'.cum = Earned(log) /\ mem'.peak = Larger(file.peak, HighWater(log))
      BY <1>0, <2>2, <2>5 DEF Rebuilt, States
    <3>2. mem'.peak \in Int /\ mem'.peak >= HighWater(log)
      BY <2>2, <3>1 DEF Larger
    <3>3. Len(log) \in 0..Len(log) /\ Earned(log) = Running(log)[Len(log)]
      BY <1>0, TradeFields DEF Earned
    <3>4. mem'.peak >= mem'.cum
      BY <2>2, <3>1, <3>2, <3>3
    <3>5. \A i \in 0..Len(log) : Running(log)[i] <= mem'.peak + ReplayTolerance
      BY <2>2, <3>2 DEF ReplayTolerance
    <3> QED BY <2>1, <2>3, <2>5, <3>4, <3>5 DEF Above
  <2> QED BY <2>1, <2>4, <2>5
<1>13. CASE UNCHANGED vars
  BY <1>a, <1>13 DEF vars
<1> QED
  BY <1>1, <1>2, <1>3, <1>4, <1>5, <1>6, <1>7, <1>8, <1>9, <1>10, <1>11, <1>12, <1>13, <1>14
  DEF Next, Loop, Handler

LEMMA PeakInit == Init => PeakInv
<1> SUFFICES ASSUME Init PROVE PeakInv
  OBVIOUS
<1>1. mem = Empty /\ file = Empty /\ loop = Idle /\ up = TRUE /\ log = <<>>
  BY DEF Init
<1>2. log \in Trades /\ Len(log) = 0
  BY <1>1 DEF Trades
<1>3. Running(log)[0] = 0 /\ Empty.peak = 0 /\ Empty.cum = 0 /\ loop.at = "idle"
  BY <1>1, <1>2, RunningIs DEF Empty, Idle
<1>4. Above(log, Empty.peak, Empty.cum)
  BY <1>2, <1>3 DEF Above, ReplayTolerance
<1> QED BY <1>1, <1>3, <1>4 DEF PeakInv

(* The high-water mark survives passes, closings, crashes before the file  *)
(* is written, stale, torn and missing files, unless it was lowered on     *)
(* purpose, or the file is gone and the trades add up to nothing.          *)
THEOREM HighWaterNeverLost == Spec => []PeakKept
<1>1. TypeOK /\ PeakInv => PeakKept
  <2> SUFFICES ASSUME TypeOK, PeakInv, ~setting.race, ~eased, up
               PROVE  mem.peak + ReplayTolerance >= HighWater(log)
    BY DEF PeakKept
  <2>1. \A i \in 0..Len(log) : Running(log)[i] <= mem.peak + ReplayTolerance
    BY DEF PeakInv, Above
  <2>2. HighWater(log) \in Int /\ \E i \in 0..Len(log) : Running(log)[i] = HighWater(log)
    BY HighWaterIs DEF TypeOK
  <2>3. mem.peak \in Int
    BY StateFields DEF TypeOK
  <2> QED BY <2>1, <2>2, <2>3 DEF ReplayTolerance
<1> QED
  BY TypeInit, TypeStep, QuietInit, QuietStep, EquityInit, EquityStep, PeakInit, PeakStep, <1>1,
     PTL DEF Spec

-----------------------------------------------------------------------------
(* The kill is at least as long as it is owed in memory, in the file once  *)
(* it was saved, and in what a request is about to write unless the kill   *)
(* tripped after the request had read.                                     *)
KillInv == setting.crash # "torn" =>
    /\ up => mem.kill >= owed
    /\ saved => file.kill >= owed
    /\ ~up => saved \/ owed = 0
    /\ reset.at = "write" /\ ~reset.old => reset.save.kill >= owed

LEMMA KillInit == Init => KillInv
BY DEF Init, KillInv, Empty, NoReset

LEMMA KillStep == TypeOK /\ KillInv /\ [Next]_vars => KillInv'
<1> SUFFICES ASSUME TypeOK, KillInv, [Next]_vars PROVE KillInv'
  OBVIOUS
<1>0. mem \in States /\ file \in States /\ log \in Trades /\ reset \in Resets
      /\ mem.kill \in 0..1 /\ file.kill \in 0..1 /\ owed \in 0..1
      /\ reset.save.kill \in 0..1 /\ reset.old \in BOOLEAN /\ saved \in BOOLEAN
  <2>1. reset.save \in States /\ reset.old \in BOOLEAN
    BY ResetFields DEF TypeOK
  <2> QED BY <2>1, StateFields DEF TypeOK, KillUnits
<1>1. ASSUME NEW e \in Wired, NEW bp \in setting.bps, Trade(e, bp) PROVE KillInv'
  <2>1. mem' = Credited(mem, bp) /\ file' = mem' /\ up /\ UNCHANGED <<reset, up, owed, saved, setting>>
    BY <1>1 DEF Trade, MayRun
  <2>2. mem'.kill = mem.kill
    BY <1>0, <2>1 DEF Credited, States
  <2> QED BY <2>1, <2>2 DEF KillInv
<1>2. CASE Tick
  BY <1>2 DEF Tick, KillInv
<1>3. ASSUME NEW alarm \in BOOLEAN, NEW bps \in [Wired -> setting.bps], LoopReads(alarm, bps)
      PROVE KillInv'
  <2> DEFINE pnl == DailyPnl(log, mem.epoch)
             trips == EmergencyTrips(HalfHourPnl(log, mem.epoch), alarm)
             after == IF trips THEN Closing(bps) ELSE [log |-> log, mem |-> mem]
             closes == trips /\ \E e \in Wired : eng[e].in
             kills == KillTrips(pnl)
  <2>1. after.mem \in States /\ after.mem.kill = mem.kill
    <3>1. Follows(Closing(bps).log, Closing(bps).mem)
      BY ClosingIs
    <3> QED BY <1>0, <3>1 DEF Follows
  <2>2. /\ up /\ UNCHANGED <<up, setting>>
        /\ mem' = IF kills THEN [after.mem EXCEPT !.kill = KillUnits] ELSE after.mem
        /\ file' = IF closes THEN after.mem ELSE file
        /\ reset' = [reset EXCEPT !.old = @ \/ (kills /\ reset.at = "write")]
        /\ owed' = IF kills THEN KillUnits ELSE owed
        /\ saved' = (saved /\ ~kills)
    BY <1>3, Zenon DEF LoopReads, MayRun
  <2> HIDE DEF after, closes, kills
  <2>3. /\ reset'.at = reset.at /\ reset'.save = reset.save
        /\ reset'.old = (reset.old \/ (kills /\ reset.at = "write"))
    BY <1>0, <2>2 DEF Resets
  <2>4. CASE kills
    <3>1. mem'.kill = 1 /\ owed' = 1 /\ ~saved'
      BY <2>1, <2>2, <2>4 DEF KillUnits, States
    <3>2. reset'.at = "write" => reset'.old
      BY <2>3, <2>4
    <3> QED BY <2>2, <3>1, <3>2 DEF KillInv
  <2>5. CASE ~kills
    <3>1. mem' = after.mem /\ file' \in {after.mem, file} /\ owed' = owed /\ saved' = saved
          /\ reset'.old = reset.old
      BY <1>0, <2>2, <2>3, <2>5
    <3> QED BY <2>1, <2>2, <2>3, <3>1 DEF KillInv
  <2> QED BY <2>4, <2>5
<1>4. CASE LoopSaves \/ LoopEquity
  <2>1. /\ file' \in {mem, file} /\ (file' = mem \/ saved' = saved) /\ up
        /\ UNCHANGED <<mem, reset, up, owed, setting>>
    BY <1>4, Zenon DEF LoopSaves, LoopEquity
  <2> QED BY <2>1 DEF KillInv
<1>5. CASE LoopRatchet
  <2>1. PICK cum, peak : mem' = [mem EXCEPT !.cum = cum, !.peak = peak] /\ file' \in {mem', file}
    BY <1>5, Zenon DEF LoopRatchet
  <2>2. up /\ UNCHANGED <<reset, owed, saved, up, setting>>
    BY <1>5 DEF LoopRatchet
  <2>3. mem'.kill = mem.kill
    BY <1>0, <2>1 DEF States
  <2> QED BY <2>1, <2>2, <2>3 DEF KillInv
<1>6. CASE ResetPeak \/ DailyKillClear \/ ClearHalts
  <2>1. mem'.kill = 0
    BY <1>0, <1>6 DEF ResetPeak, DailyKillClear, ClearHalts, States
  <2>2. owed' = 0 /\ up /\ UNCHANGED <<file, saved, up, setting>>
    BY <1>6 DEF ResetPeak, DailyKillClear, ClearHalts, Asked, MayHandle
  <2>3. reset'.at = "save"
    BY <1>0, <1>6 DEF ResetPeak, DailyKillClear, ClearHalts, NoReset, Resets
  <2> QED BY <1>0, <2>1, <2>2, <2>3 DEF KillInv
<1>7. CASE RatchetReset \/ SessionReset \/ ReadEquity \/ Rebase
  <2>1. mem'.kill = mem.kill
    BY <1>0, <1>7 DEF RatchetReset, SessionReset, ReadEquity, Rebase, States
  <2>2. UNCHANGED <<file, owed, saved, up, setting>>
    BY <1>7 DEF RatchetReset, SessionReset, ReadEquity, Rebase
  <2>3. reset'.at \in {"peak", "read", "rebase", "clear"}
    BY <1>0, <1>7 DEF RatchetReset, SessionReset, ReadEquity, Rebase, NoReset, Resets
  <2> QED BY <2>1, <2>2, <2>3 DEF KillInv
<1>8. CASE SaveReads
  <2>1. /\ reset' = [reset EXCEPT !.at = "write", !.save = mem, !.old = FALSE]
        /\ up /\ UNCHANGED <<mem, file, owed, saved, up, setting>>
    BY <1>8 DEF SaveReads
  <2>2. reset'.save = mem
    BY <1>0, <2>1, SaveFields
  <2> QED BY <2>1, <2>2 DEF KillInv
<1>9. CASE SaveWrites
  <2>1. /\ file' = reset.save /\ saved' = (saved /\ ~reset.old) /\ reset' = NoReset
        /\ reset.at = "write" /\ up /\ UNCHANGED <<mem, owed, up, setting>>
    BY <1>9 DEF SaveWrites
  <2>2. reset'.at = "none"
    BY <2>1 DEF NoReset
  <2> QED BY <2>1, <2>2 DEF KillInv
<1>10. ASSUME NEW units \in {1, Day}, Pass(units) PROVE KillInv'
  <2>1. \A m, n \in Nat : m >= n => Less(m, units) >= Less(n, units)
    BY DEF Less, Larger, Day
  <2>2. /\ mem' = [mem EXCEPT !.kill = Less(mem.kill, units)]
        /\ file' = [file EXCEPT !.kill = Less(file.kill, units)]
        /\ owed' = Less(owed, units) /\ reset.at = "none" /\ UNCHANGED <<reset, saved, up, setting>>
    BY <1>10 DEF Pass
  <2>3. mem'.kill = Less(mem.kill, units) /\ file'.kill = Less(file.kill, units)
    BY <1>0, <2>2 DEF States
  <2>4. Less(0, units) = 0
    BY DEF Less, Larger, Day
  <2> QED BY <1>0, <2>1, <2>2, <2>3, <2>4 DEF KillInv
<1>11. CASE Crash
  <2>1. /\ file' \in {file} \cup IF setting.crash = "torn" THEN {Empty} ELSE {}
        /\ up' = FALSE /\ reset' = NoReset /\ owed' = IF saved THEN owed ELSE 0
        /\ UNCHANGED <<saved, setting>>
    BY <1>11 DEF Crash
  <2>2. reset'.at = "none"
    BY <2>1 DEF NoReset
  <2> QED BY <1>0, <2>1, <2>2 DEF KillInv
<1>12. CASE Boot
  <2>1. /\ ~up /\ up' = TRUE /\ UNCHANGED <<reset, owed, saved, setting>>
        /\ mem' = file' /\ file' \in {file, Rebuilt(file)}
    BY <1>12 DEF Boot
  <2>2. Rebuilt(file).kill = file.kill
    BY <1>0 DEF Rebuilt, States
  <2>3. setting.crash # "torn" => file.kill >= owed
    BY <1>0, <2>1 DEF KillInv
  <2> QED BY <1>0, <2>1, <2>2, <2>3 DEF KillInv
<1>13. CASE UNCHANGED vars
  BY <1>13 DEF vars, KillInv
<1> QED
  BY <1>1, <1>2, <1>3, <1>4, <1>5, <1>6, <1>7, <1>8, <1>9, <1>10, <1>11, <1>12, <1>13
  DEF Next, Loop, Handler

(* A daily kill that tripped holds for its two hours, through requests of  *)
(* the HTTP thread and passes of the block in any order, unless an         *)
(* operator clears it; and through any crashes and restarts, from its save *)
(* on until an older save of a request replaces that                       *)
(* (main.cpp: g_daily_kill_until_ms).                                      *)
THEOREM KillsOutliveTheProcess == Spec => []KillHolds
<1>1. TypeOK /\ KillInv => KillHolds
  <2> SUFFICES ASSUME TypeOK, KillInv, setting.crash # "torn"
               PROVE  (IF up THEN mem ELSE file).kill >= owed
    BY DEF KillHolds
  <2>1. file.kill \in 0..1
    BY StateFields DEF TypeOK
  <2> QED BY <2>1 DEF KillInv
<1> QED
  BY TypeInit, TypeStep, KillInit, KillStep, <1>1, PTL DEF Spec

-----------------------------------------------------------------------------
(* Once a pass has seen the emergency the gates are shut, and only the end *)
(* of a cooldown outside it, or a restart, opens one.                      *)
ShutInv == seen /\ emergency > 0 => \A e \in Wired : eng[e].gate = FALSE

LEMMA ShutInit == Init => ShutInv
BY DEF Init, ShutInv

LEMMA ShutStep == TypeOK /\ ShutInv /\ [Next]_vars => ShutInv'
<1> SUFFICES ASSUME TypeOK, ShutInv, [Next]_vars PROVE ShutInv'
  OBVIOUS
<1>0. eng \in [Wired -> Engines] /\ emergency \in 0..2 /\ (emergency > 0 => emergency # 0)
  BY DEF TypeOK, EmergencyUnits
<1>1. ASSUME NEW e \in Wired, NEW bp \in setting.bps, Trade(e, bp) PROVE ShutInv'
  BY <1>0, <1>1 DEF Trade, ShutInv, Engines
<1>2. CASE Tick
  <2>1. PICK signals \in SUBSET Wired : eng' = AfterTick(signals)
    BY <1>2 DEF Tick
  <2>2. UNCHANGED <<seen, emergency>>
    BY <1>2 DEF Tick
  <2>3. ASSUME NEW e \in Wired, emergency > 0, eng[e].gate = FALSE PROVE eng'[e].gate = FALSE
    <3>1. Blocked(Cooled(eng[e])).gate = FALSE
      BY <1>0, <2>3, SettledEngine
    <3> QED BY <2>1, <3>1, AfterTickIs
  <2> QED BY <2>2, <2>3 DEF ShutInv
<1>3. ASSUME NEW alarm \in BOOLEAN, NEW bps \in [Wired -> setting.bps], LoopReads(alarm, bps)
      PROVE ShutInv'
  <2> DEFINE trips == EmergencyTrips(HalfHourPnl(log, mem.epoch), alarm)
  <2>1. /\ emergency' = IF trips THEN EmergencyUnits ELSE emergency
        /\ eng' = IF trips THEN Flattened ELSE IF emergency > 0 THEN Shut ELSE eng
        /\ seen' = (emergency > 0)
    BY <1>3, Zenon DEF LoopReads
  <2>2. trips => emergency = 0
    BY DEF EmergencyTrips
  <2>3. \A e \in Wired : Shut[e].gate = FALSE
    BY <1>0, EngineFields DEF Shut
  <2> HIDE DEF trips
  <2>4. CASE trips
    <3>1. emergency = 0
      BY <2>2, <2>4
    <3>2. ~seen'
      <4>1. ~(0 > 0)
        OBVIOUS
      <4> QED BY <2>1, <3>1, <4>1, Zenon
    <3> QED BY <3>2 DEF ShutInv
  <2>5. CASE ~trips
    BY <2>1, <2>3, <2>5 DEF ShutInv
  <2> QED BY <2>4, <2>5
<1>4. CASE LoopSaves \/ LoopEquity \/ LoopRatchet
  BY <1>4 DEF LoopSaves, LoopEquity, LoopRatchet, ShutInv
<1>5. CASE \/ RatchetReset \/ ResetPeak \/ DailyKillClear \/ SessionReset \/ ReadEquity \/ Rebase
           \/ SaveReads \/ SaveWrites
  BY <1>5 DEF RatchetReset, ResetPeak, DailyKillClear, SessionReset, ReadEquity, Rebase, SaveReads,
              SaveWrites, ShutInv
<1>6. CASE ClearHalts
  BY <1>6 DEF ClearHalts, ShutInv
<1>7. ASSUME NEW units \in {1, Day}, Pass(units) PROVE ShutInv'
  <2>1. emergency' > 0 => emergency > 0
    BY <1>0, <1>7 DEF Pass, Less, Larger, Day
  <2>2. seen' => seen
    BY <1>7 DEF Pass
  <2>3. PICK over \in SUBSET Wired :
           eng' = [e \in Wired |-> IF e \in over THEN Warmer(eng[e]) ELSE eng[e]]
    BY <1>7 DEF Pass
  <2> QED BY <1>0, <2>1, <2>2, <2>3 DEF ShutInv, Engines, Warmer
<1>8. CASE Crash
  BY <1>8 DEF Crash, ShutInv
<1>9. CASE Boot
  BY <1>9 DEF Boot, ShutInv
<1>10. CASE UNCHANGED vars
  BY <1>10 DEF vars, ShutInv
<1> QED
  BY <1>1, <1>2, <1>3, <1>4, <1>5, <1>6, <1>7, <1>8, <1>9, <1>10 DEF Next, Loop, Handler

(* After its first pass in an emergency no gate opens before it is over,   *)
(* whichever cooldowns end and whatever the engines trade meanwhile.       *)
THEOREM EmergenciesShutGates == Spec => []EmergencyShuts
<1>1. ShutInv => EmergencyShuts
  BY DEF ShutInv, EmergencyShuts
<1> QED
  BY TypeInit, TypeStep, ShutInit, ShutStep, <1>1, PTL DEF Spec

-----------------------------------------------------------------------------
(* Whatever touches the equity, the peak or the lock marks the pass as     *)
(* due, a session reset only at its last step, and a pass ends by setting  *)
(* all three together.                                                     *)
RatchetInv ==
    /\ ~up => due
    /\ ~Locked /\ ~due /\ reset.at # "clear" => RatchetRight

LEMMA RatchetInit == Init => RatchetInv
BY DEF Init, RatchetInv

(* The lock follows from the peak and the equity it is compared with.      *)
LEMMA RelockedIsRight ==
  ASSUME NEW r \in [locked : BOOLEAN, for : Nat], NEW peak, NEW cum
  PROVE  /\ Relocked(r, peak, cum) \in [locked : BOOLEAN, for : Nat]
         /\ peak < RatchetArm => ~Relocked(r, peak, cum).locked
         /\ ~(peak < RatchetArm) /\ GivebackTrips(peak, cum) => Relocked(r, peak, cum).locked
         /\ ~(peak < RatchetArm) /\ Relocked(r, peak, cum).locked
               => GivebackTrips(peak, cum) \/ ~(peak - cum < RatchetRearm)
<1> DEFINE trips == GivebackTrips(peak, cum)
<1>1. /\ [r EXCEPT !.locked = TRUE] \in [locked : BOOLEAN, for : Nat]
      /\ [r EXCEPT !.locked = TRUE].locked
      /\ Unlocked \in [locked : BOOLEAN, for : Nat] /\ ~Unlocked.locked
  BY DEF Unlocked
<1> HIDE DEF trips
<1>2. Relocked(r, peak, cum) = IF peak < RatchetArm THEN Unlocked
                               ELSE IF trips THEN [r EXCEPT !.locked = TRUE]
                               ELSE IF peak - cum < RatchetRearm THEN Unlocked ELSE r
  BY DEF Relocked, trips
<1> QED
  BY <1>1, <1>2 DEF trips

LEMMA RatchetStep == TypeOK /\ RatchetInv /\ [Next]_vars => RatchetInv'
<1> SUFFICES ASSUME TypeOK, RatchetInv, [Next]_vars PROVE RatchetInv'
  OBVIOUS
<1>0. mem \in States /\ loop \in Passes /\ reset \in Resets
  BY DEF TypeOK
<1> USE DEF RatchetInv, Locked
<1>1. ASSUME NEW e \in Wired, NEW bp \in setting.bps, Trade(e, bp) PROVE RatchetInv'
  BY <1>1 DEF Trade
<1>2. CASE Tick
  <2>1. UNCHANGED <<mem, ratchet, loop, reset, up, due>>
    BY <1>2 DEF Tick
  <2> QED BY <2>1 DEF RatchetRight
<1>3. ASSUME NEW alarm \in BOOLEAN, NEW bps \in [Wired -> setting.bps], LoopReads(alarm, bps)
      PROVE RatchetInv'
  <2>1. up /\ up' = up /\ loop'.at \in {"save", "equity"}
    BY <1>3, ReadsIs
  <2> QED BY <2>1
<1>4. CASE LoopSaves \/ LoopEquity
  <2>1. up /\ up' = up
    BY <1>4, Zenon DEF LoopSaves, LoopEquity
  <2>2. loop'.at \in {"equity", "ratchet"}
    <3>1. CASE LoopSaves
      BY <1>0, <3>1 DEF LoopSaves, Passes
    <3>2. CASE LoopEquity
      <4>1. PICK cum, peak : loop' = [loop EXCEPT !.at = "ratchet", !.cum = cum, !.peak = peak]
        BY <3>2, Zenon DEF LoopEquity
      <4> QED BY <1>0, <4>1 DEF Passes
    <3> QED BY <1>4, <3>1, <3>2
  <2> QED BY <2>1, <2>2
<1>5. CASE LoopRatchet
  <2> DEFINE held == IF forced THEN Unlocked ELSE ratchet
             cum == loop.cum
             decays == held.locked /\ held.for > 0 /\ loop.peak > cum
             peak == IF decays THEN Decayed(loop.peak, cum, held.for) ELSE loop.peak
             r == IF decays THEN [held EXCEPT !.for = 0] ELSE held
  <2>1. /\ mem' = [mem EXCEPT !.cum = cum, !.peak = peak]
        /\ ratchet' = Relocked(r, peak, cum)
    BY <1>5, Zenon DEF LoopRatchet
  <2>2. up /\ up' = up
    BY <1>5 DEF LoopRatchet
  <2> HIDE DEF decays, peak, cum
  <2>3. held \in [locked : BOOLEAN, for : Nat]
    BY DEF TypeOK, Unlocked, Day
  <2> HIDE DEF held
  <2>4. [held EXCEPT !.for = 0] \in [locked : BOOLEAN, for : Nat]
    BY <2>3
  <2>5. r \in [locked : BOOLEAN, for : Nat]
    BY <2>3, <2>4
  <2> HIDE DEF r
  <2>6. mem'.peak = peak /\ mem'.cum = cum
    BY <1>0, <2>1 DEF States
  <2>7. RatchetRight'
    BY <2>1, <2>5, <2>6, RelockedIsRight DEF RatchetRight
  <2> QED BY <2>2, <2>7
<1>6. CASE ResetPeak \/ DailyKillClear \/ ClearHalts
  BY <1>6 DEF ResetPeak, DailyKillClear, ClearHalts
<1>7. CASE RatchetReset \/ SessionReset \/ SaveReads \/ SaveWrites
  <2>1. UNCHANGED <<mem, ratchet, loop, up, due>>
    BY <1>7 DEF RatchetReset, SessionReset, SaveReads, SaveWrites
  <2>2. reset.at # "clear"
    BY <1>7 DEF RatchetReset, SessionReset, Asked, SaveReads, SaveWrites
  <2> QED BY <2>1, <2>2 DEF RatchetRight
<1>8. CASE ReadEquity
  <2>1. mem' = [mem EXCEPT !.epoch = reset.epoch] /\ reset.at = "read"
        /\ UNCHANGED <<ratchet, loop, up, due>>
    BY <1>8 DEF ReadEquity
  <2>2. mem'.peak = mem.peak /\ mem'.cum = mem.cum
    BY <1>0, <2>1 DEF States
  <2> QED BY <2>1, <2>2 DEF RatchetRight
<1>9. CASE Rebase
  <2>1. reset' = [reset EXCEPT !.at = "clear"] /\ up /\ up' = up
    BY <1>9 DEF Rebase
  <2>2. reset'.at = "clear"
    BY <1>0, <2>1, ResetFields
  <2> QED BY <2>1, <2>2
<1>10. ASSUME NEW units \in {1, Day}, Pass(units) PROVE RatchetInv'
  BY <1>10 DEF Pass
<1>11. CASE Crash
  BY <1>11 DEF Crash
<1>12. CASE Boot
  BY <1>12 DEF Boot
<1>13. CASE UNCHANGED vars
  BY <1>13 DEF vars, RatchetRight
<1> QED
  BY <1>1, <1>2, <1>3, <1>4, <1>5, <1>6, <1>7, <1>8, <1>9, <1>10, <1>11, <1>12, <1>13
  DEF Next, Loop, Handler

(* Each time a pass has seen all that happened, the ratchet is locked if   *)
(* too much of the peak was given back, and not locked if nothing is left  *)
(* to defend or the loss is regained (main.cpp: the latch of the ratchet). *)
THEOREM RatchetNeitherSkipsNorLatches == Spec => []LockedIffGivenBack
<1>1. RatchetInv => LockedIffGivenBack
  BY DEF RatchetInv, LockedIffGivenBack, Settled
<1> QED
  BY TypeInit, TypeStep, RatchetInit, RatchetStep, <1>1, PTL DEF Spec
=============================================================================

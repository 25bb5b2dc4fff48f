----------------------------- MODULE Storm_proofs -----------------------------
(***************************************************************************)
(* What keeps submit from sending once more than it should: the ids of     *)
(* OrderRecovery, and the guards of StormGuards, for any number of         *)
(* threads, symbols and signals and any limits.                            *)
(***************************************************************************)
EXTENDS OrderRecovery, StormGuards, Totals_proofs, FiniteSetTheorems, TLAPS

-----------------------------------------------------------------------------
(* OrderRecovery.  What keeps a signal from being executed twice: two      *)
(* arguments, which share nothing.  An exchange that refuses an id it has  *)
(* executed needs no help from the registry; and the registry with one     *)
(* recovering thread needs no help from the exchange, as long as a request *)
(* is dead once it went unanswered, nothing takes longer than timeout_ms_  *)
(* and nothing crashes.                                                    *)

USE DEF IdOf

LEMMA ModeKept == TypeOK /\ [Next]_vars => mode' = mode /\ mode.posts \in Nat \ {0}
BY RecoveryAssumption DEF TypeOK, Next, vars

(* The states of OrderIdRegistry stay the four it declares, whoever       *)
(* submits, queries or crashes.                                            *)
THEOREM TypeCorrect == Spec => []TypeOK
<1>1. Init => TypeOK
  <2> SUFFICES ASSUME Init PROVE TypeOK
    OBVIOUS
  <2>1. 0 \in 0..mode.posts /\ 0 \in Nat /\ mode \in Modes
    BY RecoveryAssumption DEF Init
  <2>2. posts \in [Signals -> 0..mode.posts] /\ execs \in [Signals -> Nat]
        /\ booked \in [Signals -> Nat]
    BY <2>1 DEF Init
  <2>3. at \in [Callers -> [Signals -> {"idle", "checked", "reserved", "found", "absent"}]]
        /\ inflight \in [Signals -> {"none", "SENT", "ACKED", "UNKNOWN"}]
        /\ flying = {} /\ known = {}
        /\ unsure \in [Signals -> BOOLEAN] /\ blind \in BOOLEAN
    BY DEF Init
  <2> QED
    BY <2>1, <2>2, <2>3 DEF TypeOK
<1>2. TypeOK /\ [Next]_vars => TypeOK'
  <2> SUFFICES ASSUME TypeOK, [Next]_vars PROVE TypeOK'
    OBVIOUS
  <2>0. mode' = mode /\ mode.posts \in Nat \ {0}
    BY ModeKept
  <2>1. ASSUME NEW t \in Callers, NEW c \in Signals, OnSubmit(t, c) \/ Refuse(t, c)
        PROVE TypeOK'
    <3>1. inflight' \in [Signals -> {"none", "SENT", "ACKED", "UNKNOWN"}]
      BY <2>0, <2>1 DEF OnSubmit, Refuse, TypeOK, Mark, Erase
    <3>2. at' \in [Callers -> [Signals -> {"idle", "checked", "reserved", "found", "absent"}]]
      BY <2>0, <2>1 DEF OnSubmit, Refuse, TypeOK, Goto
    <3>3. UNCHANGED <<posts, flying, known, execs, booked, unsure, blind>>
      BY <2>1 DEF OnSubmit, Refuse, exchange, observer
    <3> QED
      BY <2>0, <3>1, <3>2, <3>3 DEF TypeOK
  <2>10. ASSUME NEW t \in Callers, NEW c \in Signals, Pass(t, c) \/ BelowMinNotional(t, c)
         PROVE TypeOK'
    <3>1. at' \in [Callers -> [Signals -> {"idle", "checked", "reserved", "found", "absent"}]]
      BY <2>10 DEF Pass, BelowMinNotional, TypeOK, Goto
    <3>2. UNCHANGED <<inflight, posts, flying, known, execs, booked, unsure, blind>>
      BY <2>10 DEF Pass, BelowMinNotional, exchange, observer
    <3> QED
      BY <2>0, <3>1, <3>2 DEF TypeOK
  <2>2. ASSUME NEW t \in Callers, NEW c \in Signals, Answered(t, c) PROVE TypeOK'
    <3>1. posts[c] + 1 \in 1..mode.posts
      BY <2>2, <2>0 DEF Answered, Acknowledge, Post, TypeOK
    <3>2. at' \in [Callers -> [Signals -> {"idle", "checked", "reserved", "found", "absent"}]]
          /\ inflight' \in [Signals -> {"none", "SENT", "ACKED", "UNKNOWN"}]
          /\ posts' \in [Signals -> 0..mode.posts]
          /\ unsure' \in [Signals -> BOOLEAN] /\ blind' \in BOOLEAN
      BY <2>0, <2>2, <3>1 DEF Answered, Acknowledge, Post, TypeOK, Goto, Mark
    <3>3. flying' = flying /\ execs' \in [Signals -> Nat] /\ booked' \in [Signals -> Nat]
          /\ known' \subseteq {IdOf(d, n) : d \in Signals, n \in 1..mode.posts}
      BY <2>0, <2>2, <3>1 DEF Answered, Acknowledge, Execute, TypeOK
    <3> QED
      BY <2>0, <3>2, <3>3 DEF TypeOK
  <2>3. ASSUME NEW t \in Callers, NEW c \in Signals, Rejected(t, c) PROVE TypeOK'
    <3>1. posts[c] + 1 \in 1..mode.posts
      BY <2>3, <2>0 DEF Rejected, Post, TypeOK
    <3> QED
      BY <2>0, <2>3, <3>1 DEF Rejected, Post, TypeOK, Goto, Mark, Erase, exchange
  <2>4. ASSUME NEW t \in Callers, NEW c \in Signals, Lost(t, c) PROVE TypeOK'
    <3>1. posts[c] + 1 \in 1..mode.posts
      BY <2>4, <2>0 DEF Lost, Post, TypeOK
    <3>2. at' \in [Callers -> [Signals -> {"idle", "checked", "reserved", "found", "absent"}]]
          /\ inflight' \in [Signals -> {"none", "SENT", "ACKED", "UNKNOWN"}]
          /\ posts' \in [Signals -> 0..mode.posts]
          /\ booked' \in [Signals -> Nat]
          /\ unsure' \in [Signals -> BOOLEAN] /\ blind' \in BOOLEAN
      BY <2>0, <2>4, <3>1 DEF Lost, Lose, Post, TypeOK, Goto, Mark, Erase
    <3>3. flying' \subseteq Signals \X (1..mode.posts) /\ execs' \in [Signals -> Nat]
          /\ known' \subseteq {IdOf(d, n) : d \in Signals, n \in 1..mode.posts}
      BY <2>0, <2>4, <3>1 DEF Lost, Execute, TypeOK, exchange
    <3> QED
      BY <2>0, <3>2, <3>3 DEF TypeOK
  <2>5. ASSUME NEW c \in Signals, NEW n \in 1..mode.posts, Land(c, n) PROVE TypeOK'
    BY <2>0, <2>5 DEF Land, Execute, TypeOK, observer
  <2>6. ASSUME NEW t \in Callers, NEW c \in Signals, Query(t, c) PROVE TypeOK'
    BY <2>0, <2>6 DEF Query, TypeOK, Goto, exchange, observer
  <2>9. ASSUME NEW t \in Callers, NEW c \in Signals, OnQueryResult(t, c) PROVE TypeOK'
    <3>1. inflight' \in [Signals -> {"none", "SENT", "ACKED", "UNKNOWN"}]
      BY <2>0, <2>9 DEF OnQueryResult, Acknowledge, TypeOK, Mark, Erase
    <3>2. at' \in [Callers -> [Signals -> {"idle", "checked", "reserved", "found", "absent"}]]
          /\ unsure' \in [Signals -> BOOLEAN]
      BY <2>0, <2>9 DEF OnQueryResult, Acknowledge, TypeOK, Goto
    <3>3. UNCHANGED <<posts, flying, known, execs, booked, blind>>
      BY <2>9 DEF OnQueryResult, Acknowledge, exchange
    <3> QED
      BY <2>0, <3>1, <3>2, <3>3 DEF TypeOK
  <2>7. CASE Crash
    BY <2>0, <2>7 DEF Crash, TypeOK, exchange, observer
  <2>8. CASE UNCHANGED vars
    BY <2>0, <2>8 DEF vars, TypeOK
  <2> QED
    BY <2>1, <2>2, <2>3, <2>4, <2>5, <2>6, <2>7, <2>8, <2>9, <2>10
    DEF Next, Step
<1> QED
  BY <1>1, <1>2, PTL DEF Spec

-----------------------------------------------------------------------------
(* What an exchange that remembers its ids contributes. *)
Remembered ==
    /\ execs \in [Signals -> 0..1]
    /\ \A c \in Signals : execs[c] = 1 => c \in known

LEMMA RememberedInit == Init => Remembered
BY DEF Init, Remembered

LEMMA RememberedNext == mode.dedup /\ TypeOK /\ Remembered /\ [Next]_vars => Remembered'
<1> SUFFICES ASSUME mode.dedup, TypeOK, Remembered, [Next]_vars PROVE Remembered'
  OBVIOUS
<1>1. ASSUME NEW c \in Signals, Takes(c), Execute(c, c) PROVE Remembered'
  BY <1>1 DEF Takes, Execute, Remembered, TypeOK
<1>2. ASSUME UNCHANGED <<known, execs>> PROVE Remembered'
  BY <1>2 DEF Remembered
<1>3. ASSUME NEW t \in Callers, NEW c \in Signals, Step(t, c) PROVE Remembered'
  BY <1>1, <1>2, <1>3 DEF Step, OnSubmit, Pass, Refuse, BelowMinNotional, Answered,
                          Rejected, Lost, Query, OnQueryResult, exchange
<1>4. ASSUME NEW c \in Signals, NEW n \in 1..mode.posts, Land(c, n) PROVE Remembered'
  BY <1>1, <1>4 DEF Land
<1>5. CASE Crash
  BY <1>2, <1>5 DEF Crash, exchange
<1>6. CASE UNCHANGED vars
  BY <1>2, <1>6 DEF vars
<1> QED
  BY <1>3, <1>4, <1>5, <1>6 DEF Next

LEMMA RememberedOnce == Remembered => \A c \in Signals : execs[c] <= 1
<1>1. Remembered => execs \in [Signals -> 0..1]
  BY Zenon DEF Remembered
<1> QED
  BY <1>1

RememberedInv == mode.dedup => Remembered

LEMMA RememberedKept == TypeOK /\ RememberedInv /\ [Next]_vars => RememberedInv'
<1> SUFFICES ASSUME TypeOK, RememberedInv, [Next]_vars, mode'.dedup PROVE Remembered'
  BY DEF RememberedInv
<1> QED
  BY ModeKept, RememberedNext DEF RememberedInv

-----------------------------------------------------------------------------
(* What the registry contributes when the protocol it documents is kept:   *)
(* one thread r recovers, a request that went unanswered does not land     *)
(* later, no request is in flight beyond timeout_ms_, and nothing crashes. *)
Driven(r) ==
    /\ mode.handling = "query_first" /\ mode.recoverers = {r}
    /\ ~mode.late /\ ~mode.slow /\ ~mode.crashes

Submitting(t, c) == at[t][c] \in {"checked", "reserved"}
Recovering(t, c) == at[t][c] \in {"found", "absent"}

(* An id in state SENT belongs to the one caller that got it from          *)
(* on_submit; only the recovering thread holds an answer, and only about   *)
(* an UNKNOWN id.                                                          *)
Holders(r) ==
    /\ \A t \in Callers, c \in Signals : Submitting(t, c) => inflight[c] = "SENT"
    /\ \A t, u \in Callers, c \in Signals : Submitting(t, c) /\ Submitting(u, c) => t = u
    /\ \A t \in Callers, c \in Signals :
          Recovering(t, c) => t = r /\ inflight[c] = "UNKNOWN"
    /\ \A c \in Signals : inflight[c] = "SENT" => \E t \in Callers : Submitting(t, c)

(* What the state of the id says about the exchange. *)
Truth ==
    /\ execs \in [Signals -> 0..1] /\ flying = {}
    /\ \A c \in Signals :
         /\ execs[c] = 1 <=> c \in known
         /\ inflight[c] \in {"none", "SENT"} => execs[c] = 0
         /\ inflight[c] = "ACKED" => execs[c] = 1
    /\ \A t \in Callers, c \in Signals : at[t][c] = "absent" => execs[c] = 0
    /\ \A t \in Callers, c \in Signals : at[t][c] = "found" => execs[c] = 1

(* The observer is unsure of exactly the UNKNOWN ids. *)
Certain == ~blind /\ \A c \in Signals : unsure[c] <=> inflight[c] = "UNKNOWN"

ProtocolInv(r) == Holders(r) /\ Truth /\ Certain

LEMMA ProtocolInit == ASSUME NEW r, Init PROVE ProtocolInv(r)
<1>1. Holders(r)
  BY DEF Init, Holders, Submitting, Recovering
<1>2. Truth
  BY DEF Init, Truth
<1>3. Certain
  BY DEF Init, Certain
<1> QED
  BY <1>1, <1>2, <1>3 DEF ProtocolInv

LEMMA GotoStep ==
    ASSUME TypeOK, NEW t \in Callers, NEW c \in Signals, NEW step, Goto(t, c, step)
    PROVE  \A u \in Callers, d \in Signals :
             at'[u][d] = IF u = t /\ d = c THEN step ELSE at[u][d]
BY DEF TypeOK, Goto

LEMMA MarkStep ==
    ASSUME TypeOK, NEW c \in Signals, NEW s, Mark(c, s)
    PROVE  \A d \in Signals : inflight'[d] = IF d = c THEN s ELSE inflight[d]
BY DEF TypeOK, Mark

LEMMA ProtocolNext ==
    ASSUME NEW r \in Callers, Driven(r), TypeOK, ProtocolInv(r), [Next]_vars
    PROVE  ProtocolInv(r)'
<1> USE DEF Submitting, Recovering
<1>1. ASSUME NEW t \in Callers, NEW c \in Signals, OnSubmit(t, c) PROVE ProtocolInv(r)'
  <2>a. \A u \in Callers, d \in Signals :
          at'[u][d] = IF u = t /\ d = c THEN "checked" ELSE at[u][d]
    BY <1>1, GotoStep DEF OnSubmit
  <2>b. \A d \in Signals : inflight'[d] = IF d = c THEN "SENT" ELSE inflight[d]
    BY <1>1, MarkStep DEF OnSubmit
  <2>1. Holders(r)'
    BY <1>1, <2>a, <2>b DEF OnSubmit, ProtocolInv, Holders
  <2>2. Truth'
    BY <1>1 DEF OnSubmit, Goto, Mark, TypeOK, ProtocolInv, Truth, exchange
  <2>3. Certain'
    BY <1>1 DEF OnSubmit, Mark, TypeOK, ProtocolInv, Certain, observer
  <2> QED
    BY <2>1, <2>2, <2>3 DEF ProtocolInv
<1>2. ASSUME NEW t \in Callers, NEW c \in Signals, Pass(t, c) PROVE ProtocolInv(r)'
  <2>a. \A u \in Callers, d \in Signals :
          at'[u][d] = IF u = t /\ d = c THEN "reserved" ELSE at[u][d]
    BY <1>2, GotoStep DEF Pass
  <2>b. inflight' = inflight
    BY <1>2 DEF Pass
  <2>1. Holders(r)'
    BY <1>2, <2>a, <2>b DEF Pass, ProtocolInv, Holders
  <2>2. Truth'
    BY <1>2 DEF Pass, Goto, TypeOK, ProtocolInv, Truth, exchange
  <2>3. Certain'
    BY <1>2 DEF Pass, ProtocolInv, Certain, observer
  <2> QED
    BY <2>1, <2>2, <2>3 DEF ProtocolInv
<1>3. ASSUME NEW t \in Callers, NEW c \in Signals, Refuse(t, c) PROVE ProtocolInv(r)'
  <2>a. \A u \in Callers, d \in Signals :
          at'[u][d] = IF u = t /\ d = c THEN "idle" ELSE at[u][d]
    BY <1>3, GotoStep DEF Refuse, Erase
  <2>b. \A d \in Signals : inflight'[d] = IF d = c THEN "none" ELSE inflight[d]
    BY <1>3, MarkStep DEF Refuse, Erase
  <2>1. Holders(r)'
    BY <1>3, <2>a, <2>b DEF Refuse, ProtocolInv, Holders
  <2>2. Truth'
    BY <1>3 DEF Refuse, Erase, Goto, Mark, TypeOK, ProtocolInv, Truth, Holders, exchange
  <2>3. Certain'
    BY <1>3 DEF Refuse, Erase, Mark, TypeOK, ProtocolInv, Certain, Holders, observer
  <2> QED
    BY <2>1, <2>2, <2>3 DEF ProtocolInv
<1>4. ASSUME NEW t \in Callers, NEW c \in Signals, BelowMinNotional(t, c)
      PROVE ProtocolInv(r)'
  BY <1>4 DEF BelowMinNotional, Driven
<1>5. ASSUME NEW t \in Callers, NEW c \in Signals, Answered(t, c) PROVE ProtocolInv(r)'
  <2>a. \A u \in Callers, d \in Signals :
          at'[u][d] = IF u = t /\ d = c THEN "idle" ELSE at[u][d]
    BY <1>5, GotoStep DEF Answered, Acknowledge, Post
  <2>b. \A d \in Signals : inflight'[d] = IF d = c THEN "ACKED" ELSE inflight[d]
    <3>1. inflight[c] = "SENT" /\ Acknowledge(c)
      BY <1>5 DEF Answered, Post, ProtocolInv, Holders
    <3> QED  BY <3>1, MarkStep DEF Acknowledge
  <2>1. Holders(r)'
    BY <1>5, <2>a, <2>b DEF Answered, Acknowledge, Post, ProtocolInv, Holders
  <2>2. Truth'
    BY <1>5, <2>b DEF Answered, Post, Execute, Goto, TypeOK, ProtocolInv, Truth, Holders
  <2>3. Certain'
    BY <1>5, <2>b DEF Answered, Post, TypeOK, ProtocolInv, Certain, Holders
  <2> QED
    BY <2>1, <2>2, <2>3 DEF ProtocolInv
<1>6. ASSUME NEW t \in Callers, NEW c \in Signals, Rejected(t, c) PROVE ProtocolInv(r)'
  <2>a. \A u \in Callers, d \in Signals :
          at'[u][d] = IF u = t /\ d = c THEN "idle" ELSE at[u][d]
    BY <1>6, GotoStep DEF Rejected, Post, Erase
  <2>b. \A d \in Signals : inflight'[d] = IF d = c THEN "none" ELSE inflight[d]
    BY <1>6, MarkStep DEF Rejected, Post, Erase
  <2>1. Holders(r)'
    BY <1>6, <2>a, <2>b DEF Rejected, Post, ProtocolInv, Holders
  <2>2. Truth'
    BY <1>6 DEF Rejected, Post, Erase, Goto, Mark, TypeOK, ProtocolInv, Truth, Holders,
                exchange
  <2>3. Certain'
    BY <1>6 DEF Rejected, Post, Erase, Mark, TypeOK, ProtocolInv, Certain, Holders
  <2> QED
    BY <2>1, <2>2, <2>3 DEF ProtocolInv
<1>7. ASSUME NEW t \in Callers, NEW c \in Signals, Lost(t, c) PROVE ProtocolInv(r)'
  <2>a. \A u \in Callers, d \in Signals :
          at'[u][d] = IF u = t /\ d = c THEN "idle" ELSE at[u][d]
    BY <1>7, GotoStep DEF Lost, Lose, Post, Driven
  <2>b. \A d \in Signals : inflight'[d] = IF d = c THEN "UNKNOWN" ELSE inflight[d]
    BY <1>7, MarkStep DEF Lost, Lose, Post, Driven
  <2>1. Holders(r)'
    BY <1>7, <2>a, <2>b DEF Lost, Post, ProtocolInv, Holders
  <2>2. Truth'
    BY <1>7 DEF Lost, Lose, Post, Execute, Goto, Mark, TypeOK, Driven, ProtocolInv,
                Truth, Holders, exchange
  <2>3. Certain'
    BY <1>7 DEF Lost, Lose, Post, Mark, TypeOK, Driven, ProtocolInv, Certain, Holders
  <2> QED
    BY <2>1, <2>2, <2>3 DEF ProtocolInv
<1>8. ASSUME NEW c \in Signals, NEW n \in 1..mode.posts, Land(c, n) PROVE ProtocolInv(r)'
  BY <1>8 DEF Land, ProtocolInv, Truth
<1>9. ASSUME NEW t \in Callers, NEW c \in Signals, Query(t, c) PROVE ProtocolInv(r)'
  <2>a. PICK answer \in {"found", "absent"} :
          \A u \in Callers, d \in Signals :
             at'[u][d] = IF u = t /\ d = c THEN answer ELSE at[u][d]
    <3>1. PICK answer \in {"found", "absent"} : Goto(t, c, answer)
      BY <1>9 DEF Query
    <3> QED
      BY <3>1, GotoStep
  <2>b. inflight[c] = "UNKNOWN" /\ t = r /\ inflight' = inflight
    BY <1>9 DEF Query, QueryFirst, Driven
  <2>1. Holders(r)'
    BY <1>9, <2>a, <2>b DEF Query, ProtocolInv, Holders
  <2>2. Truth'
    BY <1>9 DEF Query, Goto, TypeOK, ProtocolInv, Truth, exchange
  <2>3. Certain'
    BY <1>9 DEF Query, ProtocolInv, Certain, observer
  <2> QED
    BY <2>1, <2>2, <2>3 DEF ProtocolInv
<1>10. ASSUME NEW t \in Callers, NEW c \in Signals, OnQueryResult(t, c)
       PROVE ProtocolInv(r)'
  <2>0. inflight[c] = "UNKNOWN"
    BY <1>10 DEF OnQueryResult, Acknowledge, ProtocolInv, Holders
  <2>a. \A u \in Callers, d \in Signals :
          at'[u][d] = IF u = t /\ d = c THEN "idle" ELSE at[u][d]
    BY <1>10, GotoStep DEF OnQueryResult
  <2>b. PICK s \in {"none", "ACKED"} :
          \A d \in Signals : inflight'[d] = IF d = c THEN s ELSE inflight[d]
    BY <1>10, <2>0 DEF OnQueryResult, Acknowledge, Erase, Mark, TypeOK
  <2>1. Holders(r)'
    BY <1>10, <2>0, <2>a, <2>b DEF OnQueryResult, Acknowledge, ProtocolInv, Holders
  <2>2. Truth'
    <3>1. UNCHANGED <<flying, known, execs>>
      BY <1>10 DEF OnQueryResult, Acknowledge, exchange
    <3>2. at[t][c] = "absent" => execs[c] = 0 /\ \A d \in Signals :
            inflight'[d] = IF d = c THEN "none" ELSE inflight[d]
      BY <1>10, MarkStep DEF OnQueryResult, Acknowledge, Erase, ProtocolInv, Truth
    <3>3. at[t][c] = "found" => execs[c] = 1 /\ \A d \in Signals :
            inflight'[d] = IF d = c THEN "ACKED" ELSE inflight[d]
      BY <1>10, <2>0, MarkStep DEF OnQueryResult, Acknowledge, ProtocolInv, Truth
    <3>4. at[t][c] \in {"found", "absent"}
      BY <1>10 DEF OnQueryResult
    <3> QED
      BY <2>a, <3>1, <3>2, <3>3, <3>4 DEF ProtocolInv, Truth
  <2>3. Certain'
    BY <1>10, <2>0 DEF OnQueryResult, Acknowledge, Erase, Mark, TypeOK, ProtocolInv, Certain
  <2> QED
    BY <2>1, <2>2, <2>3 DEF ProtocolInv
<1>11. CASE Crash
  BY <1>11 DEF Crash, Driven
<1>12. CASE UNCHANGED vars
  BY <1>12 DEF vars, ProtocolInv, Holders, Truth, Certain
<1> QED
  BY <1>1, <1>2, <1>3, <1>4, <1>5, <1>6, <1>7, <1>8, <1>9, <1>10, <1>11, <1>12
  DEF Next, Step

(* A recovering thread, if there is exactly one, and what it relies on. *)
RegistryInv == Protocol => \E r \in Callers : Driven(r) /\ ProtocolInv(r)

LEMMA RegistryInit == Init => RegistryInv
BY ProtocolInit DEF RegistryInv, Protocol, Driven

LEMMA RegistryNext == TypeOK /\ RegistryInv /\ [Next]_vars => RegistryInv'
<1> SUFFICES ASSUME TypeOK, RegistryInv, [Next]_vars, Protocol' PROVE RegistryInv'
  BY DEF RegistryInv
<1>1. mode' = mode
  BY ModeKept
<1>2. Protocol
  BY <1>1 DEF Protocol
<1>3. PICK r \in Callers : Driven(r) /\ ProtocolInv(r)
  BY <1>2 DEF RegistryInv
<1>4. ProtocolInv(r)'
  BY <1>3, ProtocolNext
<1>5. Driven(r)'
  BY <1>1, <1>3 DEF Driven
<1> QED
  BY <1>4, <1>5 DEF RegistryInv

LEMMA RegistryMeans ==
    ASSUME TypeOK, RegistryInv, Protocol
    PROVE  (\A c \in Signals : execs[c] <= 1) /\ ~blind /\ RefusedIdIsFree
<1>0. PICK r \in Callers : ProtocolInv(r)
  BY DEF RegistryInv
<1>1. \A c \in Signals : execs[c] <= 1
  <2>1. execs \in [Signals -> 0..1]
    BY <1>0, Zenon DEF ProtocolInv, Truth
  <2> QED
    BY <2>1
<1>2. ~blind
  BY <1>0 DEF ProtocolInv, Certain
<1>3. ASSUME NEW c \in Signals, ~InHand(c), execs[c] = 0, ~unsure[c]
      PROVE  inflight[c] = "none"
  <2>1. inflight[c] # "SENT"
    BY <1>0, <1>3 DEF ProtocolInv, Holders, Submitting, InHand
  <2>2. inflight[c] # "ACKED"
    BY <1>0, <1>3 DEF ProtocolInv, Truth
  <2>3. inflight[c] # "UNKNOWN"
    BY <1>0, <1>3 DEF ProtocolInv, Certain
  <2> QED
    BY <1>3, <2>1, <2>2, <2>3 DEF TypeOK
<1> QED
  BY <1>1, <1>2, <1>3 DEF RefusedIdIsFree

LEMMA RegistryInvariant == Spec => [](TypeOK /\ RememberedInv /\ RegistryInv)
<1>1. Init => RememberedInv /\ RegistryInv
  BY RememberedInit, RegistryInit DEF RememberedInv
<1>2. TypeOK /\ (RememberedInv /\ RegistryInv) /\ [Next]_vars
        => (RememberedInv /\ RegistryInv)'
  BY RememberedKept, RegistryNext
<1> QED
  BY <1>1, <1>2, TypeCorrect, PTL DEF Spec

(* A signal is executed at most once: with an exchange that refuses the    *)
(* ids it has executed under every handling of timeouts, late requests and *)
(* crashes, because make_client_id gives every attempt the same id; and at *)
(* an exchange that checks no ids under the protocol of the registry.      *)
THEOREM ExecutedOnce == Spec => []AtMostOnce
<1>1. TypeOK /\ RememberedInv /\ RegistryInv => AtMostOnce
  BY RememberedOnce, RegistryMeans DEF RememberedInv, AtMostOnce
<1> QED
  BY <1>1, RegistryInvariant, PTL

(* Under the protocol no request repeats one whose fate is unknown. *)
THEOREM NothingBlind == Spec => []NeverBlind
<1>1. TypeOK /\ RegistryInv => NeverBlind
  BY RegistryMeans DEF NeverBlind
<1> QED
  BY <1>1, RegistryInvariant, PTL

(* Under the protocol the id of an order that was refused is free again. *)
THEOREM RefusedIsFree == Spec => [](Protocol => RefusedIdIsFree)
<1>1. TypeOK /\ RegistryInv => (Protocol => RefusedIdIsFree)
  BY RegistryMeans
<1> QED
  BY <1>1, RegistryInvariant, PTL

-----------------------------------------------------------------------------
(* StormGuards. *)

LEMMA LimitsFit ==
    ASSUME limits \in Limits
    PROVE  /\ limits.second \in Nat \ {0} /\ limits.minute \in Nat \ {0}
           /\ limits.second <= limits.minute
           /\ {limits.per_sec, limits.per_min, limits.new_syms, limits.coarse,
               limits.unfilled_sym, limits.lot_size, limits.unfilled_day} \subseteq Nat
           /\ limits.consecutive \in Nat \ {0}
           /\ limits.base \in Nat \ {0} /\ limits.cap \in Nat \ {0}
           /\ limits.symbols \subseteq Symbols /\ limits.asks \subseteq AllAsks
<1>1. limits \in [second : Nat \ {0}, minute : Nat \ {0},
                  per_sec : Nat, per_min : Nat, new_syms : Nat,
                  coarse : Nat, unfilled_sym : Nat, lot_size : Nat,
                  unfilled_day : Nat, consecutive : Nat \ {0},
                  base : Nat \ {0}, cap : Nat \ {0},
                  symbols : SUBSET Symbols, asks : SUBSET AllAsks,
                  outcomes : SUBSET AllOutcomes, burst : Nat]
  BY StormAssumption, Zenon
<1>2. limits.second <= limits.minute
  BY StormAssumption, Zenon
<1> QED
  BY <1>1, <1>2

LEMMA ThreadsFit ==
    ASSUME limits \in Limits
    PROVE  /\ Cardinality(Threads) \in Nat \ {0}
           /\ Saturation \in Nat /\ limits.consecutive < Saturation
<1>1. Cardinality(Threads) \in Nat /\ Cardinality(Threads) # 0
  BY StormAssumption, FS_CardinalityType, FS_EmptySet
<1> QED
  BY <1>1, LimitsFit DEF Saturation

LEMMA AgesFit ==
    ASSUME limits \in Limits
    PROVE  /\ IsFiniteSet(Ages) /\ Ages \subseteq Nat /\ 0 \in Ages
           /\ \A a \in Ages : a # 0 => a - 1 \in Ages
<1>1. IsFiniteSet(Ages)
  <2>1. 0 \in Int /\ limits.minute - 1 \in Int
    BY LimitsFit
  <2> QED
    BY <2>1, FS_Interval, Zenon DEF Ages
<1> QED
  BY <1>1, LimitsFit DEF Ages

(* The backoff never exceeds its cap. *)
LEMMA BackoffIs ==
    ASSUME limits \in Limits
    PROVE  \A n \in 1..Saturation : Backoff[n] \in 0..limits.cap
<1> DEFINE m == Saturation
           cap == limits.cap
           base == limits.base
           g == [p \in (1..m) \X (0..cap) |-> Capped(IF p[1] = 1 THEN base ELSE 2 * p[2], cap)]
           Body(f) == [n \in 1..m |-> Capped(IF n = 1 THEN base ELSE 2 * f[n - 1], cap)]
<1>1. m \in Nat /\ cap \in Nat /\ base \in Nat /\ 0 \in 0..cap
  BY LimitsFit, ThreadsFit
<1>2. Backoff = CHOOSE f : f = Body(f)
  BY DEF Backoff
<1> HIDE DEF m, cap, base
<1>3. \A x \in Nat : Capped(x, cap) \in 0..cap
  BY <1>1 DEF Capped
<1>4. /\ g \in [(1..m) \X (0..cap) -> 0..cap]
      /\ \A i \in 1..m, x \in 0..cap : g[<<i, x>>] = Capped(IF i = 1 THEN base ELSE 2 * x, cap)
  <2>1. ASSUME NEW p \in (1..m) \X (0..cap)
        PROVE  Capped(IF p[1] = 1 THEN base ELSE 2 * p[2], cap) \in 0..cap
    <3>1. p[2] \in Nat
      BY <1>1
    <3>2. (IF p[1] = 1 THEN base ELSE 2 * p[2]) \in Nat
      BY <1>1, <3>1
    <3> QED BY <1>3, <3>2
  <2> QED BY <2>1
<1> HIDE DEF g
<1>5. PICK r \in [0..m -> 0..cap] : \A i \in 1..m : r[i] = g[<<i, r[i-1]>>]
  <2>1. \E r \in [0..m -> 0..cap] : Accumulates(r, m, 0, g)
    BY <1>1, <1>4, Accumulation, Zenon
  <2> QED BY <2>1 DEF Accumulates
<1>6. [n \in 1..m |-> r[n]] = Body([n \in 1..m |-> r[n]])
  <2> DEFINE f == [n \in 1..m |-> r[n]]
  <2>1. ASSUME NEW n \in 1..m
        PROVE  f[n] = Capped(IF n = 1 THEN base ELSE 2 * f[n - 1], cap)
    <3>1. r[n-1] \in 0..cap /\ r[n] = g[<<n, r[n-1]>>]
      BY <1>1, <1>5
    <3>2. r[n] = Capped(IF n = 1 THEN base ELSE 2 * r[n-1], cap)
      BY <1>4, <3>1
    <3>3. n # 1 => f[n-1] = r[n-1]
      BY <1>1
    <3> QED BY <3>2, <3>3
  <2> QED BY <2>1
<1>7. Backoff = Body(Backoff)
  BY <1>2, <1>6
<1> DEFINE q == [i \in 0..m |-> IF i = 0 THEN 0 ELSE Backoff[i]]
<1>8. \A i \in 1..m : q[i-1] \in 0..cap => q[i] \in 0..cap
  <2> SUFFICES ASSUME NEW i \in 1..m, q[i-1] \in 0..cap PROVE Backoff[i] \in 0..cap
    BY <1>1
  <2>1. Backoff[i] = Capped(IF i = 1 THEN base ELSE 2 * Backoff[i-1], cap)
    BY <1>7
  <2>2. i # 1 => Backoff[i-1] = q[i-1]
    BY <1>1
  <2>3. (IF i = 1 THEN base ELSE 2 * Backoff[i-1]) \in Nat
    BY <1>1, <2>2
  <2> QED BY <1>3, <2>1, <2>3
<1>9. q[0] \in 0..cap
  BY <1>1
<1> HIDE DEF q
<1>10. \A i \in 0..m : q[i] \in 0..cap
  BY <1>1, <1>8, <1>9, KeptAlong
<1> QED
  BY <1>1, <1>10 DEF q, m, cap

(* The guards' state stays in range: failures are counted up to the point  *)
(* where they change nothing, backoffs never exceed the cap.               *)
LEMMA GuardsTypedInit == GuardsInit => GuardsTyped
<1> SUFFICES ASSUME GuardsInit PROVE GuardsTyped
  OBVIOUS
<1>1. limits \in Limits
  BY DEF GuardsInit
<1>2. (CHOOSE s \in Symbols : TRUE) \in Symbols
  BY StormAssumption
<1>3. 0 \in 0..Saturation /\ 0 \in 0..limits.cap
  BY <1>1, LimitsFit, ThreadsFit
<1>4. order \in [Threads -> [sym : Symbols, ask : AllAsks]]
  BY <1>2 DEF GuardsInit, AllAsks
<1>5. /\ consecutive \in [RetryKeys -> 0..Saturation]
      /\ wait \in [RetryKeys -> 0..limits.cap]
  BY <1>3 DEF GuardsInit
<1> QED
  BY <1>1, <1>4, <1>5 DEF GuardsInit, GuardsTyped

LEMMA LimitsKept == [GuardsNext]_guardVars => limits' = limits
BY DEF GuardsNext, guardVars, ThreadStep, Answer, Tick, Midnight, OutOfBand, Start,
       AdmitStorm, AdmitRate, Coarse, Send, Filled, Working, Refused, lasting

LEMMA CountsFit ==
    ASSUME limits \in Limits
    PROVE  /\ \A n \in Nat : Capped(n, Saturation) \in 0..Saturation
           /\ \A n \in Nat \ {0} : Capped(n, Saturation) \in 1..Saturation
           /\ \A n \in Nat : Capped(n, limits.unfilled_day) \in Nat
           /\ \A n \in Nat : Capped(n, limits.lot_size) \in Nat
BY LimitsFit, ThreadsFit DEF Capped

LEMMA KeysFit ==
    ASSUME NEW o \in [sym : Symbols, ask : AllAsks]
    PROVE  Retry(o) \in RetryKeys
BY DEF Retry, Intent, RetryKeys

LEMMA GuardsTypedNext == GuardsTyped /\ [GuardsNext]_guardVars => GuardsTyped'
<1> SUFFICES ASSUME GuardsTyped, [GuardsNext]_guardVars PROVE GuardsTyped'
  OBVIOUS
<1>0. /\ limits' = limits /\ limits \in Limits /\ Ages' = Ages /\ Saturation' = Saturation
      /\ 0 \in Ages /\ Ages \subseteq Nat /\ (\A a \in Ages : a # 0 => a - 1 \in Ages)
      /\ limits.cap \in Nat /\ Saturation \in Nat
  BY LimitsKept, LimitsFit, AgesFit, ThreadsFit DEF GuardsTyped, Ages, Saturation
<1>1. CASE Tick
  <2>1. /\ orders' \in [Ages -> Nat] /\ entries' \in [Ages -> Nat]
        /\ newSyms' \in [Ages -> SUBSET Symbols] /\ openings' \in [Ages -> SUBSET Symbols]
    BY <1>0, <1>1 DEF Tick, Shift, GuardsTyped
  <2>2. wait' \in [RetryKeys -> 0..limits.cap]
    BY <1>0, <1>1 DEF Tick, GuardsTyped
  <2> QED
    BY <1>0, <1>1, <2>1, <2>2 DEF Tick, GuardsTyped, breaker, sent, lasting
<1>2. CASE Midnight
  <2>1. today' \in [Symbols -> Nat]
    BY <1>2 DEF Midnight
  <2> QED
    BY <1>0, <1>2, <2>1 DEF Midnight, GuardsTyped, window, breaker, desk, sent, lasting
<1>3. CASE OutOfBand
  <2>1. orders' \in [Ages -> Nat]
    BY <1>0, <1>3 DEF OutOfBand, GuardsTyped
  <2> QED
    BY <1>0, <1>3, <2>1 DEF OutOfBand, GuardsTyped, storm, breaker, desk, sent, lasting
<1>4. ASSUME NEW t \in Threads, NEW s \in limits.symbols, NEW ask \in limits.asks,
             Start(t, [sym |-> s, ask |-> ask])
      PROVE  GuardsTyped'
  <2>1. [sym |-> s, ask |-> ask] \in [sym : Symbols, ask : AllAsks]
    BY <1>0, LimitsFit
  <2>2. order' \in [Threads -> [sym : Symbols, ask : AllAsks]]
    BY <1>4, <2>1 DEF Start, GuardsTyped
  <2>3. pc' \in [Threads -> {"idle", "storm", "rate", "coarse", "send", "answer"}]
    BY <1>4 DEF Start, Advance, GuardsTyped
  <2> QED
    BY <1>0, <1>4, <2>2, <2>3 DEF Start, GuardsTyped, window, storm, breaker, desk, sent, lasting
<1>5. ASSUME NEW t \in Threads, AdmitStorm(t) PROVE GuardsTyped'
  <2>1. pc' \in [Threads -> {"idle", "storm", "rate", "coarse", "send", "answer"}]
    BY <1>5 DEF AdmitStorm, Advance, GuardsTyped
  <2>2. refusedOperator' \in BOOLEAN
    BY <1>5 DEF AdmitStorm
  <2> QED
    BY <1>0, <1>5, <2>1, <2>2 DEF AdmitStorm, GuardsTyped, window, storm, breaker, desk, sent
<1>6. ASSUME NEW t \in Threads, AdmitRate(t) PROVE GuardsTyped'
  <2>1. pc' \in [Threads -> {"idle", "storm", "rate", "coarse", "send", "answer"}]
    BY <1>6 DEF AdmitRate, Advance, GuardsTyped
  <2>2. order[t].sym \in Symbols
    BY DEF GuardsTyped
  <2>3. /\ orders' \in [Ages -> Nat] /\ entries' \in [Ages -> Nat]
        /\ newSyms' \in [Ages -> SUBSET Symbols] /\ openings' \in [Ages -> SUBSET Symbols]
    <3>1. orders \in [Ages -> Nat] /\ entries \in [Ages -> Nat]
          /\ newSyms \in [Ages -> SUBSET Symbols] /\ openings \in [Ages -> SUBSET Symbols]
      BY DEF GuardsTyped
    <3>2. CASE UNCHANGED <<window, desk>>
      BY <1>0, <3>1, <3>2 DEF window, desk
    <3>3. CASE ~UNCHANGED <<window, desk>>
      <4>1. orders' \in [Ages -> Nat] /\ entries' \in [Ages -> Nat]
        BY <1>0, <1>6, <3>1, <3>3 DEF AdmitRate
      <4>2. newSyms' \in [Ages -> SUBSET Symbols] /\ openings' \in [Ages -> SUBSET Symbols]
        BY <1>0, <1>6, <2>2, <3>1, <3>3 DEF AdmitRate
      <4> QED BY <4>1, <4>2
    <3> QED BY <3>2, <3>3
  <2> QED
    BY <1>0, <1>6, <2>1, <2>3 DEF AdmitRate, GuardsTyped, storm, breaker, sent, lasting
<1>7. ASSUME NEW t \in Threads, Coarse(t) PROVE GuardsTyped'
  <2>1. pc' \in [Threads -> {"idle", "storm", "rate", "coarse", "send", "answer"}]
    BY <1>7 DEF Coarse, Advance, GuardsTyped
  <2>2. unfilled' \in [Symbols -> Nat] /\ tripped' \in BOOLEAN
    BY <1>7 DEF Coarse, GuardsTyped
  <2> QED
    BY <1>0, <1>7, <2>1, <2>2 DEF Coarse, GuardsTyped, window, storm, desk, sent, lasting
<1>8. ASSUME NEW t \in Threads, Send(t) PROVE GuardsTyped'
  <2>1. pc' \in [Threads -> {"idle", "storm", "rate", "coarse", "send", "answer"}]
    BY <1>8 DEF Send, Advance, GuardsTyped
  <2>2. today' \in [Symbols -> Nat]
    BY <1>0, <1>8, CountsFit DEF Send, GuardsTyped
  <2>3. sinceFill' \in [Symbols -> Nat] /\ afterTrip' \in Nat
    BY <1>8 DEF Send, GuardsTyped
  <2> QED
    BY <1>0, <1>8, <2>1, <2>2, <2>3 DEF Send, GuardsTyped, window, breaker, desk, lasting
<1>9. ASSUME NEW t \in Threads, Filled(t) PROVE GuardsTyped'
  <2>1. pc' \in [Threads -> {"idle", "storm", "rate", "coarse", "send", "answer"}]
    BY <1>9 DEF Filled, Advance, GuardsTyped
  <2>2. /\ unfilled' \in [Symbols -> Nat] /\ today' \in [Symbols -> Nat]
        /\ sinceFill' \in [Symbols -> Nat] /\ held' \in [Symbols -> BOOLEAN]
    BY <1>9 DEF Filled, GuardsTyped
  <2>3. /\ consecutive' \in [RetryKeys -> 0..Saturation]
        /\ wait' \in [RetryKeys -> 0..limits.cap]
    BY <1>0, <1>9 DEF Filled, GuardsTyped
  <2> QED
    BY <1>0, <1>9, <2>1, <2>2, <2>3 DEF Filled, GuardsTyped, window, desk, lasting
<1>10. ASSUME NEW t \in Threads, Working(t) PROVE GuardsTyped'
  <2>1. pc' \in [Threads -> {"idle", "storm", "rate", "coarse", "send", "answer"}]
    BY <1>10 DEF Working, Advance, GuardsTyped
  <2> QED
    BY <1>0, <1>10, <2>1 DEF Working, GuardsTyped, window, storm, breaker, desk, sent, lasting
<1>11. ASSUME NEW t \in Threads, NEW lot \in BOOLEAN, Refused(t, lot) PROVE GuardsTyped'
  <2>1. pc' \in [Threads -> {"idle", "storm", "rate", "coarse", "send", "answer"}]
    BY <1>11 DEF Refused, Advance, GuardsTyped
  <2>2. Retry(order[t]) \in RetryKeys
    BY KeysFit DEF GuardsTyped
  <2>3. consecutive[Retry(order[t])] + 1 \in Nat \ {0}
    BY <1>0, <2>2 DEF GuardsTyped
  <2>4. PICK n \in 1..Saturation : /\ consecutive' = [consecutive EXCEPT ![Retry(order[t])] = n]
                                   /\ wait' = [wait EXCEPT ![Retry(order[t])] = Backoff[n]]
    BY <1>0, <1>11, <2>3, CountsFit DEF Refused
  <2>5. Backoff[n] \in 0..limits.cap /\ n \in 0..Saturation
    BY <1>0, BackoffIs
  <2>6. /\ consecutive' \in [RetryKeys -> 0..Saturation]
        /\ wait' \in [RetryKeys -> 0..limits.cap]
    BY <2>4, <2>5 DEF GuardsTyped
  <2>7. lotRejects' \in [Symbols -> Nat]
    BY <1>0, <1>11, CountsFit DEF Refused, GuardsTyped
  <2> QED
    BY <1>0, <1>11, <2>1, <2>6, <2>7 DEF Refused, GuardsTyped, window, desk, sent, lasting
<1>12. CASE UNCHANGED guardVars
  BY <1>0, <1>12 DEF guardVars, GuardsTyped
<1> QED
  BY <1>1, <1>2, <1>3, <1>4, <1>5, <1>6, <1>7, <1>8, <1>9, <1>10, <1>11, <1>12
  DEF GuardsNext, ThreadStep, Answer

(* The windows, counters and latches of the guards stay in range: no       *)
(* backoff exceeds its cap, no failure count runs away.                    *)
THEOREM GuardsWellTyped == GuardsSpec => []GuardsTyped
BY GuardsTypedInit, GuardsTypedNext, PTL DEF GuardsSpec

-----------------------------------------------------------------------------
(* GlobalOrderRateGuard: the sliding windows.                              *)

LEMMA WindowFinite ==
    ASSUME limits \in Limits, NEW w
    PROVE  IsFiniteSet({a \in Ages : a < w})
<1>1. {a \in Ages : a < w} \in SUBSET Ages
  OBVIOUS
<1> QED
  BY <1>1, AgesFit, FS_Subset

LEMMA SumMonotone ==
    ASSUME limits \in Limits, NEW w, NEW f \in [Ages -> Nat], NEW g \in [Ages -> Nat],
           \A a \in Ages : g[a] <= f[a]
    PROVE  Sum(f, w) \in Nat /\ Sum(g, w) \in Nat /\ Sum(g, w) <= Sum(f, w)
<1> DEFINE W == {a \in Ages : a < w}
<1>1. IsFiniteSet(W) /\ \A a \in W : f[a] \in Nat /\ g[a] \in Nat /\ g[a] <= f[a]
  BY WindowFinite
<1> HIDE DEF W
<1>2. Total(g, W) \in Nat /\ Total(f, W) \in Nat /\ Total(g, W) <= Total(f, W)
  BY <1>1, TotalMonotone
<1> QED
  BY <1>2 DEF W, Sum

(* An order recorded now adds one to every window. *)
LEMMA SumRecord ==
    ASSUME limits \in Limits, NEW w \in Nat \ {0}, NEW f \in [Ages -> Nat]
    PROVE  Sum([f EXCEPT ![0] = @ + 1], w) <= Sum(f, w) + 1
<1> DEFINE W == {a \in Ages : a < w}
           g == [f EXCEPT ![0] = @ + 1]
<1>1. IsFiniteSet(W) /\ 0 \in W
  BY WindowFinite, AgesFit
<1>2. /\ \A a \in W : f[a] \in Nat /\ g[a] \in Nat
      /\ \A a \in W \ {0} : g[a] <= f[a]
      /\ g[0] = f[0] + 1 /\ f[0] \in Nat
  BY AgesFit
<1> HIDE DEF W, g
<1>3. /\ Total(f, W) \in Nat /\ Total(g, W) \in Nat
      /\ Total(g, W) + f[0] <= Total(f, W) + g[0]
  BY <1>1, <1>2, TotalStep
<1>4. Total(g, W) <= Total(f, W) + 1
  BY <1>2, <1>3
<1> QED
  BY <1>4 DEF W, g, Sum

(* A tick moves every order one slot on: what leaves the window is lost,   *)
(* nothing is counted twice.                                               *)
LEMMA SumShift ==
    ASSUME limits \in Limits, NEW w \in Int, NEW f \in [Ages -> Nat]
    PROVE  Sum(Shift(f, 0), w) \in Nat /\ Sum(f, w) \in Nat
           /\ Sum(Shift(f, 0), w) <= Sum(f, w)
<1> DEFINE W == {a \in Ages : a < w}
           g == Shift(f, 0)
           back == [u \in Units(g, W) |-> <<u[1] - 1, u[2]>>]
<1>1. g \in [Ages -> Nat] /\ g[0] = 0 /\ \A a \in Ages : a # 0 => g[a] = f[a - 1]
  BY AgesFit DEF Shift
<1>2. IsFiniteSet(W) /\ W \subseteq Nat /\ \A a \in W : a \in Ages
  BY WindowFinite, AgesFit
<1>3. \A a \in W : a # 0 => a - 1 \in W
  BY <1>2, AgesFit, LimitsFit
<1>4. \A a \in W : f[a] \in Nat /\ g[a] \in Nat
  BY <1>1
<1> HIDE DEF W, g
<1>5. \A u \in Units(g, W) : \E a \in W : \E i \in 1..f[a - 1] :
          a # 0 /\ g[a] = f[a - 1] /\ u = <<a, i>>
  <2> SUFFICES ASSUME NEW u \in Units(g, W)
               PROVE  \E a \in W : \E i \in 1..f[a - 1] :
                        a # 0 /\ g[a] = f[a - 1] /\ u = <<a, i>>
    OBVIOUS
  <2>1. PICK a \in W : u \in {a} \X (1..g[a])
    BY DEF Units
  <2>2. PICK i \in 1..g[a] : u = <<a, i>>
    BY <2>1
  <2>3. a # 0
    BY <1>1, <2>2
  <2>4. g[a] = f[a - 1]
    BY <1>1, <1>2, <2>3
  <2> QED BY <2>2, <2>3, <2>4
<1>6. back \in Injection(Units(g, W), Units(f, W))
  <2>1. ASSUME NEW u \in Units(g, W) PROVE <<u[1] - 1, u[2]>> \in Units(f, W)
    <3>0. PICK a \in W : \E i \in 1..f[a - 1] : a # 0 /\ u = <<a, i>>
      BY <1>5
    <3>1. PICK i \in 1..f[a - 1] : a # 0 /\ u = <<a, i>>
      BY <3>0
    <3>2. a - 1 \in W
      BY <1>3, <3>1
    <3>3. <<a - 1, i>> \in {a - 1} \X (1..f[a - 1])
      BY <3>1
    <3> QED BY <3>1, <3>2, <3>3 DEF Units
  <2>2. ASSUME NEW u \in Units(g, W), NEW v \in Units(g, W),
               <<u[1] - 1, u[2]>> = <<v[1] - 1, v[2]>>
        PROVE  u = v
    <3>1. PICK a \in W : \E i : u = <<a, i>>
      BY <1>5
    <3>2. PICK b \in W : \E j : v = <<b, j>>
      BY <1>5
    <3>3. a - 1 = b - 1 /\ u[2] = v[2] /\ a \in Nat /\ b \in Nat
      BY <1>2, <2>2, <3>1, <3>2
    <3> QED BY <3>1, <3>2, <3>3
  <2>3. back \in [Units(g, W) -> Units(f, W)]
    BY <2>1
  <2>4. \A u, v \in Units(g, W) : back[u] = back[v] => u = v
    BY <2>2
  <2> HIDE DEF back
  <2> QED BY <2>3, <2>4 DEF Injection, IsInjective
<1>7. IsFiniteSet(Units(f, W)) /\ IsFiniteSet(Units(g, W))
      /\ Total(f, W) \in Nat /\ Total(g, W) \in Nat
  BY <1>2, <1>4, UnitsFinite
<1>8. Total(g, W) <= Total(f, W)
  BY <1>6, <1>7, FS_Injection DEF Total
<1> QED
  BY <1>7, <1>8 DEF W, g, Sum

(* What the observers add to the guard's own windows: they record nothing  *)
(* the guard has not recorded.                                             *)
DeskInv ==
    /\ \A a \in Ages : entries[a] <= orders[a]
    /\ openings = newSyms
    /\ AdmissionsBounded

Opened(slots) == UNION {slots[a] : a \in Ages}

LEMMA OpenedFinite ==
    ASSUME limits \in Limits, NEW slots \in [Ages -> SUBSET Symbols]
    PROVE  IsFiniteSet(Opened(slots)) /\ Cardinality(Opened(slots)) \in Nat
<1>1. Opened(slots) \in SUBSET Symbols
  BY DEF Opened
<1> QED
  BY <1>1, StormAssumption, FS_Subset, FS_CardinalityType

LEMMA DeskInit == GuardsInit => DeskInv
<1> SUFFICES ASSUME GuardsInit PROVE DeskInv
  OBVIOUS
<1>0. limits \in Limits /\ GuardsTyped
  BY GuardsTypedInit DEF GuardsTyped
<1>1. ASSUME NEW w PROVE Sum(entries, w) = 0
  <2>1. \A a \in Ages : entries[a] = 0
    BY DEF GuardsInit
  <2>2. Units(entries, {a \in Ages : a < w}) = {}
    BY <2>1 DEF Units
  <2> QED
    BY <2>2, FS_EmptySet DEF Sum, Total
<1>2. Opened(openings) = {}
  BY DEF GuardsInit, Opened
<1>3. Cardinality(Opened(openings)) = 0
  BY <1>2, FS_EmptySet
<1>4. AdmissionsBounded
  BY <1>0, <1>1, <1>3, LimitsFit DEF AdmissionsBounded, Opened
<1> QED
  BY <1>4 DEF DeskInv, GuardsInit

LEMMA DeskNext == GuardsTyped /\ DeskInv /\ [GuardsNext]_guardVars => DeskInv'
<1> SUFFICES ASSUME GuardsTyped, DeskInv, [GuardsNext]_guardVars PROVE DeskInv'
  OBVIOUS
<1>0. /\ limits \in Limits /\ limits' = limits /\ Ages' = Ages
      /\ orders \in [Ages -> Nat] /\ entries \in [Ages -> Nat]
      /\ newSyms \in [Ages -> SUBSET Symbols] /\ openings \in [Ages -> SUBSET Symbols]
      /\ entries' \in [Ages -> Nat] /\ newSyms' \in [Ages -> SUBSET Symbols]
  BY LimitsKept, GuardsTypedNext DEF GuardsTyped, Ages
<1>w. /\ limits.second \in Nat \ {0} /\ limits.minute \in Nat \ {0}
      /\ limits.per_sec \in Nat /\ limits.per_min \in Nat /\ limits.new_syms \in Nat
      /\ 0 \in Ages
  BY <1>0, LimitsFit, AgesFit
<1>h. /\ Sum(entries, limits.second) <= limits.per_sec
      /\ Sum(entries, limits.minute) <= limits.per_min
      /\ Cardinality(Opened(openings)) <= limits.new_syms
  BY DEF DeskInv, AdmissionsBounded, Opened
<1>s. ASSUME Sum(entries', limits.second) <= limits.per_sec,
             Sum(entries', limits.minute) <= limits.per_min,
             Cardinality(Opened(openings')) <= limits.new_syms
      PROVE  AdmissionsBounded'
  BY <1>0, <1>s DEF AdmissionsBounded, Sum, Opened
<1>1. ASSUME UNCHANGED <<newSyms, desk>>, \A a \in Ages : entries[a] <= orders'[a]
      PROVE  DeskInv'
  <2>1. AdmissionsBounded'
    BY <1>h, <1>s, <1>1 DEF desk
  <2> QED
    BY <1>0, <1>1, <2>1 DEF DeskInv, desk
<1>2. ASSUME UNCHANGED <<window, desk>> PROVE DeskInv'
  BY <1>1, <1>2 DEF DeskInv, window
<1>3. CASE Tick
  <2>1. /\ entries' = Shift(entries, 0) /\ orders' = Shift(orders, 0)
        /\ newSyms' = Shift(newSyms, {}) /\ openings' = Shift(openings, {})
    BY <1>3 DEF Tick
  <2>2. \A w \in Nat : /\ Sum(entries', w) \in Nat /\ Sum(entries, w) \in Nat
                       /\ Sum(entries', w) <= Sum(entries, w)
    BY <1>0, <2>1, SumShift
  <2>3. Cardinality(Opened(openings')) <= limits.new_syms
    <3>1. Opened(openings') \in SUBSET Opened(openings)
      BY <1>0, <2>1, AgesFit DEF Opened, Shift
    <3>2. Cardinality(Opened(openings')) <= Cardinality(Opened(openings))
      BY <1>0, <3>1, OpenedFinite, FS_Subset
    <3>3. openings' \in [Ages -> SUBSET Symbols]
      BY <1>0, <2>1 DEF DeskInv
    <3> QED
      BY <1>0, <1>h, <1>w, <3>2, <3>3, OpenedFinite
  <2>4. AdmissionsBounded'
    BY <1>h, <1>s, <1>w, <2>2, <2>3
  <2>5. \A a \in Ages : entries'[a] <= orders'[a]
    BY <1>0, <2>1, AgesFit DEF Shift, DeskInv
  <2> QED
    BY <1>0, <2>1, <2>4, <2>5 DEF DeskInv
<1>4. CASE OutOfBand
  BY <1>0, <1>1, <1>4, <1>w DEF OutOfBand, DeskInv, desk
<1>5. ASSUME NEW t \in Threads, AdmitRate(t) PROVE DeskInv'
  <2> DEFINE o == order[t]
  <2>0. o.sym \in Symbols
    BY DEF GuardsTyped
  <2>1. CASE ~IsExit(o) /\ (TooMany(o) \/ FansOut(o))
    BY <1>2, <1>5, <2>1 DEF AdmitRate
  <2>2. CASE ~(~IsExit(o) /\ (TooMany(o) \/ FansOut(o)))
    <3>1. /\ orders' = [orders EXCEPT ![0] = @ + 1]
          /\ entries' = IF IsExit(o) THEN entries ELSE [entries EXCEPT ![0] = @ + 1]
          /\ newSyms' = IF Opens(o) THEN [newSyms EXCEPT ![0] = @ \cup {o.sym}] ELSE newSyms
          /\ openings' = IF Opens(o) THEN [openings EXCEPT ![0] = @ \cup {o.sym}] ELSE openings
      BY <1>5, <2>2 DEF AdmitRate
    <3>2. openings' = newSyms'
      BY <3>1 DEF DeskInv
    <3>3. \A a \in Ages : entries'[a] <= orders'[a]
      BY <1>0, <1>w, <3>1 DEF DeskInv
    <3>4. ASSUME NEW w \in Nat \ {0}, NEW cap \in Nat, Sum(entries, w) <= cap,
                 ~IsExit(o) => Sum(orders, w) + 1 <= cap
          PROVE  Sum(entries', w) <= cap
      <4>1. CASE IsExit(o)
        BY <3>1, <3>4, <4>1
      <4>2. CASE ~IsExit(o)
        <5>1. entries' = [entries EXCEPT ![0] = @ + 1]
          BY <3>1, <4>2
        <5>2. Sum(entries', w) <= Sum(entries, w) + 1
          BY <1>0, <3>4, <5>1, SumRecord
        <5>3. Sum(entries, w) \in Nat /\ Sum(orders, w) \in Nat
              /\ Sum(entries, w) <= Sum(orders, w)
          BY <1>0, SumMonotone DEF DeskInv
        <5>4. Sum(entries', w) \in Nat
          BY <1>0, SumMonotone
        <5> QED BY <3>4, <4>2, <5>2, <5>3, <5>4
      <4> QED BY <4>1, <4>2
    <3>5. ~IsExit(o) => /\ Sum(orders, limits.second) + 1 <= limits.per_sec
                        /\ Sum(orders, limits.minute) + 1 <= limits.per_min
      <4>1. Sum(orders, limits.second) \in Nat /\ Sum(orders, limits.minute) \in Nat
        BY <1>0, SumMonotone
      <4> QED BY <1>w, <2>2, <4>1 DEF TooMany, InWindow
    <3>6. Cardinality(Opened(openings')) <= limits.new_syms
      <4>1. CASE ~Opens(o)
        BY <1>h, <3>1, <4>1
      <4>2. CASE Opens(o)
        <5>1. openings' = [openings EXCEPT ![0] = @ \cup {o.sym}]
          BY <3>1, <4>2
        <5>2. Opened(openings') = Opened(openings) \cup {o.sym}
          BY <1>0, <1>w, <5>1 DEF Opened
        <5>3. \/ o.sym \in Opened(openings)
              \/ Cardinality(Opened(openings)) + 1 <= limits.new_syms
          <6>1. Opened(openings) = RecentlyOpened
            BY DEF DeskInv, Opened, RecentlyOpened
          <6>2. ~FansOut(o)
            BY <2>2, <4>2 DEF Opens
          <6>3. Cardinality(Opened(openings)) \in Nat
            BY <1>0, OpenedFinite
          <6> QED BY <1>w, <4>2, <6>1, <6>2, <6>3 DEF FansOut
        <5>4. /\ IsFiniteSet(Opened(openings)) /\ Cardinality(Opened(openings)) \in Nat
              /\ Cardinality(Opened(openings')) =
                    IF o.sym \in Opened(openings) THEN Cardinality(Opened(openings))
                    ELSE Cardinality(Opened(openings)) + 1
          BY <1>0, <5>2, OpenedFinite, FS_AddElement
        <5> QED BY <1>h, <5>3, <5>4
      <4> QED BY <4>1, <4>2
    <3>7. Sum(entries', limits.second) <= limits.per_sec
      BY <1>h, <1>w, <3>4, <3>5
    <3>8. Sum(entries', limits.minute) <= limits.per_min
      BY <1>h, <1>w, <3>4, <3>5
    <3>9. AdmissionsBounded'
      BY <1>s, <3>6, <3>7, <3>8
    <3> QED BY <1>0, <3>2, <3>3, <3>9 DEF DeskInv
  <2> QED BY <2>1, <2>2
<1>6. CASE Midnight
  BY <1>2, <1>6 DEF Midnight
<1>7. ASSUME NEW t \in Threads, NEW s, NEW ask, Start(t, [sym |-> s, ask |-> ask])
      PROVE  DeskInv'
  BY <1>2, <1>7 DEF Start
<1>8. ASSUME NEW t \in Threads,
             AdmitStorm(t) \/ Coarse(t) \/ Send(t) \/ Answer(t)
      PROVE  DeskInv'
  BY <1>2, <1>8 DEF AdmitStorm, Coarse, Send, Answer, Filled, Working, Refused
<1>9. CASE UNCHANGED guardVars
  BY <1>2, <1>9 DEF guardVars, window, desk
<1> QED
  BY <1>3, <1>4, <1>5, <1>6, <1>7, <1>8, <1>9 DEF GuardsNext, ThreadStep

(* Whatever the limits, the threads and the symbols: no second and no      *)
(* minute, wherever it begins, admits more entries than its cap, and no    *)
(* minute opens more flat symbols.                                         *)
THEOREM DeskStaysWithinCaps == GuardsSpec => []AdmissionsBounded
<1>1. DeskInv => AdmissionsBounded
  BY DEF DeskInv
<1> QED
  BY <1>1, GuardsWellTyped, DeskInit, DeskNext, PTL DEF GuardsSpec

-----------------------------------------------------------------------------
(* Counting the threads that have passed a check.                          *)

LEMMA Crowd ==
    ASSUME NEW S \in SUBSET Threads, NEW T \in SUBSET Threads
    PROVE  /\ Cardinality(S) \in Nat /\ Cardinality(T) \in Nat
           /\ Cardinality(Threads) \in Nat /\ Cardinality(S) <= Cardinality(Threads)
           /\ S \subseteq T => Cardinality(S) <= Cardinality(T)
           /\ \A t \in T : S \subseteq T \ {t} => Cardinality(S) + 1 <= Cardinality(T)
           /\ \A t \in Threads : S \subseteq Threads \ {t}
                                 => Cardinality(S) + 1 <= Cardinality(Threads)
           /\ \A t : S \subseteq T \cup {t} => Cardinality(S) <= Cardinality(T) + 1
<1>1. IsFiniteSet(Threads) /\ IsFiniteSet(S) /\ IsFiniteSet(T)
  BY StormAssumption, FS_Subset
<1>2. /\ Cardinality(S) \in Nat /\ Cardinality(T) \in Nat /\ Cardinality(Threads) \in Nat
      /\ Cardinality(S) <= Cardinality(Threads)
  BY <1>1, FS_CardinalityType, FS_Subset
<1>3. S \subseteq T => Cardinality(S) <= Cardinality(T)
  BY <1>1, FS_Subset
<1>4. ASSUME NEW U, U = T \/ U = Threads, NEW t \in U, S \subseteq U \ {t}
      PROVE  Cardinality(S) + 1 <= Cardinality(U)
  <2>1. IsFiniteSet(U) /\ Cardinality(U) \in Nat
    BY <1>1, <1>2, <1>4
  <2>2. IsFiniteSet(U \ {t}) /\ Cardinality(U \ {t}) = Cardinality(U) - 1
    BY <1>4, <2>1, FS_RemoveElement
  <2>3. Cardinality(S) <= Cardinality(U \ {t})
    BY <1>4, <2>2, FS_Subset
  <2> QED BY <1>2, <2>1, <2>2, <2>3
<1>5. ASSUME NEW t, S \subseteq T \cup {t} PROVE Cardinality(S) <= Cardinality(T) + 1
  <2>1. /\ IsFiniteSet(T \cup {t})
        /\ Cardinality(T \cup {t}) = IF t \in T THEN Cardinality(T) ELSE Cardinality(T) + 1
    BY <1>1, FS_AddElement
  <2>2. Cardinality(S) <= Cardinality(T \cup {t})
    BY <1>5, <2>1, FS_Subset
  <2> QED BY <1>2, <2>1, <2>2
<1> QED
  BY <1>2, <1>3, <1>4, <1>5

(* What a step of the guards does to the threads' places. *)
LEMMA PlacesStep ==
    ASSUME GuardsTyped, NEW t \in Threads, NEW step, Advance(t, step)
    PROVE  \A u \in Threads : pc'[u] = IF u = t THEN step ELSE pc[u]
BY DEF GuardsTyped, Advance

-----------------------------------------------------------------------------
(* SlowStormGuard: the threads that were admitted with an entry for s and  *)
(* have no answer yet may each still add a failure.                        *)
Past(s) == {t \in Threads : /\ pc[t] \in {"rate", "coarse", "send", "answer"}
                            /\ order[t].ask = "ENTRY" /\ order[t].sym = s}

RetryInv ==
    \A s \in Symbols :
        consecutive[<<s, "OPEN">>] + Cardinality(Past(s))
            <= limits.consecutive + Cardinality(Threads) - 1

LEMMA RetryInit == GuardsInit => RetryInv
<1> SUFFICES ASSUME GuardsInit, NEW s \in Symbols
             PROVE  consecutive[<<s, "OPEN">>] + Cardinality(Past(s))
                        <= limits.consecutive + Cardinality(Threads) - 1
  BY DEF RetryInv
<1>1. limits \in Limits
  BY DEF GuardsInit
<1>2. Past(s) = {} /\ consecutive[<<s, "OPEN">>] = 0
  BY DEF GuardsInit, Past, RetryKeys
<1> QED
  BY <1>1, <1>2, LimitsFit, ThreadsFit, FS_EmptySet

LEMMA RetryNext == GuardsTyped /\ RetryInv /\ [GuardsNext]_guardVars => RetryInv'
<1> SUFFICES ASSUME GuardsTyped, RetryInv, [GuardsNext]_guardVars, NEW s \in Symbols
             PROVE  consecutive'[<<s, "OPEN">>] + Cardinality(Past(s)')
                        <= limits.consecutive + Cardinality(Threads) - 1
  BY LimitsKept DEF RetryInv
<1> DEFINE k == <<s, "OPEN">>
           n == Cardinality(Threads)
           Goal == consecutive'[k] + Cardinality(Past(s)') <= limits.consecutive + n - 1
<1>0. /\ Past(s) \in SUBSET Threads /\ Past(s)' \in SUBSET Threads
      /\ k \in RetryKeys /\ consecutive[k] \in Nat /\ consecutive'[k] \in Nat
      /\ limits.consecutive \in Nat \ {0} /\ n \in Nat \ {0}
      /\ Cardinality(Past(s)) \in Nat /\ Cardinality(Past(s)') \in Nat
      /\ Cardinality(Past(s)') <= n
      /\ consecutive[k] + Cardinality(Past(s)) <= limits.consecutive + n - 1
  <2>1. Past(s) \in SUBSET Threads /\ Past(s)' \in SUBSET Threads /\ k \in RetryKeys
    BY DEF Past, RetryKeys
  <2>2. limits \in Limits /\ GuardsTyped'
    BY GuardsTypedNext DEF GuardsTyped
  <2>3. Saturation \in Nat /\ Saturation' \in Nat
    BY <2>2, LimitsKept, ThreadsFit DEF Saturation
  <2>4. consecutive[k] \in Nat /\ consecutive'[k] \in Nat
    BY <2>1, <2>2, <2>3 DEF GuardsTyped
  <2> QED
    BY <2>1, <2>2, <2>4, LimitsFit, ThreadsFit, Crowd DEF RetryInv
<1>1. ASSUME Past(s)' \subseteq Past(s), consecutive'[k] <= consecutive[k] PROVE Goal
  BY <1>0, <1>1, Crowd
<1>2. ASSUME UNCHANGED <<pc, order, consecutive>> PROVE Goal
  <2>1. Past(s)' \subseteq Past(s)
    BY <1>2 DEF Past
  <2> QED BY <1>0, <1>1, <1>2, <2>1
<1>3. ASSUME NEW t \in Threads, NEW sym, NEW ask, Start(t, [sym |-> sym, ask |-> ask])
      PROVE  Goal
  <2>1. \A u \in Threads : pc'[u] = IF u = t THEN "storm" ELSE pc[u]
    BY <1>3, PlacesStep DEF Start
  <2>2. \A u \in Threads : u # t => order'[u] = order[u]
    BY <1>3 DEF Start, GuardsTyped
  <2>3. Past(s)' \subseteq Past(s) /\ consecutive' = consecutive
    BY <1>3, <2>1, <2>2 DEF Past, Start, storm
  <2> QED BY <1>0, <1>1, <2>3
<1>4. ASSUME NEW t \in Threads, AdmitStorm(t) PROVE Goal
  <2>0. /\ consecutive' = consecutive /\ order' = order
        /\ \A u \in Threads :
             pc'[u] = IF u = t THEN IF Stopped(order[t]) \/ BackingOff(order[t])
                                    THEN "idle" ELSE "rate"
                      ELSE pc[u]
    BY <1>4, PlacesStep DEF AdmitStorm, storm
  <2>1. CASE t \in Past(s)'
    <3>1. order[t].ask = "ENTRY" /\ order[t].sym = s /\ ~Stopped(order[t])
      BY <2>0, <2>1 DEF Past
    <3>2. Retry(order[t]) = k
      BY <3>1 DEF Retry, Intent
    <3>3. consecutive[k] < limits.consecutive
      BY <1>0, <3>1, <3>2 DEF Stopped, IsExit
    <3> QED BY <1>0, <2>0, <3>3
  <2>2. CASE t \notin Past(s)'
    <3>1. Past(s)' \subseteq Past(s)
      BY <2>0, <2>2 DEF Past
    <3> QED BY <1>0, <1>1, <2>0, <3>1
  <2> QED BY <2>1, <2>2
<1>5. ASSUME NEW t \in Threads, AdmitRate(t) \/ Coarse(t) \/ Send(t) \/ Working(t)
      PROVE  Goal
  <2>1. PICK step : Advance(t, step)
    BY <1>5 DEF AdmitRate, Coarse, Send, Working, Advance
  <2>2. pc[t] \in {"rate", "coarse", "send", "answer"} /\ order' = order
        /\ consecutive' = consecutive
    BY <1>5 DEF AdmitRate, Coarse, Send, Working, storm
  <2>3. Past(s)' \subseteq Past(s)
    BY <2>1, <2>2, PlacesStep DEF Past
  <2> QED BY <1>0, <1>1, <2>2, <2>3
<1>6. ASSUME NEW t \in Threads, Filled(t) PROVE Goal
  <2>1. /\ \A u \in Threads : pc'[u] = IF u = t THEN "idle" ELSE pc[u]
        /\ order' = order
    BY <1>6, PlacesStep DEF Filled
  <2>2. consecutive'[k] = 0 \/ consecutive'[k] = consecutive[k]
    BY <1>0, <1>6 DEF Filled
  <2>3. Past(s)' \subseteq Past(s)
    BY <2>1 DEF Past
  <2> QED BY <1>0, <1>1, <2>2, <2>3
<1>7. ASSUME NEW t \in Threads, NEW lot \in BOOLEAN, Refused(t, lot) PROVE Goal
  <2>1. /\ \A u \in Threads : pc'[u] = IF u = t THEN "idle" ELSE pc[u]
        /\ order' = order /\ pc[t] = "answer"
    BY <1>7, PlacesStep DEF Refused
  <2>2. Past(s)' \subseteq Past(s) \ {t}
    BY <2>1 DEF Past
  <2>3. CASE Retry(order[t]) = k
    <3>1. t \in Past(s)
      BY <2>1, <2>3 DEF Past, Retry, Intent
    <3>2. consecutive'[k] <= consecutive[k] + 1
      <4>1. consecutive' = [consecutive EXCEPT ![k] = Capped(consecutive[k] + 1, Saturation)]
        BY <1>7, <2>3 DEF Refused
      <4>2. consecutive'[k] = Capped(consecutive[k] + 1, Saturation)
        BY <1>0, <4>1 DEF GuardsTyped
      <4>3. Saturation \in Nat
        BY ThreadsFit DEF GuardsTyped
      <4> QED BY <1>0, <4>2, <4>3 DEF Capped
    <3>3. Cardinality(Past(s)') + 1 <= Cardinality(Past(s))
      BY <1>0, <2>2, <3>1, Crowd
    <3> QED BY <1>0, <3>2, <3>3
  <2>4. CASE Retry(order[t]) # k
    <3>1. consecutive'[k] = consecutive[k]
      BY <1>0, <1>7, <2>4 DEF Refused, GuardsTyped
    <3> QED BY <1>0, <1>1, <2>2, <3>1
  <2> QED BY <2>3, <2>4
<1>8. CASE Tick \/ Midnight \/ OutOfBand
  BY <1>2, <1>8 DEF Tick, Midnight, OutOfBand, storm
<1>9. CASE UNCHANGED guardVars
  BY <1>2, <1>9 DEF guardVars
<1> QED
  BY <1>3, <1>4, <1>5, <1>6, <1>7, <1>8, <1>9 DEF GuardsNext, ThreadStep, Answer

(* A refused entry is not sent for ever: a symbol collects at most the     *)
(* failures that stop it, and one more from each other thread that was     *)
(* already past the check.                                                 *)
THEOREM RetryLoopsStop == GuardsSpec => []RetriesStop
<1>1. ASSUME GuardsTyped, RetryInv PROVE RetriesStop
  <2> SUFFICES ASSUME NEW s \in Symbols PROVE consecutive[<<s, "OPEN">>] < Saturation
    BY DEF RetriesStop
  <2>1. Past(s) \in SUBSET Threads /\ <<s, "OPEN">> \in RetryKeys /\ limits \in Limits
    BY <1>1 DEF Past, RetryKeys, GuardsTyped
  <2>2. /\ Cardinality(Past(s)) \in Nat /\ Saturation \in Nat
        /\ limits.consecutive \in Nat /\ Cardinality(Threads) \in Nat
    BY <2>1, Crowd, LimitsFit, ThreadsFit
  <2>3. consecutive[<<s, "OPEN">>] \in Nat
    BY <1>1, <2>1, <2>2 DEF GuardsTyped
  <2>4. consecutive[<<s, "OPEN">>] + Cardinality(Past(s))
            <= limits.consecutive + Cardinality(Threads) - 1
    BY <1>1 DEF RetryInv
  <2> QED BY <2>2, <2>3, <2>4 DEF Saturation
<1> QED
  BY <1>1, GuardsWellTyped, RetryInit, RetryNext, PTL DEF GuardsSpec

-----------------------------------------------------------------------------
(* MAX_UNFILLED_PER_SYM: an entry is counted when it passes the check and  *)
(* sent later; the fill that clears the count leaves at most the other     *)
(* threads between the two.                                                *)
Counted(s) == {t \in Threads : /\ pc[t] = "send"
                               /\ order[t].ask = "ENTRY" /\ order[t].sym = s}

UnfilledInv ==
    \A s \in Symbols :
        sinceFill[s] + Cardinality(Counted(s))
            <= Capped(unfilled[s], limits.unfilled_sym) + Cardinality(Threads) - 1

LEMMA UnfilledInit == GuardsInit => UnfilledInv
<1> SUFFICES ASSUME GuardsInit, NEW s \in Symbols
             PROVE  sinceFill[s] + Cardinality(Counted(s))
                        <= Capped(unfilled[s], limits.unfilled_sym) + Cardinality(Threads) - 1
  BY DEF UnfilledInv
<1>1. limits \in Limits
  BY DEF GuardsInit
<1>2. Counted(s) = {} /\ sinceFill[s] = 0 /\ unfilled[s] = 0
  BY DEF GuardsInit, Counted
<1> QED
  BY <1>1, <1>2, LimitsFit, ThreadsFit, FS_EmptySet DEF Capped

LEMMA UnfilledNext == GuardsTyped /\ UnfilledInv /\ [GuardsNext]_guardVars => UnfilledInv'
<1> DEFINE n == Cardinality(Threads)
           cap == limits.unfilled_sym
<1> SUFFICES ASSUME GuardsTyped, UnfilledInv, [GuardsNext]_guardVars, NEW s \in Symbols
             PROVE  sinceFill'[s] + Cardinality(Counted(s)') <= Capped(unfilled'[s], cap) + n - 1
  BY LimitsKept DEF UnfilledInv
<1> DEFINE Goal == sinceFill'[s] + Cardinality(Counted(s)') <= Capped(unfilled'[s], cap) + n - 1
<1>0. /\ Counted(s) \in SUBSET Threads /\ Counted(s)' \in SUBSET Threads
      /\ sinceFill[s] \in Nat /\ sinceFill'[s] \in Nat
      /\ unfilled[s] \in Nat /\ unfilled'[s] \in Nat
      /\ cap \in Nat /\ n \in Nat \ {0}
      /\ Cardinality(Counted(s)) \in Nat /\ Cardinality(Counted(s)') \in Nat
      /\ sinceFill[s] + Cardinality(Counted(s)) <= Capped(unfilled[s], cap) + n - 1
  <2>1. Counted(s) \in SUBSET Threads /\ Counted(s)' \in SUBSET Threads
    BY DEF Counted
  <2>2. limits \in Limits /\ GuardsTyped'
    BY GuardsTypedNext DEF GuardsTyped
  <2>3. /\ sinceFill[s] \in Nat /\ sinceFill'[s] \in Nat
        /\ unfilled[s] \in Nat /\ unfilled'[s] \in Nat
    BY <2>2 DEF GuardsTyped
  <2> QED
    BY <2>1, <2>2, <2>3, LimitsFit, ThreadsFit, Crowd DEF UnfilledInv
<1>1. ASSUME Counted(s)' \subseteq Counted(s), sinceFill'[s] = sinceFill[s],
             unfilled'[s] = unfilled[s]
      PROVE  Goal
  <2>1. Cardinality(Counted(s)') <= Cardinality(Counted(s))
    BY <1>0, <1>1, Crowd
  <2> HIDE DEF n, cap
  <2> QED BY <1>0, <1>1, <2>1 DEF Capped
<1>2. ASSUME UNCHANGED <<pc, order, unfilled, sinceFill>> PROVE Goal
  <2>1. Counted(s)' \subseteq Counted(s)
    BY <1>2 DEF Counted
  <2> QED BY <1>1, <1>2, <2>1
<1>3. ASSUME NEW t \in Threads, NEW step, Advance(t, step), step # "send",
             UNCHANGED <<unfilled, sinceFill>>, \A u \in Threads : u # t => order'[u] = order[u]
      PROVE  Goal
  <2>1. Counted(s)' \subseteq Counted(s)
    BY <1>3, PlacesStep DEF Counted
  <2> QED BY <1>1, <1>3, <2>1
<1>4. ASSUME NEW t \in Threads, NEW sym, NEW ask, Start(t, [sym |-> sym, ask |-> ask])
      PROVE  Goal
  <2>1. \A u \in Threads : u # t => order'[u] = order[u]
    BY <1>4 DEF Start, GuardsTyped
  <2> QED BY <1>3, <1>4, <2>1 DEF Start, breaker, sent
<1>5. ASSUME NEW t \in Threads, AdmitStorm(t) \/ AdmitRate(t) \/ Working(t)
      PROVE  Goal
  <2>1. PICK step : Advance(t, step) /\ step # "send"
    BY <1>5 DEF AdmitStorm, AdmitRate, Working
  <2>2. UNCHANGED <<unfilled, sinceFill, order>>
    BY <1>5 DEF AdmitStorm, AdmitRate, Working, breaker, sent
  <2> QED BY <1>3, <2>1, <2>2
<1>6. ASSUME NEW t \in Threads, NEW lot \in BOOLEAN, Refused(t, lot) PROVE Goal
  BY <1>3, <1>6 DEF Refused, sent
<1>7. ASSUME NEW t \in Threads, Coarse(t) PROVE Goal
  <2> DEFINE o == order[t]
             rate == ~IsExit(o) /\ InWindow(limits.second) > limits.coarse
             run == ~IsExit(o) /\ unfilled[o.sym] + 1 > cap
  <2>0. /\ \A u \in Threads : pc'[u] = IF u = t THEN IF rate \/ run THEN "idle" ELSE "send"
                                       ELSE pc[u]
        /\ order' = order /\ sinceFill' = sinceFill
        /\ unfilled' = IF IsExit(o) \/ rate THEN unfilled
                       ELSE [unfilled EXCEPT ![o.sym] = @ + 1]
    BY <1>7, PlacesStep DEF Coarse, sent
  <2>1. CASE IsExit(o) \/ rate \/ o.sym # s
    <3>1. Counted(s)' \subseteq Counted(s)
      BY <2>0, <2>1 DEF Counted, IsExit
    <3>2. unfilled'[s] = unfilled[s]
      BY <2>0, <2>1 DEF GuardsTyped
    <3> QED BY <1>1, <2>0, <3>1, <3>2
  <2>2. CASE ~IsExit(o) /\ ~rate /\ o.sym = s
    <3>1. unfilled'[s] = unfilled[s] + 1
      BY <2>0, <2>2 DEF GuardsTyped
    <3>2. CASE run
      <4>1. Counted(s)' \subseteq Counted(s)
        BY <2>0, <3>2 DEF Counted
      <4>2. Cardinality(Counted(s)') <= Cardinality(Counted(s))
        BY <1>0, <4>1, Crowd
      <4>3. unfilled[s] + 1 > cap
        BY <2>2, <3>2
      <4> HIDE DEF n, cap
      <4> QED BY <1>0, <2>0, <3>1, <4>2, <4>3 DEF Capped
    <3>3. CASE ~run
      <4>1. Counted(s)' \subseteq Counted(s) \cup {t}
        BY <2>0 DEF Counted
      <4>2. Cardinality(Counted(s)') <= Cardinality(Counted(s)) + 1
        BY <1>0, <4>1, Crowd
      <4>3. unfilled[s] + 1 <= cap
        BY <1>0, <2>2, <3>3
      <4> HIDE DEF n, cap
      <4> QED BY <1>0, <2>0, <3>1, <4>2, <4>3 DEF Capped
    <3> QED BY <3>2, <3>3
  <2> QED BY <2>1, <2>2
<1>8. ASSUME NEW t \in Threads, Send(t) PROVE Goal
  <2>0. /\ \A u \in Threads : pc'[u] = IF u = t THEN "answer" ELSE pc[u]
        /\ pc[t] = "send" /\ order' = order /\ unfilled' = unfilled
        /\ sinceFill' = IF IsExit(order[t]) THEN sinceFill
                        ELSE [sinceFill EXCEPT ![order[t].sym] = @ + 1]
    BY <1>8, PlacesStep DEF Send, breaker
  <2>1. CASE t \in Counted(s)
    <3>1. Counted(s)' \subseteq Counted(s) \ {t}
      BY <2>0 DEF Counted
    <3>2. Cardinality(Counted(s)') + 1 <= Cardinality(Counted(s))
      BY <1>0, <2>1, <3>1, Crowd
    <3>3. sinceFill'[s] = sinceFill[s] + 1
      BY <2>0, <2>1 DEF Counted, IsExit, GuardsTyped
    <3> HIDE DEF n, cap
    <3> QED BY <1>0, <2>0, <3>2, <3>3 DEF Capped
  <2>2. CASE t \notin Counted(s)
    <3>1. IsExit(order[t]) \/ order[t].sym # s
      BY <2>0, <2>2 DEF Counted, IsExit
    <3>2. sinceFill'[s] = sinceFill[s]
      BY <2>0, <3>1 DEF GuardsTyped
    <3>3. Counted(s)' \subseteq Counted(s)
      BY <2>0 DEF Counted
    <3> QED BY <1>1, <2>0, <3>2, <3>3
  <2> QED BY <2>1, <2>2
<1>9. ASSUME NEW t \in Threads, Filled(t) PROVE Goal
  <2>0. /\ \A u \in Threads : pc'[u] = IF u = t THEN "idle" ELSE pc[u]
        /\ order' = order
        /\ unfilled' = [unfilled EXCEPT ![order[t].sym] = 0]
        /\ sinceFill' = [sinceFill EXCEPT ![order[t].sym] = 0]
    BY <1>9, PlacesStep DEF Filled
  <2>1. CASE order[t].sym = s
    <3>1. Counted(s)' \subseteq Threads \ {t}
      BY <2>0 DEF Counted
    <3>2. Cardinality(Counted(s)') + 1 <= n
      BY <1>0, <3>1, Crowd
    <3>3. sinceFill'[s] = 0 /\ unfilled'[s] = 0
      BY <2>0, <2>1 DEF GuardsTyped
    <3> HIDE DEF n, cap
    <3> QED BY <1>0, <3>2, <3>3 DEF Capped
  <2>2. CASE order[t].sym # s
    <3>1. sinceFill'[s] = sinceFill[s] /\ unfilled'[s] = unfilled[s]
      BY <2>0, <2>2 DEF GuardsTyped
    <3>2. Counted(s)' \subseteq Counted(s)
      BY <2>0 DEF Counted
    <3> QED BY <1>1, <3>1, <3>2
  <2> QED BY <2>1, <2>2
<1>10. CASE Tick \/ Midnight \/ OutOfBand
  BY <1>2, <1>10 DEF Tick, Midnight, OutOfBand, breaker, sent
<1>11. CASE UNCHANGED guardVars
  BY <1>2, <1>11 DEF guardVars
<1> QED
  BY <1>3, <1>4, <1>5, <1>6, <1>7, <1>8, <1>9, <1>10, <1>11
  DEF GuardsNext, ThreadStep, Answer

(* Between two fills of a symbol at most MAX_UNFILLED_PER_SYM entries are  *)
(* sent for it, and one more by each other thread that had been counted    *)
(* before the fill cleared the count.                                      *)
THEOREM UnfilledRunEnds == GuardsSpec => []UnfilledBounded
<1>1. ASSUME GuardsTyped, UnfilledInv PROVE UnfilledBounded
  <2> SUFFICES ASSUME NEW s \in Symbols
               PROVE  sinceFill[s] <= limits.unfilled_sym + Cardinality(Threads) - 1
    BY DEF UnfilledBounded
  <2>1. Counted(s) \in SUBSET Threads /\ limits \in Limits
    BY <1>1 DEF Counted, GuardsTyped
  <2>2. /\ Cardinality(Counted(s)) \in Nat /\ limits.unfilled_sym \in Nat
        /\ Cardinality(Threads) \in Nat
    BY <2>1, Crowd, LimitsFit, ThreadsFit
  <2>3. sinceFill[s] \in Nat /\ unfilled[s] \in Nat
    BY <1>1 DEF GuardsTyped
  <2>4. sinceFill[s] + Cardinality(Counted(s))
            <= Capped(unfilled[s], limits.unfilled_sym) + Cardinality(Threads) - 1
    BY <1>1 DEF UnfilledInv
  <2> QED BY <2>2, <2>3, <2>4 DEF Capped
<1> QED
  BY <1>1, GuardsWellTyped, UnfilledInit, UnfilledNext, PTL DEF GuardsSpec

-----------------------------------------------------------------------------
(* The circuit breaker: the entries that had passed its check when it      *)
(* tripped.  The thread that trips it is not one of them.                  *)
Started == {t \in Threads : /\ pc[t] \in {"storm", "rate", "coarse", "send"}
                            /\ order[t].ask = "ENTRY"}

TripInv ==
    IF tripped THEN afterTrip + Cardinality(Started) <= Cardinality(Threads) - 1
    ELSE afterTrip = 0

LEMMA TripNext == GuardsTyped /\ TripInv /\ [GuardsNext]_guardVars => TripInv'
<1> SUFFICES ASSUME GuardsTyped, TripInv, [GuardsNext]_guardVars PROVE TripInv'
  OBVIOUS
<1> DEFINE n == Cardinality(Threads)
<1>0. /\ Started \in SUBSET Threads /\ Started' \in SUBSET Threads
      /\ Cardinality(Started) \in Nat /\ Cardinality(Started') \in Nat /\ n \in Nat \ {0}
      /\ afterTrip \in Nat /\ afterTrip' \in Nat
  <2>1. Started \in SUBSET Threads /\ Started' \in SUBSET Threads
    BY DEF Started
  <2>2. afterTrip \in Nat /\ afterTrip' \in Nat /\ limits \in Limits
    BY GuardsTypedNext DEF GuardsTyped
  <2> QED BY <2>1, <2>2, ThreadsFit, Crowd
<1>1. ASSUME tripped => Started' \subseteq Started, UNCHANGED <<tripped, afterTrip>>
      PROVE  TripInv'
  <2>1. tripped => Cardinality(Started') <= Cardinality(Started)
    BY <1>0, <1>1, Crowd
  <2> QED BY <1>0, <1>1, <2>1 DEF TripInv
<1>2. ASSUME UNCHANGED <<pc, order, tripped, afterTrip>> PROVE TripInv'
  <2>1. Started' \subseteq Started
    BY <1>2 DEF Started
  <2> QED BY <1>1, <1>2, <2>1
<1>3. ASSUME NEW t \in Threads, NEW sym, NEW ask, Start(t, [sym |-> sym, ask |-> ask])
      PROVE  TripInv'
  <2>1. /\ \A u \in Threads : pc'[u] = IF u = t THEN "storm" ELSE pc[u]
        /\ \A u \in Threads : u # t => order'[u] = order[u]
        /\ order'[t].ask = ask /\ (ask = "ENTRY" => ~tripped)
        /\ UNCHANGED <<tripped, afterTrip>>
    BY <1>3, PlacesStep DEF Start, IsExit, GuardsTyped, breaker, sent
  <2>2. tripped => Started' \subseteq Started
    BY <2>1 DEF Started
  <2> QED BY <1>1, <2>1, <2>2
<1>4. ASSUME NEW t \in Threads,
             AdmitStorm(t) \/ AdmitRate(t) \/ Working(t) \/ Filled(t)
                \/ Refused(t, FALSE) \/ Refused(t, TRUE)
      PROVE  TripInv'
  <2>1. PICK step : Advance(t, step) /\ (step = "idle" \/ pc[t] \in {"storm", "rate"})
    BY <1>4 DEF AdmitStorm, AdmitRate, Working, Filled, Refused
  <2>2. UNCHANGED <<tripped, afterTrip, order>>
    BY <1>4 DEF AdmitStorm, AdmitRate, Working, Filled, Refused, breaker, sent
  <2>3. Started' \subseteq Started
    BY <2>1, <2>2, PlacesStep DEF Started
  <2> QED BY <1>1, <2>2, <2>3
<1>5. ASSUME NEW t \in Threads, Coarse(t) PROVE TripInv'
  <2>1. PICK trips \in BOOLEAN :
          /\ \A u \in Threads : pc'[u] = IF u = t THEN IF trips THEN "idle" ELSE "send"
                                         ELSE pc[u]
          /\ tripped' = (tripped \/ trips)
    BY <1>5, PlacesStep DEF Coarse
  <2>2. order' = order /\ afterTrip' = afterTrip /\ pc[t] = "coarse"
    BY <1>5 DEF Coarse, sent
  <2>3. Started' \subseteq Started
    BY <2>1, <2>2 DEF Started
  <2>4. CASE tripped' = tripped
    BY <1>1, <2>2, <2>3, <2>4
  <2>5. CASE tripped' # tripped
    <3>1. trips /\ ~tripped /\ tripped' /\ afterTrip = 0
      BY <2>1, <2>5 DEF TripInv, GuardsTyped
    <3>2. Started' \subseteq Threads \ {t}
      BY <2>1, <3>1 DEF Started
    <3>3. Cardinality(Started') + 1 <= n
      BY <1>0, <3>2, Crowd
    <3> QED BY <1>0, <2>2, <3>1, <3>3 DEF TripInv
  <2> QED BY <2>4, <2>5
<1>6. ASSUME NEW t \in Threads, Send(t) PROVE TripInv'
  <2>1. /\ \A u \in Threads : pc'[u] = IF u = t THEN "answer" ELSE pc[u]
        /\ pc[t] = "send" /\ order' = order /\ tripped' = tripped
        /\ afterTrip' = IF tripped /\ ~IsExit(order[t]) THEN afterTrip + 1 ELSE afterTrip
    BY <1>6, PlacesStep DEF Send, breaker
  <2>2. Started' \subseteq Started
    BY <2>1 DEF Started
  <2>3. CASE tripped /\ ~IsExit(order[t])
    <3>1. t \in Started /\ Started' \subseteq Started \ {t}
      BY <2>1, <2>3 DEF Started, IsExit
    <3>2. Cardinality(Started') + 1 <= Cardinality(Started)
      BY <1>0, <3>1, Crowd
    <3> QED BY <1>0, <2>1, <2>3, <3>2 DEF TripInv
  <2>4. CASE ~(tripped /\ ~IsExit(order[t]))
    BY <1>1, <2>1, <2>2, <2>4
  <2> QED BY <2>3, <2>4
<1>7. CASE Tick \/ Midnight \/ OutOfBand
  BY <1>2, <1>7 DEF Tick, Midnight, OutOfBand, breaker, sent
<1>8. CASE UNCHANGED guardVars
  BY <1>2, <1>8 DEF guardVars
<1> QED
  BY <1>3, <1>4, <1>5, <1>6, <1>7, <1>8 DEF GuardsNext, ThreadStep, Answer

(* A trip is final: at most the entries of the other threads, past the     *)
(* check already, still go out after it.                                   *)
THEOREM TripIsFinal == GuardsSpec => []AfterTripBounded
<1>1. GuardsInit => TripInv
  BY DEF GuardsInit, TripInv
<1>2. ASSUME GuardsTyped, TripInv PROVE AfterTripBounded
  <2>1. Started \in SUBSET Threads /\ afterTrip \in Nat /\ limits \in Limits
    BY <1>2 DEF Started, GuardsTyped
  <2>2. Cardinality(Started) \in Nat /\ Cardinality(Threads) \in Nat \ {0}
    BY <2>1, Crowd, ThreadsFit
  <2> QED BY <1>2, <2>1, <2>2 DEF TripInv, AfterTripBounded
<1> QED
  BY <1>1, <1>2, GuardsWellTyped, TripNext, PTL DEF GuardsSpec
=============================================================================

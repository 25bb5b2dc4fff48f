---------------------------- MODULE OrderRecovery ----------------------------
(***************************************************************************)
(* The deterministic client id of a strategy signal, the registry of ids   *)
(* in flight, and what happens to them when Binance answers, refuses or    *)
(* does not answer.  Callers submit a signal as often as they like; the    *)
(* registry has to keep the exchange from executing it twice.  It is       *)
(* driven by ExecutionGateway::submit as that stands ("gateway") and by    *)
(* the query-first protocol it is written for and tested with              *)
(* ("query_first", tests/order_recovery_test.cpp).                         *)
(***************************************************************************)
EXTENDS Integers

CONSTANTS Signals,  \* orders a strategy wants made once each, signal_id # 0
          Callers,  \* threads that submit them
          Modes     \* the ways to drive the registry and the faults to expect

(* recoverers: the callers that query and feed the answer to the registry; *)
(* dedup: Binance refuses a client id it has executed; late: an unanswered *)
(* request may land afterwards; slow: an id may be in flight beyond        *)
(* timeout_ms_; crashes: the process may die; posts bounds the requests    *)
(* made for a signal.                                                      *)
ASSUME RecoveryAssumption ==
    Modes \subseteq [recoverers : SUBSET Callers,
                    handling : {"gateway", "query_first"},
                    dedup : BOOLEAN, late : BOOLEAN, slow : BOOLEAN, crashes : BOOLEAN,
                    posts : Nat \ {0}]

VARIABLES at,       \* where a caller is with a signal
          inflight, \* state of the signal's id, "none" when absent
          posts,    \* requests made for the signal
          flying,   \* the network: unanswered requests that may still land
          known,    \* the exchange: client ids it has an order for
          execs,    \* the exchange: executions per signal
          booked,   \* the ledger: fills booked per signal
          unsure,   \* observer: the last request went unanswered and was not queried
          blind,    \* observer: a request was made while unsure
          mode      \* one of Modes, fixed at start

exchange == <<flying, known, execs>>
observer == <<unsure, blind>>
vars == <<at, inflight, posts, flying, known, execs, booked, unsure, blind, mode>>

(* Mutant: the id is minted from the clock, anew for every request. *)
ClockId(c, n) == <<c, n>>

(* The id is a function of source, signal, symbol and side, not of the     *)
(* attempt.                                                                *)
IdOf(c, n) == c

TypeOK ==
    /\ at \in [Callers -> [Signals -> {"idle", "checked", "reserved", "found", "absent"}]]
    /\ inflight \in [Signals -> {"none", "SENT", "ACKED", "UNKNOWN"}]
    /\ posts \in [Signals -> 0..mode.posts]
    /\ flying \subseteq Signals \X (1..mode.posts)
    /\ known \subseteq {IdOf(c, n) : c \in Signals, n \in 1..mode.posts}
    /\ execs \in [Signals -> Nat] /\ booked \in [Signals -> Nat]
    /\ unsure \in [Signals -> BOOLEAN] /\ blind \in BOOLEAN /\ mode \in Modes

Init ==
    /\ at = [t \in Callers |-> [c \in Signals |-> "idle"]]
    /\ inflight = [c \in Signals |-> "none"]
    /\ posts = [c \in Signals |-> 0]
    /\ flying = {} /\ known = {} /\ execs = [c \in Signals |-> 0]
    /\ booked = [c \in Signals |-> 0]
    /\ unsure = [c \in Signals |-> FALSE] /\ blind = FALSE
    /\ mode \in Modes

Goto(t, c, step) == at' = [at EXCEPT ![t][c] = step]
Mark(c, s) == inflight' = [inflight EXCEPT ![c] = s]

(* on_result(id, false), on_query_result(id, false): the id is free again. *)
Erase(c) == Mark(c, "none")

(* on_result(id, true), on_query_result(id, true): an id that is not in    *)
(* the registry is not put there.                                          *)
Acknowledge(c) == Mark(c, IF inflight[c] = "none" THEN "none" ELSE "ACKED")

-----------------------------------------------------------------------------
(* submit, up to the request. *)

(* Mutant: an id in flight may be submitted again. *)
OnSubmitAnyway(t, c) ==
    /\ at[t][c] = "idle" /\ Goto(t, c, "checked")
    /\ Mark(c, "SENT")
    /\ UNCHANGED <<posts, exchange, booked, observer>>

(* on_submit; an id in flight is refused, and then nothing changes. *)
OnSubmit(t, c) ==
    /\ at[t][c] = "idle" /\ Goto(t, c, "checked")
    /\ inflight[c] = "none" /\ Mark(c, "SENT")
    /\ UNCHANGED <<posts, exchange, booked, observer>>

(* Cash is there and no later guard objects. *)
Pass(t, c) ==
    /\ at[t][c] = "checked" /\ Goto(t, c, "reserved")
    /\ UNCHANGED <<inflight, posts, exchange, booked, observer>>

(* No cash, or a guard refuses the order. *)
Refuse(t, c) ==
    /\ at[t][c] = "checked" /\ Goto(t, c, "idle")
    /\ Erase(c)
    /\ UNCHANGED <<posts, exchange, booked, observer>>

(* The reservation left less than MIN_NOTIONAL: submit returns and the id  *)
(* stays in the registry.                                                  *)
BelowMinNotional(t, c) ==
    /\ mode.handling = "gateway"
    /\ at[t][c] = "checked" /\ Goto(t, c, "idle")
    /\ UNCHANGED <<inflight, posts, exchange, booked, observer>>

-----------------------------------------------------------------------------
(* The request: place_order holds the REST mutex from sending to answer.   *)

Takes(id) == mode.dedup => id \notin known

Execute(c, id) ==
    /\ execs' = [execs EXCEPT ![c] = @ + 1]
    /\ known' = known \cup {id}

Post(t, c) ==
    /\ at[t][c] = "reserved" /\ posts[c] < mode.posts /\ Goto(t, c, "idle")
    /\ posts' = [posts EXCEPT ![c] = @ + 1]
    /\ blind' = (blind \/ unsure[c])

Answered(t, c) ==
    LET id == IdOf(c, posts[c] + 1) IN
    /\ Post(t, c) /\ Takes(id) /\ Execute(c, id)
    /\ Acknowledge(c)
    /\ booked' = [booked EXCEPT ![c] = @ + 1]
    /\ unsure' = [unsure EXCEPT ![c] = FALSE]
    /\ UNCHANGED flying

Rejected(t, c) ==
    /\ Post(t, c) /\ Erase(c)
    /\ unsure' = [unsure EXCEPT ![c] = FALSE]
    /\ UNCHANGED <<exchange, booked>>

(* Mutant: the query-first caller takes a timeout for a rejection too. *)
LoseAsRejected(c) == Erase(c)

(* No answer: a plain failure to submit, on_timeout to the other caller. *)
Lose(c) ==
    IF mode.handling = "gateway" THEN Erase(c) ELSE Mark(c, "UNKNOWN")

(* The unanswered request was executed, is under way, or never arrives. *)
Lost(t, c) ==
    LET id == IdOf(c, posts[c] + 1) IN
    /\ Post(t, c) /\ Lose(c)
    /\ unsure' = [unsure EXCEPT ![c] = TRUE]
    /\ \/ Takes(id) /\ Execute(c, id) /\ UNCHANGED flying
       \/ mode.late /\ flying' = flying \cup {<<c, posts[c] + 1>>} /\ UNCHANGED <<known, execs>>
       \/ UNCHANGED exchange
    /\ UNCHANGED booked

Land(c, n) ==
    /\ <<c, n>> \in flying /\ flying' = flying \ {<<c, n>>}
    /\ Takes(IdOf(c, n)) /\ Execute(c, IdOf(c, n))
    /\ UNCHANGED <<at, inflight, posts, booked, observer>>

-----------------------------------------------------------------------------
(* Recovery. *)

(* decide asks for a query of an UNKNOWN id, and of one in flight too long.*)
QueryFirst(c) ==
    inflight[c] = "UNKNOWN" \/ (mode.slow /\ inflight[c] \in {"SENT", "ACKED"})

Query(t, c) ==
    /\ t \in mode.recoverers /\ at[t][c] = "idle" /\ QueryFirst(c)
    /\ Goto(t, c, IF IdOf(c, posts[c]) \in known THEN "found" ELSE "absent")
    /\ UNCHANGED <<inflight, posts, exchange, booked, observer>>

OnQueryResult(t, c) ==
    /\ at[t][c] \in {"found", "absent"} /\ Goto(t, c, "idle")
    /\ IF at[t][c] = "absent" THEN Erase(c) ELSE Acknowledge(c)
    /\ unsure' = [unsure EXCEPT ![c] = FALSE]
    /\ UNCHANGED <<posts, exchange, booked, blind>>

(* The registry is memory only. *)
Crash ==
    /\ mode.crashes
    /\ at' = [t \in Callers |-> [c \in Signals |-> "idle"]]
    /\ inflight' = [c \in Signals |-> "none"]
    /\ UNCHANGED <<posts, exchange, booked, observer>>

-----------------------------------------------------------------------------
Step(t, c) ==
    \/ OnSubmit(t, c) \/ Pass(t, c) \/ Refuse(t, c) \/ BelowMinNotional(t, c)
    \/ Answered(t, c) \/ Rejected(t, c) \/ Lost(t, c)
    \/ Query(t, c) \/ OnQueryResult(t, c)

Next ==
    /\ \/ \E t \in Callers, c \in Signals : Step(t, c)
       \/ \E c \in Signals, n \in 1..mode.posts : Land(c, n)
       \/ Crash
    /\ UNCHANGED mode

Spec == Init /\ [][Next]_vars

-----------------------------------------------------------------------------
InHand(c) == \E t \in Callers : at[t][c] # "idle"

(* The protocol of the registry's header, kept by one recovering thread    *)
(* whose requests are dead once they went unanswered.                      *)
Protocol ==
    /\ mode.handling = "query_first" /\ (\E t \in Callers : mode.recoverers = {t})
    /\ ~mode.late /\ ~mode.slow /\ ~mode.crashes

(* However often a signal is submitted, and whatever is lost or repeated,  *)
(* the exchange executes it at most once: because it refuses an executed   *)
(* id, or because the protocol is kept (OrderIdRegistry.hpp:6-15).         *)
AtMostOnce == mode.dedup \/ Protocol => \A c \in Signals : execs[c] <= 1

(* Under the protocol no request goes out for an id whose last request     *)
(* went unanswered, until the exchange was asked (OrderIdRegistry.hpp:12-15).*)
NeverBlind == Protocol => ~blind

(* Between submissions the ledger has booked what the exchange executed    *)
(* (ExecutionGateway.hpp:488-523, the only place submit books a fill).     *)
LedgerLearns == \A c \in Signals : ~InHand(c) => booked[c] = execs[c]

(* An id nobody is submitting is in the registry only if its order was     *)
(* executed or may have been (OrderIdRegistry.hpp:61-66).                  *)
RefusedIdIsFree ==
    \A c \in Signals : ~InHand(c) /\ execs[c] = 0 /\ ~unsure[c] => inflight[c] = "none"
=============================================================================

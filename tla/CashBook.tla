------------------------------ MODULE CashBook ------------------------------
(***************************************************************************)
(* What ExchangeLedger promises about cash, without its counters: every    *)
(* open buy order holds an amount of cash that nobody else may hold, cash  *)
(* leaves the book only out of the hold of the order that spends it, and   *)
(* the holds together never exceed the cash there is.                      *)
(***************************************************************************)
EXTENDS Integers, FiniteSets, Totals

CONSTANTS Holders,      \* who may hold cash (client ids of buy orders)
          InitialCash   \* cash at configuration

VARIABLES cash, hold

bookVars == <<cash, hold>>

Held == Total(hold, Holders)

Init == cash = InitialCash /\ hold = [c \in Holders |-> 0]

(* A new order may take only cash that no other order holds. *)
Commit(c) == \E a \in 1..(cash - Held) :
    /\ hold' = [hold EXCEPT ![c] = @ + a]
    /\ UNCHANGED cash

(* An order spends out of its own hold, keeps some of the rest and frees the rest. *)
Settle(c) == \E spent \in 0..hold[c] : \E kept \in 0..(hold[c] - spent) :
    /\ cash' = cash - spent
    /\ hold' = [hold EXCEPT ![c] = kept]

Income == cash' >= cash /\ cash' \in Int /\ UNCHANGED hold

Next == Income \/ \E c \in Holders : Commit(c) \/ Settle(c)

Spec == Init /\ [][Next]_bookVars

(* No two orders hold the same cash: the holds never add up to more than   *)
(* the book has (ExchangeLedger.hpp:15, three sleeves sharing one capital). *)
Solvent == Held <= cash
=============================================================================

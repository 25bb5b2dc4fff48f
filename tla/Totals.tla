------------------------------- MODULE Totals -------------------------------
(* Sums of natural-valued functions over finite sets, written so that they *)
(* can be reasoned about without induction.                                *)
EXTENDS Integers, FiniteSets

(* One distinct pair for every unit that f gives to an element of S. *)
Units(f, S) == UNION {{c} \X (1..f[c]) : c \in S}

(* The sum of f[c] over the elements c of S. *)
Total(f, S) == Cardinality(Units(f, S))
=============================================================================

------------------------------- MODULE Tally -------------------------------
(***************************************************************************)
(* Adding up amounts of base units.  The ledger, the reports and the       *)
(* on-chain balances of this system are all whole numbers of indivisible   *)
(* units, so the sum of f over a finite set S is written as the number of  *)
(* units there are: pairs of a holder x \in S and one of its f[x] units.   *)
(* The definition needs no recursion, so its laws follow from those of     *)
(* Cardinality (TallyProofs).                                              *)
(***************************************************************************)
EXTENDS Naturals, FiniteSets

(* The individual units that the members of S hold under f.                *)
Units(f, S) == UNION { {x} \X (1 .. f[x]) : x \in S }

(* The sum of f[x] over x \in S, for a finite S and natural numbers f[x].  *)
Total(f, S) == Cardinality(Units(f, S))
=============================================================================

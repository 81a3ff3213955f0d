---- MODULE Accruals ----
(***************************************************************************)
(* What the coordinator and the distribute command share: the column       *)
(* `accrued` of the accrual ledger, one row per wallet, which the one      *)
(* writes and the other reads (packages/coordinator/src/store-sqlite.ts).  *)
(***************************************************************************)
EXTENDS Integers

CONSTANT Wallet    \* the wallets that nodes report under, one each

VARIABLE accrued   \* units ever credited to a wallet; 0 if it has no row

(* Mutated form: the upsert replaces the row.                              *)
CreditRowReplaces(w, n) == accrued' = [accrued EXCEPT ![w] = n]

(* creditEarnings: an upsert that adds to the row and touches no other.    *)
CreditRow(w, n) == accrued' = [accrued EXCEPT ![w] = @ + n]
====

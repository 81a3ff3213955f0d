------------------------------- MODULE Payout -------------------------------
(***************************************************************************)
(* What paying out the ledger promises, without passes, transactions or    *)
(* failures: wallets earn units, units are sent to wallets, and the books  *)
(* record what was sent.  The books may lag behind the chain, they never   *)
(* run ahead of it.  In a strict payout nobody is sent more than it earned *)
(* either: that is the promise of a 1:1 distribution that can be rerun.    *)
(***************************************************************************)
EXTENDS Naturals

CONSTANT Wallet

VARIABLES
  strict,   \* TRUE if nobody may be sent more than it earned
  earned,   \* units credited to a wallet for its work
  sent,     \* units it received on chain
  booked    \* units the ledger records as paid

payoutVars == <<strict, earned, sent, booked>>

Init ==
  /\ strict \in BOOLEAN
  /\ earned = [w \in Wallet |-> 0]
  /\ sent = [w \in Wallet |-> 0]
  /\ booked = [w \in Wallet |-> 0]

(* Exactly one row of f grows.                                             *)
GrowsAt(f, g, w) == g = [f EXCEPT ![w] = g[w]] /\ g[w] > f[w]

Earn ==
  /\ \E w \in Wallet : GrowsAt(earned, earned', w)
  /\ UNCHANGED <<strict, sent, booked>>

(* One transaction pays several wallets at once.                           *)
Send ==
  /\ DOMAIN sent' = Wallet
  /\ \A w \in Wallet : sent'[w] >= sent[w]
  /\ strict => \A w \in Wallet : sent'[w] <= earned[w]
  /\ UNCHANGED <<strict, earned, booked>>

Book ==
  /\ \E w \in Wallet : GrowsAt(booked, booked', w) /\ booked'[w] <= sent[w]
  /\ UNCHANGED <<strict, earned, sent>>

Next == Earn \/ Send \/ Book

Spec == Init /\ [][Next]_payoutVars
=============================================================================

---------------------------- MODULE PayoutProofs ----------------------------
(***************************************************************************)
(* Distribute implements Payout, for every set of wallets and passes,      *)
(* every pool, chunk size and combination of faults: what was sent is what *)
(* landed, the books follow it one row at a time, and a strict payout      *)
(* sends nobody more than it has earned.                                   *)
(***************************************************************************)
EXTENDS DistributeProofs

Strict == OneToOne /\ setup.faults \subseteq {"rpc"}
Sent   == [w \in Wallet |-> Received(w)]

(* The passes that broadcast a transfer to w which may land or has.        *)
EverFor(w) ==
  { r \in Run : \E c \in SUBSET Wallet : w \in c /\ <<r, c>> \in inflight \cup landed }

LEMMA ReceivedType ==
  ASSUME DistributeTypeOK, NEW w \in Wallet
  PROVE  Received(w) \in Nat
<1>1. LandedFor(w) \subseteq Run /\ IsFiniteSet(LandedFor(w))
  BY DistributeAssumption, FS_Subset DEF LandedFor
<1> DEFINE given == [r \in Run |-> share[r][w]]
<1>2. \A r \in LandedFor(w) : given[r] \in Nat
  BY <1>1 DEF DistributeTypeOK
<1> HIDE DEF given
<1>3. Total(given, LandedFor(w)) \in Nat
  BY <1>1, <1>2, TotalNat
<1> QED
  BY <1>3 DEF Received, given

(* In a strict payout, whatever a wallet has been sent and may yet receive *)
(* is covered by what it earned: it is marked paid, or waits to be marked  *)
(* by the one pass at work, for which there is room.                       *)
LEMMA StrictlyCovered ==
  ASSUME BooksInv, Strict, NEW w \in Wallet
  PROVE  Total([r \in Run |-> share[r][w]], EverFor(w)) <= accrued[w]
<1> DEFINE given == [r \in Run |-> share[r][w]]
<1>1. /\ \A r, q \in Run : pc[r] \in Running /\ pc[q] \in Running => r = q
      /\ paid[w] <= accrued[w]
      /\ \A r \in Run : w \in Pending(r) => paid[w] + share[r][w] <= accrued[w]
  BY DEF BooksInv, SnapshotsFit, Strict, MayFail
<1>2. Dependable
  BY DEF Strict, Dependable
<1>3. ASSUME NEW r \in EverFor(w)
      PROVE  r \in MarkedFor(w) \/ (w \in Pending(r) /\ pc[r] \in Running)
  <2>1. PICK c \in SUBSET Wallet : w \in c /\ r \in Run /\ <<r, c>> \in inflight \cup landed
    BY DEF EverFor
  <2>2. \/ w \in succeeded[r]
        \/ pc[r] = "confirm" /\ c = chunk[r]
        \/ pc[r] = "mark" /\ w \in unmarked[r]
    BY <1>2, <2>1 DEF BooksInv, ReportInv, SentIsMarked
  <2> QED
    BY <2>1, <2>2 DEF MarkedFor, Pending, Running
<1>4. /\ paid[w] = Total(given, MarkedFor(w))
      /\ MarkedFor(w) \subseteq Run /\ IsFiniteSet(MarkedFor(w))
      /\ EverFor(w) \subseteq Run /\ IsFiniteSet(EverFor(w))
      /\ \A r \in Run : given[r] \in Nat /\ given[r] = share[r][w]
      /\ paid[w] \in Nat /\ accrued[w] \in Nat
  <2>1. MarkedFor(w) \subseteq Run /\ EverFor(w) \subseteq Run
    BY DEF MarkedFor, EverFor
  <2>2. IsFiniteSet(MarkedFor(w)) /\ IsFiniteSet(EverFor(w))
    BY <2>1, DistributeAssumption, FS_Subset
  <2>3. paid[w] = Total(given, MarkedFor(w))
    BY DEF BooksInv, PaidIsWhatWasMarked
  <2>4. /\ \A r \in Run : given[r] \in Nat /\ given[r] = share[r][w]
        /\ paid[w] \in Nat /\ accrued[w] \in Nat
    BY DEF BooksInv, DistributeTypeOK
  <2> QED
    BY <2>1, <2>2, <2>3, <2>4
<1>5. Total(given, EverFor(w)) \in Nat
  <2> HIDE DEF given
  <2> QED
    BY <1>4, TotalNat
<1>6. CASE EverFor(w) \subseteq MarkedFor(w)
  <2> HIDE DEF given
  <2>1. Total(given, EverFor(w)) <= Total(given, MarkedFor(w))
    BY <1>4, <1>6, TotalMonotone
  <2> QED
    BY <1>1, <1>4, <1>5, <2>1 DEF given
<1>7. CASE ~(EverFor(w) \subseteq MarkedFor(w))
  <2>1. PICK q \in EverFor(w) : q \notin MarkedFor(w)
    BY <1>7
  <2>2. q \in Run /\ w \in Pending(q) /\ pc[q] \in Running
    BY <1>3, <1>4, <2>1
  <2>3. EverFor(w) \subseteq MarkedFor(w) \cup {q}
    BY <1>1, <1>3, <1>4, <2>2
  <2> HIDE DEF given
  <2>4. Total(given, MarkedFor(w) \cup {q}) = paid[w] + given[q]
    <3>1. q \notin MarkedFor(w) /\ IsFiniteSet(MarkedFor(w))
      BY <1>4, <2>1
    <3>2. \A x \in MarkedFor(w) \cup {q} : given[x] \in Nat
      BY <1>4, <2>2
    <3>3. Total(given, MarkedFor(w) \cup {q}) = Total(given, MarkedFor(w)) + given[q]
      BY <3>1, <3>2, TotalAdd
    <3> QED
      BY <1>4, <3>3
  <2>5. IsFiniteSet(MarkedFor(w) \cup {q})
    BY <1>4, FS_AddElement
  <2>6. Total(given, EverFor(w)) <= Total(given, MarkedFor(w) \cup {q})
    BY <1>4, <2>2, <2>3, <2>5, TotalMonotone
  <2>7. paid[w] + given[q] <= accrued[w]
    BY <1>1, <1>4, <2>2
  <2> QED
    BY <1>4, <1>5, <2>2, <2>4, <2>6, <2>7 DEF given
<1> QED
  BY <1>6, <1>7

(* A plan changes only before a pass has sent anything.                    *)
LEMMA ReceivedSame ==
  ASSUME BooksInv, UNCHANGED landed,
         \A r \in Run : pc[r] # "idle" => share'[r] = share[r],
         NEW w \in Wallet
  PROVE  Received(w)' = Received(w)
<1>1. LandedFor(w)' = LandedFor(w)
  BY DEF LandedFor
<1>2. \A r \in LandedFor(w) : r \in Run /\ share'[r] = share[r]
  BY DEF LandedFor, BooksInv, EachPlanOnce
<1> DEFINE given == [r \in Run |-> share[r][w]]
           givenNext == [r \in Run |-> share'[r][w]]
<1>3. \A r \in LandedFor(w) : given[r] = givenNext[r]
  BY <1>2
<1> HIDE DEF given, givenNext
<1>4. Total(given, LandedFor(w)) = Total(givenNext, LandedFor(w))
  BY <1>3, TotalSame
<1> QED
  BY <1>1, <1>4 DEF Received, given, givenNext

LEMMA OnlyLandLands ==
  ASSUME [DistributeNext]_distribution, \A tx \in inflight : ~Land(tx)
  PROVE  /\ UNCHANGED landed
         /\ \A r \in Run : pc[r] # "idle" => share'[r] = share[r]
<1>1. CASE \A r \in Run, pool \in setup.pools : ~Plan(r, pool) /\ ~DryRun(r, pool)
  <2>1. UNCHANGED <<landed, share>>
    BY <1>1 DEF DistributeNext, distribution, payments, Start, Step, ledger, memory, report, chain,
         Accrue, CreditRow, NothingUnpaid, StartFails, Send, SendFails, Confirm,
         ConfirmFails, MarkPaid, MarkPaidFails, EndPass, Crash, Settle, Expire
  <2> QED
    BY <2>1
<1>2. ASSUME NEW r \in Run, NEW pool \in setup.pools, Plan(r, pool) \/ DryRun(r, pool)
      PROVE  /\ UNCHANGED landed
             /\ \A q \in Run : pc[q] # "idle" => share'[q] = share[q]
  <2>1. pc[r] = "idle" /\ UNCHANGED landed
    BY <1>2 DEF Plan, DryRun, MayStart, chain
  <2>2. \E split : share' = [share EXCEPT ![r] = split]
    BY <1>2 DEF Plan, DryRun
  <2> QED
    BY <2>1, <2>2
<1> QED
  BY <1>1, <1>2

LEMMA NextBooksInv == BooksInv /\ [DistributeNext]_distribution => BooksInv'
BY NextDistributeTypeOK, NextEachPlanOnce, NextMarkedHasLanded, NextPaidIsWhatWasMarked,
   NextSnapshotsFit, NextReport DEF BooksInv

(* What each step is to the promise: a credit earns, a landing transaction *)
(* sends, a mark books, and nothing else can be seen.                      *)
LEMMA CreditEarns ==
  ASSUME BooksInv, UNCHANGED setup, NEW w \in Wallet, NEW n \in Credits,
         Accrue(w, n)
  PROVE  Promise!Earn
<1>1. /\ accrued \in [Wallet -> Nat] /\ n \in Nat /\ n > 0
      /\ accrued' = [accrued EXCEPT ![w] = @ + n]
      /\ UNCHANGED <<paid, landed, share>>
  BY DistributeAssumption
     DEF BooksInv, DistributeTypeOK, Accrue, CreditRow, memory, chain
<1>2. Promise!GrowsAt(accrued, accrued', w)
  BY <1>1 DEF Promise!GrowsAt
<1>3. \A v \in Wallet : Received(v)' = Received(v)
  BY <1>1, ReceivedSame
<1>4. UNCHANGED Sent /\ UNCHANGED (OneToOne /\ setup.faults \subseteq {"rpc"})
  BY <1>3 DEF Sent, OneToOne
<1> QED
  BY <1>1, <1>2, <1>4 DEF Promise!Earn, Sent

LEMMA MarkBooks ==
  ASSUME BooksInv, [DistributeNext]_distribution, UNCHANGED setup, NEW r \in Run, MarkPaid(r)
  PROVE  Promise!Book
<1>1. PICK w \in unmarked[r] : paid' = [paid EXCEPT ![w] = @ + share[r][w]]
  BY DEF MarkPaid
<1>2. /\ w \in Wallet /\ paid \in [Wallet -> Nat] /\ share[r][w] \in Nat
      /\ pc[r] = "mark" /\ UNCHANGED <<accrued, landed, share>>
  BY <1>1 DEF BooksInv, DistributeTypeOK, MarkPaid, chain
<1>3. share[r][w] > 0
  <2>1. w \in Pending(r)
    BY <1>1, <1>2 DEF Pending, Running
  <2> QED
    BY <2>1 DEF BooksInv, ReportInv, PlansAreOwed
<1>4. Promise!GrowsAt(paid, paid', w)
  BY <1>1, <1>2, <1>3 DEF Promise!GrowsAt
<1>5. \A v \in Wallet : Received(v)' = Received(v)
  BY <1>2, ReceivedSame
<1>6. UNCHANGED Sent /\ UNCHANGED (OneToOne /\ setup.faults \subseteq {"rpc"})
  BY <1>5 DEF Sent, OneToOne
<1>7. paid'[w] <= Received(w)
  <2>1. PaidIsOnChain'
    <3>1. BooksInv'
      BY NextBooksInv
    <3> QED
      BY <3>1, BooksInvSuffices, PTL
  <2> QED
    BY <1>2, <1>5, <2>1 DEF PaidIsOnChain
<1> QED
  BY <1>2, <1>4, <1>6, <1>7 DEF Promise!Book, Sent

LEMMA LandSends ==
  ASSUME BooksInv, UNCHANGED setup, NEW tx \in inflight, Land(tx)
  PROVE  Promise!Send
<1>1. /\ landed' = landed \cup {tx}
      /\ UNCHANGED <<accrued, paid, share>>
  BY DEF Land, ledger, memory
<1>2. \A w \in Wallet : Received(w)' >= Received(w)
  <2> TAKE w \in Wallet
  <2> DEFINE given == [r \in Run |-> share[r][w]]
  <2>1. LandedFor(w) \subseteq LandedFor(w)'
    BY <1>1 DEF LandedFor
  <2>2. IsFiniteSet(LandedFor(w)') /\ \A r \in LandedFor(w)' : given[r] \in Nat
    <3>1. LandedFor(w)' \subseteq Run
      BY DEF LandedFor
    <3> QED
      BY <3>1, DistributeAssumption, FS_Subset DEF BooksInv, DistributeTypeOK
  <2>3. Received(w) = Total(given, LandedFor(w)) /\ Received(w)' = Total(given, LandedFor(w)')
    BY <1>1 DEF Received
  <2> HIDE DEF given
  <2>4. Total(given, LandedFor(w)) <= Total(given, LandedFor(w)')
    BY <2>1, <2>2, TotalMonotone
  <2>5. Total(given, LandedFor(w)) \in Nat /\ Total(given, LandedFor(w)') \in Nat
    <3>1. IsFiniteSet(LandedFor(w)) /\ \A r \in LandedFor(w) : given[r] \in Nat
      BY <2>1, <2>2, FS_Subset
    <3> QED
      BY <2>2, <3>1, TotalNat
  <2> QED
    BY <2>3, <2>4, <2>5
<1>3. Strict => \A w \in Wallet : Received(w)' <= accrued[w]
  <2> SUFFICES ASSUME Strict, NEW w \in Wallet
               PROVE  Received(w)' <= accrued[w]
    OBVIOUS
  <2> DEFINE given == [r \in Run |-> share[r][w]]
  <2>1. LandedFor(w)' \subseteq EverFor(w)
    BY <1>1 DEF LandedFor, EverFor
  <2>2. IsFiniteSet(EverFor(w)) /\ \A r \in EverFor(w) : given[r] \in Nat
    <3>1. EverFor(w) \subseteq Run
      BY DEF EverFor
    <3> QED
      BY <3>1, DistributeAssumption, FS_Subset DEF BooksInv, DistributeTypeOK
  <2>3. Received(w)' = Total(given, LandedFor(w)')
    BY <1>1 DEF Received
  <2>4. Total(given, EverFor(w)) <= accrued[w]
    BY StrictlyCovered
  <2> HIDE DEF given
  <2>5. Total(given, LandedFor(w)') <= Total(given, EverFor(w))
    BY <2>1, <2>2, TotalMonotone
  <2>6. /\ Total(given, LandedFor(w)') \in Nat /\ Total(given, EverFor(w)) \in Nat
    <3>1. IsFiniteSet(LandedFor(w)') /\ \A r \in LandedFor(w)' : given[r] \in Nat
      BY <2>1, <2>2, FS_Subset
    <3> QED
      BY <2>2, <3>1, TotalNat
  <2>7. accrued[w] \in Nat
    BY DEF BooksInv, DistributeTypeOK
  <2> QED
    BY <2>3, <2>4, <2>5, <2>6, <2>7
<1>4. UNCHANGED (OneToOne /\ setup.faults \subseteq {"rpc"})
  BY DEF OneToOne
<1> QED
  BY <1>1, <1>2, <1>3, <1>4 DEF Promise!Send, Sent, Strict

LEMMA OthersUnseen ==
  ASSUME BooksInv, [DistributeNext]_distribution,
         \A w \in Wallet, n \in Credits : ~Accrue(w, n),
         \A r \in Run : ~MarkPaid(r), \A tx \in inflight : ~Land(tx)
  PROVE  UNCHANGED Promise!payoutVars
<1>1. UNCHANGED setup
  BY DEF DistributeNext, distribution
<1>2. UNCHANGED paid
  BY OnlyMarkPaidMarks
<1>3. UNCHANGED accrued
  BY DEF DistributeNext, distribution, payments, Start, Step, ledger, NothingUnpaid, Plan, DryRun,
       StartFails, Send, SendFails, Confirm, ConfirmFails, MarkPaidFails, EndPass,
       Crash, Settle, Expire
<1>4. \A w \in Wallet : Received(w)' = Received(w)
  BY OnlyLandLands, ReceivedSame
<1>5. UNCHANGED Sent /\ UNCHANGED (OneToOne /\ setup.faults \subseteq {"rpc"})
  BY <1>1, <1>4 DEF Sent, OneToOne
<1> QED
  BY <1>2, <1>3, <1>5 DEF Promise!payoutVars, Sent

(* The command keeps the promise of Payout, whatever fails, crashes or     *)
(* overlaps and whatever is credited meanwhile: the books follow the chain *)
(* one row at a time and never run ahead of it, and with one dependable    *)
(* pass at a time nobody is sent more than it has earned.                  *)
THEOREM PayoutIsKept == DistributeSpec => ImplementsPayout
<1>1. DistributeInit => Promise!Init
  <2> SUFFICES ASSUME DistributeInit
               PROVE  Promise!Init
    OBVIOUS
  <2>1. \A w \in Wallet : Received(w) = 0
    <3> TAKE w \in Wallet
    <3>1. LandedFor(w) = {}
      BY DEF DistributeInit, LandedFor
    <3> QED
      BY <3>1, TotalEmpty DEF Received
  <2> QED
    BY <2>1 DEF DistributeInit, Promise!Init
<1>2. BooksInv /\ [DistributeNext]_distribution => [Promise!Next]_(Promise!payoutVars)
  <2> SUFFICES ASSUME BooksInv, [DistributeNext]_distribution
               PROVE  Promise!Next \/ UNCHANGED Promise!payoutVars
    OBVIOUS
  <2>0. UNCHANGED setup
    BY DEF DistributeNext, distribution
  <2>1. ASSUME NEW w \in Wallet, NEW n \in Credits, Accrue(w, n)
        PROVE  Promise!Next
    BY <2>0, <2>1, CreditEarns DEF Promise!Next
  <2>2. ASSUME NEW r \in Run, MarkPaid(r)
        PROVE  Promise!Next
    BY <2>0, <2>2, MarkBooks DEF Promise!Next
  <2>3. ASSUME NEW tx \in inflight, Land(tx)
        PROVE  Promise!Next
    BY <2>0, <2>3, LandSends DEF Promise!Next
  <2> QED
    BY <2>1, <2>2, <2>3, OthersUnseen
<1> QED
  BY <1>1, <1>2, BooksInvariant, PTL DEF DistributeSpec, ImplementsPayout, Promise!Spec
-----------------------------------------------------------------------------
(* When rerunning the command is as safe as README.md:312-313 says.        *)
DependableReruns == setup.faults \subseteq {"rpc"} => RerunsAreSafe

(* What has landed is among what was ever broadcast, so it is covered too. *)
LEMMA LandedIsCovered ==
  ASSUME BooksInv, Strict, NEW w \in Wallet
  PROVE  Received(w) <= accrued[w]
<1> DEFINE given == [r \in Run |-> share[r][w]]
<1>1. LandedFor(w) \subseteq EverFor(w)
  BY DEF LandedFor, EverFor
<1>2. IsFiniteSet(EverFor(w)) /\ \A r \in EverFor(w) : given[r] \in Nat
  <2>1. EverFor(w) \subseteq Run
    BY DEF EverFor
  <2> QED
    BY <2>1, DistributeAssumption, FS_Subset DEF BooksInv, DistributeTypeOK
<1>3. Total(given, EverFor(w)) <= accrued[w]
  BY StrictlyCovered
<1> HIDE DEF given
<1>4. Total(given, LandedFor(w)) <= Total(given, EverFor(w))
  BY <1>1, <1>2, TotalMonotone
<1>5. Total(given, EverFor(w)) \in Nat
  BY <1>2, TotalNat
<1>6. Received(w) \in Nat /\ accrued[w] \in Nat
  BY ReceivedType DEF BooksInv, DistributeTypeOK
<1> QED
  BY <1>3, <1>4, <1>5, <1>6 DEF Received, given

(* README.md:312-313, "Reruns are safe", holds as long as the RPC fails    *)
(* only before a transaction is broadcast, no statement throws, no pass    *)
(* dies and none overlaps another: however often a 1:1 distribution is     *)
(* rerun, and whatever is credited between and during the passes, nobody   *)
(* has received more than it has earned.                                   *)
THEOREM RerunsAreSafeWhenConfirmed == DistributeSpec => []DependableReruns
<1>1. BooksInv => DependableReruns
  BY LandedIsCovered DEF DependableReruns, RerunsAreSafe, Strict
<1> QED
  BY <1>1, BooksInvariant, PTL
=============================================================================

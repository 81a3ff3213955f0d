-------------------------- MODULE DistributeProofs --------------------------
(***************************************************************************)
(* Theorems about Distribute for every set of wallets and passes and every  *)
(* environment: chunk size, pools, and combination of faults.              *)
(***************************************************************************)
EXTENDS Distribute, TallyProofs, FunctionTheorems

(* What is owed is a natural number for every wallet.                      *)
LEMMA OutstandingType ==
  ASSUME DistributeTypeOK
  PROVE  Outstanding \in [Wallet -> Nat]
BY DEF DistributeTypeOK, Outstanding, Unpaid

LEMMA PoolType ==
  ASSUME DistributeTypeOK, NEW pool \in setup.pools
  PROVE  pool \in Nat \cup {NoPool}
BY DistributeAssumption DEF DistributeTypeOK, Setup

(* Something is owed in all when a row is unpaid: the division by the      *)
(* total in proportionalSplit is defined.                                  *)
LEMMA TotalOwedPositive ==
  ASSUME DistributeTypeOK, Unpaid # {}
  PROVE  Total(Outstanding, Wallet) \in Nat \ {0}
<1> DEFINE owed == Outstanding
<1>1. owed \in [Wallet -> Nat]
  BY OutstandingType
<1>2. IsFiniteSet(Wallet)
  BY DistributeAssumption
<1>3. PICK w \in Wallet : owed[w] > 0
  BY DEF Unpaid, Outstanding, DistributeTypeOK
<1> HIDE DEF owed
<1>4. Total(owed, {} \cup {w}) = Total(owed, {}) + owed[w]
  BY <1>1, FS_EmptySet, TotalAdd
<1>5. Total(owed, {}) = 0
  BY TotalEmpty
<1>6. Total(owed, {w}) = owed[w]
  BY <1>1, <1>4, <1>5
<1>7. Total(owed, {w}) <= Total(owed, Wallet)
  BY <1>1, <1>2, TotalMonotone
<1>8. Total(owed, Wallet) \in Nat
  BY <1>1, <1>2, TotalNat
<1> QED
  BY <1>1, <1>3, <1>6, <1>7, <1>8 DEF owed

(* Whatever the pool, a pass gives every wallet a natural number of units. *)
LEMMA SplitMapType ==
  ASSUME DistributeTypeOK, Unpaid # {}, NEW pool \in setup.pools
  PROVE  SplitMap(pool) \in [Wallet -> Nat]
<1>1. CASE pool = NoPool
  BY <1>1, OutstandingType DEF SplitMap
<1>2. CASE pool # NoPool
  <2>1. pool \in Nat
    BY <1>2, PoolType
  <2> DEFINE total == Total(Outstanding, Wallet)
  <2>2. total \in Nat \ {0}
    BY TotalOwedPositive
  <2> HIDE DEF total
  <2>3. ASSUME NEW w \in Wallet
        PROVE  (Outstanding[w] * pool) \div total \in Nat
    <3>1. Outstanding[w] \in Nat
      BY OutstandingType
    <3>2. \A m, n \in Nat : m * n \in Nat
      OBVIOUS
    <3>3. Outstanding[w] * pool \in Nat
      BY <2>1, <3>1, <3>2
    <3>4. \A m \in Nat, n \in Nat \ {0} : m \div n \in Nat
      OBVIOUS
    <3> QED
      BY <2>2, <3>3, <3>4
  <2> QED
    BY <1>2, <2>3 DEF SplitMap, ProportionalSplit, total
<1> QED
  BY <1>1, <1>2

-----------------------------------------------------------------------------
(* Type correctness                                                        *)

LEMMA InitTypeOK == DistributeInit => DistributeTypeOK
BY DEF DistributeInit, DistributeTypeOK, Tx

LEMMA NextDistributeTypeOK == DistributeTypeOK /\ [DistributeNext]_distribution => DistributeTypeOK'
<1> SUFFICES ASSUME DistributeTypeOK, [DistributeNext]_distribution
             PROVE  DistributeTypeOK'
  OBVIOUS
<1>0. setup' = setup
  BY DEF DistributeNext, distribution
<1> USE <1>0 DEF DistributeTypeOK, Tx, Running, Ended, ledger, memory, report, chain
<1>1. ASSUME NEW w \in Wallet, NEW n \in Credits, Accrue(w, n)
      PROVE  DistributeTypeOK'
  BY <1>1, DistributeAssumption DEF Accrue, CreditRow
<1>2. ASSUME NEW r \in Run, NothingUnpaid(r)
      PROVE  DistributeTypeOK'
  BY <1>2 DEF NothingUnpaid
<1>3. ASSUME NEW r \in Run, NEW pool \in setup.pools, Plan(r, pool)
      PROVE  DistributeTypeOK'
  <2>1. SplitMap(pool) \in [Wallet -> Nat]
    BY <1>3, SplitMapType DEF Plan
  <2>2. Chunked(Plans(pool)) \subseteq Wallet
    BY DEF Plans, Chunked
  <2>3. share' \in [Run -> [Wallet -> Nat]]
    BY <1>3, <2>1 DEF Plan
  <2>4. todo' \in [Run -> SUBSET Wallet]
    BY <1>3, <2>2 DEF Plan
  <2>5. pc' \in [Run -> {"idle"} \cup Running \cup Ended]
    BY <1>3 DEF Plan
  <2>6. UNCHANGED <<ledger, chunk, unmarked, report, chain>>
    BY <1>3 DEF Plan
  <2> QED
    BY <2>3, <2>4, <2>5, <2>6
<1>4. ASSUME NEW r \in Run, NEW pool \in setup.pools, DryRun(r, pool)
      PROVE  DistributeTypeOK'
  <2>1. share' \in [Run -> [Wallet -> Nat]]
    BY <1>4, SplitMapType DEF DryRun
  <2>2. pc' \in [Run -> {"idle"} \cup Running \cup Ended]
    BY <1>4 DEF DryRun
  <2> QED
    BY <1>4, <2>1, <2>2 DEF DryRun
<1>5. ASSUME NEW r \in Run, StartFails(r)
      PROVE  DistributeTypeOK'
  BY <1>5 DEF StartFails
<1>6. ASSUME NEW r \in Run, Send(r)
      PROVE  DistributeTypeOK'
  <2>1. PICK c \in NextChunks(r) :
          /\ chunk' = [chunk EXCEPT ![r] = c]
          /\ todo' = [todo EXCEPT ![r] = @ \ c]
          /\ inflight' = inflight \cup {<<r, c>>}
    BY <1>6 DEF Send
  <2>2. c \subseteq Wallet
    BY DEF NextChunks
  <2> QED
    BY <1>6, <2>1, <2>2 DEF Send
<1>7. ASSUME NEW r \in Run, SendFails(r)
      PROVE  DistributeTypeOK'
  <2>1. PICK c \in NextChunks(r) :
          /\ todo' = [todo EXCEPT ![r] = @ \ c]
          /\ failed' = [failed EXCEPT ![r] = @ \cup c]
    BY <1>7 DEF SendFails
  <2>2. c \subseteq Wallet
    BY DEF NextChunks
  <2> QED
    BY <1>7, <2>1, <2>2 DEF SendFails
<1>8. ASSUME NEW r \in Run, Confirm(r)
      PROVE  DistributeTypeOK'
  BY <1>8 DEF Confirm
<1>9. ASSUME NEW r \in Run, ConfirmFails(r)
      PROVE  DistributeTypeOK'
  BY <1>9 DEF ConfirmFails
<1>10. ASSUME NEW r \in Run, MarkPaid(r)
       PROVE  DistributeTypeOK'
  BY <1>10 DEF MarkPaid
<1>11. ASSUME NEW r \in Run, MarkPaidFails(r)
       PROVE  DistributeTypeOK'
  BY <1>11 DEF MarkPaidFails
<1>12. ASSUME NEW r \in Run, EndPass(r)
       PROVE  DistributeTypeOK'
  BY <1>12 DEF EndPass
<1>13. ASSUME NEW r \in Run, Crash(r)
       PROVE  DistributeTypeOK'
  BY <1>13 DEF Crash
<1>14. ASSUME NEW tx \in inflight, Settle(tx)
       PROVE  DistributeTypeOK'
  BY <1>14 DEF Settle, Land, Expire
<1>15. CASE UNCHANGED distribution
  BY <1>15 DEF distribution, payments
<1> QED
  BY <1>1, <1>2, <1>3, <1>4, <1>5, <1>6, <1>7, <1>8, <1>9, <1>10, <1>11,
     <1>12, <1>13, <1>14, <1>15 DEF DistributeNext, Start, Step

(* Every variable keeps its type: in particular the floored shares of a    *)
(* pool are natural numbers, because the total they are divided by is the  *)
(* sum over a non-empty list of rows that are owed something.              *)
THEOREM DistributeTypeCorrect == DistributeSpec => []DistributeTypeOK
BY InitTypeOK, NextDistributeTypeOK, PTL DEF DistributeSpec

-----------------------------------------------------------------------------
(* The books never run ahead of the chain                                  *)

LEMMA InitBooks == DistributeInit => PaidIsWhatWasMarked /\ MarkedHasLanded /\ EachPlanOnce
<1> SUFFICES ASSUME DistributeInit
             PROVE  PaidIsWhatWasMarked /\ MarkedHasLanded /\ EachPlanOnce
  OBVIOUS
<1>1. PaidIsWhatWasMarked
  <2>1. \A w \in Wallet : MarkedFor(w) = {}
    BY DEF DistributeInit, MarkedFor
  <2> QED
    BY <2>1, TotalEmpty DEF DistributeInit, PaidIsWhatWasMarked
<1>2. MarkedHasLanded
  BY DEF DistributeInit, MarkedHasLanded
<1>3. EachPlanOnce
  BY DEF DistributeInit, EachPlanOnce, Running
<1> QED
  BY <1>1, <1>2, <1>3

(* A pass puts each plan in one chunk and marks it at most once.           *)
LEMMA NextEachPlanOnce == DistributeTypeOK /\ EachPlanOnce /\ [DistributeNext]_distribution => EachPlanOnce'
<1> SUFFICES ASSUME DistributeTypeOK, EachPlanOnce, [DistributeNext]_distribution
             PROVE  EachPlanOnce'
  OBVIOUS
<1> USE DEF DistributeTypeOK, EachPlanOnce, Running, ledger, memory, report, chain
<1>1. ASSUME NEW w \in Wallet, NEW n \in Credits, Accrue(w, n)
      PROVE  EachPlanOnce'
  BY <1>1 DEF Accrue, CreditRow
<1>2. ASSUME NEW r \in Run, NothingUnpaid(r)
      PROVE  EachPlanOnce'
  BY <1>2 DEF NothingUnpaid, MayStart
<1>3. ASSUME NEW r \in Run, NEW pool \in setup.pools, Plan(r, pool)
      PROVE  EachPlanOnce'
  <2>1. /\ pc[r] = "idle"
        /\ pc' = [pc EXCEPT ![r] = "aborted"] \/ pc' = [pc EXCEPT ![r] = "loop"]
        /\ todo' = todo \/ todo' = [todo EXCEPT ![r] = Chunked(Plans(pool))]
        /\ UNCHANGED <<chunk, unmarked, report, chain>>
    BY <1>3 DEF Plan, MayStart
  <2> QED
    BY <2>1
<1>4. ASSUME NEW r \in Run, NEW pool \in setup.pools, DryRun(r, pool)
      PROVE  EachPlanOnce'
  BY <1>4 DEF DryRun, MayStart
<1>5. ASSUME NEW r \in Run, StartFails(r)
      PROVE  EachPlanOnce'
  BY <1>5 DEF StartFails, MayStart
<1>6. ASSUME NEW r \in Run, Send(r)
      PROVE  EachPlanOnce'
  <2>1. PICK c \in NextChunks(r) :
          /\ chunk' = [chunk EXCEPT ![r] = c]
          /\ todo' = [todo EXCEPT ![r] = @ \ c]
          /\ inflight' = inflight \cup {<<r, c>>}
    BY <1>6 DEF Send
  <2>2. c \subseteq todo[r]
    BY DEF NextChunks
  <2> QED
    BY <1>6, <2>1, <2>2 DEF Send
<1>7. ASSUME NEW r \in Run, SendFails(r)
      PROVE  EachPlanOnce'
  <2>1. PICK c \in NextChunks(r) : todo' = [todo EXCEPT ![r] = @ \ c]
    BY <1>7 DEF SendFails
  <2> QED
    BY <1>7, <2>1 DEF SendFails
<1>8. ASSUME NEW r \in Run, Confirm(r)
      PROVE  EachPlanOnce'
  BY <1>8 DEF Confirm
<1>9. ASSUME NEW r \in Run, ConfirmFails(r)
      PROVE  EachPlanOnce'
  BY <1>9 DEF ConfirmFails
<1>10. ASSUME NEW r \in Run, MarkPaid(r)
       PROVE  EachPlanOnce'
  BY <1>10 DEF MarkPaid
<1>11. ASSUME NEW r \in Run, MarkPaidFails(r)
       PROVE  EachPlanOnce'
  BY <1>11 DEF MarkPaidFails
<1>12. ASSUME NEW r \in Run, EndPass(r)
       PROVE  EachPlanOnce'
  BY <1>12 DEF EndPass
<1>13. ASSUME NEW r \in Run, Crash(r)
       PROVE  EachPlanOnce'
  BY <1>13 DEF Crash
<1>14. ASSUME NEW tx \in inflight, Settle(tx)
       PROVE  EachPlanOnce'
  BY <1>14 DEF Settle, Land, Expire
<1>15. CASE UNCHANGED distribution
  BY <1>15 DEF distribution, payments
<1> QED
  BY <1>1, <1>2, <1>3, <1>4, <1>5, <1>6, <1>7, <1>8, <1>9, <1>10, <1>11,
     <1>12, <1>13, <1>14, <1>15 DEF DistributeNext, Start, Step

(* The passes that have landed for a wallet stay so.                       *)
LEMMA LandedForGrows ==
  ASSUME [DistributeNext]_distribution
  PROVE  \A w \in Wallet : LandedFor(w) \subseteq LandedFor(w)'
<1>1. landed \subseteq landed'
  BY DEF DistributeNext, distribution, payments, Start, Step, ledger, memory, report, chain,
         Accrue, CreditRow, NothingUnpaid, Plan, DryRun, StartFails, Send, SendFails,
         Confirm, ConfirmFails, MarkPaid, MarkPaidFails, EndPass, Crash, Settle,
         Land, Expire
<1> QED
  BY <1>1 DEF LandedFor

(* The report changes only when a mark succeeds.                           *)
LEMMA OnlyMarkPaidMarks ==
  ASSUME [DistributeNext]_distribution, \A r \in Run : ~MarkPaid(r)
  PROVE  UNCHANGED <<succeeded, paid>>
BY DEF DistributeNext, distribution, payments, Start, Step, ledger, memory, report, chain,
       Accrue, CreditRow, NothingUnpaid, Plan, DryRun, StartFails, Send, SendFails,
       Confirm, ConfirmFails, MarkPaidFails, EndPass, Crash, Settle, Land, Expire

LEMMA NextMarkedHasLanded ==
  DistributeTypeOK /\ EachPlanOnce /\ MarkedHasLanded /\ [DistributeNext]_distribution => MarkedHasLanded'
<1> SUFFICES ASSUME DistributeTypeOK, EachPlanOnce, MarkedHasLanded, [DistributeNext]_distribution
             PROVE  MarkedHasLanded'
  OBVIOUS
<1>1. ASSUME NEW r \in Run, MarkPaid(r)
      PROVE  MarkedHasLanded'
  <2>1. PICK w \in unmarked[r] : succeeded' = [succeeded EXCEPT ![r] = @ \cup {w}]
    BY <1>1 DEF MarkPaid
  <2>2. w \in chunk[r] /\ <<r, chunk[r]>> \in landed
    BY <1>1 DEF MarkPaid, EachPlanOnce
  <2>3. w \in Wallet /\ r \in LandedFor(w)
    BY <2>2 DEF LandedFor, DistributeTypeOK
  <2> QED
    BY <2>1, <2>3, LandedForGrows DEF MarkedHasLanded, DistributeTypeOK
<1>2. CASE \A r \in Run : ~MarkPaid(r)
  BY <1>2, OnlyMarkPaidMarks, LandedForGrows DEF MarkedHasLanded, DistributeTypeOK
<1> QED
  BY <1>1, <1>2

(* The shares of a pass are fixed from its start on.                       *)
LEMMA ShareFixedOnceMarked ==
  ASSUME DistributeTypeOK, EachPlanOnce, [DistributeNext]_distribution, NEW r \in Run, succeeded[r] # {}
  PROVE  share'[r] = share[r]
<1>1. ASSUME NEW q \in Run, NEW pool \in setup.pools, Plan(q, pool) \/ DryRun(q, pool)
      PROVE  share'[r] = share[r]
  <2>1. q # r
    BY <1>1 DEF Plan, DryRun, MayStart, EachPlanOnce
  <2> QED
    BY <1>1, <2>1 DEF Plan, DryRun, DistributeTypeOK
<1>2. CASE \A q \in Run, pool \in setup.pools : ~Plan(q, pool) /\ ~DryRun(q, pool)
  BY <1>2 DEF DistributeNext, distribution, payments, Start, Step, ledger, memory, report, chain,
       Accrue, CreditRow, NothingUnpaid, StartFails, Send, SendFails, Confirm,
       ConfirmFails, MarkPaid, MarkPaidFails, EndPass, Crash, Settle, Land, Expire
<1> QED
  BY <1>1, <1>2

LEMMA NextPaidIsWhatWasMarked ==
  DistributeTypeOK /\ EachPlanOnce /\ PaidIsWhatWasMarked /\ [DistributeNext]_distribution => PaidIsWhatWasMarked'
<1> SUFFICES ASSUME DistributeTypeOK, EachPlanOnce, PaidIsWhatWasMarked, [DistributeNext]_distribution,
                    NEW v \in Wallet
             PROVE  paid'[v] = Total([r \in Run |-> share'[r][v]], MarkedFor(v)')
  BY DEF PaidIsWhatWasMarked
<1> DEFINE old == [r \in Run |-> share[r][v]]
           new == [r \in Run |-> share'[r][v]]
<1>1. paid[v] = Total(old, MarkedFor(v))
  BY DEF PaidIsWhatWasMarked
<1>2. \A r \in MarkedFor(v) : r \in Run /\ old[r] = new[r]
  BY ShareFixedOnceMarked DEF MarkedFor
<1>3. Total(old, MarkedFor(v)) = Total(new, MarkedFor(v))
  BY <1>2, TotalSame
<1>4. \A r \in Run : new[r] \in Nat
  BY NextDistributeTypeOK DEF DistributeTypeOK
<1>5. IsFiniteSet(MarkedFor(v))
  BY DistributeAssumption, FS_Subset DEF MarkedFor
<1>6. ASSUME NEW q \in Run, MarkPaid(q)
      PROVE  paid'[v] = Total(new, MarkedFor(v)')
  <2>1. PICK w \in unmarked[q] :
          /\ paid' = [paid EXCEPT ![w] = @ + share[q][w]]
          /\ succeeded' = [succeeded EXCEPT ![q] = @ \cup {w}]
    BY <1>6 DEF MarkPaid
  <2>2. w \in Wallet /\ w \notin succeeded[q]
    BY <1>6 DEF MarkPaid, EachPlanOnce, DistributeTypeOK
  <2>3. CASE v = w
    <3>1. MarkedFor(v)' = MarkedFor(v) \cup {q} /\ q \notin MarkedFor(v)
      BY <2>1, <2>2, <2>3 DEF MarkedFor, DistributeTypeOK
    <3>2. paid'[v] = paid[v] + share[q][v]
      BY <2>1, <2>2, <2>3 DEF DistributeTypeOK
    <3>3. new[q] = share[q][v]
      BY <1>6 DEF MarkPaid
    <3> HIDE DEF new, old
    <3>4. Total(new, MarkedFor(v) \cup {q}) = Total(new, MarkedFor(v)) + new[q]
      <4>1. \A r \in MarkedFor(v) \cup {q} : new[r] \in Nat
        BY <1>4 DEF MarkedFor
      <4> QED
        BY <1>5, <3>1, <4>1, TotalAdd
    <3> QED
      BY <1>1, <1>3, <3>1, <3>2, <3>3, <3>4
  <2>4. CASE v # w
    <3>1. MarkedFor(v)' = MarkedFor(v)
      BY <2>1, <2>4 DEF MarkedFor, DistributeTypeOK
    <3>2. paid'[v] = paid[v]
      BY <2>1, <2>4 DEF DistributeTypeOK
    <3> QED
      BY <1>1, <1>3, <3>1, <3>2
  <2> QED
    BY <2>3, <2>4
<1>7. CASE \A r \in Run : ~MarkPaid(r)
  <2>1. paid'[v] = paid[v] /\ MarkedFor(v)' = MarkedFor(v)
    BY <1>7, OnlyMarkPaidMarks DEF MarkedFor
  <2> QED
    BY <1>1, <1>3, <2>1
<1> QED
  BY <1>6, <1>7

(* What a pass reads stays affordable while it is at work: nobody else     *)
(* marks its rows, it marks each of them once, and credits only add room.  *)
LEMMA InitSnapshotsFit == DistributeInit => SnapshotsFit
BY DEF DistributeInit, SnapshotsFit, Pending, Running

LEMMA NextSnapshotsFit ==
  DistributeTypeOK /\ EachPlanOnce /\ SnapshotsFit /\ [DistributeNext]_distribution => SnapshotsFit'
<1> SUFFICES ASSUME DistributeTypeOK, EachPlanOnce, SnapshotsFit, [DistributeNext]_distribution
             PROVE  SnapshotsFit'
  OBVIOUS
<1>a. setup' = setup
  BY DEF DistributeNext, distribution
<1> SUFFICES ASSUME OneToOne, ~MayFail("overlap")
             PROVE  /\ \A r, q \in Run : pc'[r] \in Running /\ pc'[q] \in Running => r = q
                    /\ \A w \in Wallet : paid'[w] <= accrued'[w]
                    /\ \A r \in Run : \A w \in Pending(r)' :
                         paid'[w] + share'[r][w] <= accrued'[w]
  BY <1>a DEF SnapshotsFit, OneToOne, MayFail
<1> DEFINE Alone == \A r, q \in Run : pc[r] \in Running /\ pc[q] \in Running => r = q
           Within == \A w \in Wallet : paid[w] <= accrued[w]
           Fits == \A r \in Run : \A w \in Pending(r) : paid[w] + share[r][w] <= accrued[w]
<1>0. Alone /\ Within /\ Fits
  BY DEF SnapshotsFit
<1> SUFFICES Alone' /\ Within' /\ Fits'
  OBVIOUS
<1> USE DEF DistributeTypeOK, Running, Pending, ledger, memory, report, chain
<1>1. ASSUME NEW w \in Wallet, NEW n \in Credits, Accrue(w, n)
      PROVE  Alone' /\ Within' /\ Fits'
  BY <1>0, <1>1, DistributeAssumption DEF Accrue, CreditRow
<1>2. ASSUME NEW r \in Run, NothingUnpaid(r)
      PROVE  Alone' /\ Within' /\ Fits'
  BY <1>0, <1>2 DEF NothingUnpaid, MayStart
<1>3. ASSUME NEW r \in Run, NEW pool \in setup.pools, Plan(r, pool)
      PROVE  Alone' /\ Within' /\ Fits'
  <2>1. \A q \in Run : pc[q] \notin Running
    BY <1>3 DEF Plan, MayStart
  <2>2. SplitMap(pool) = Outstanding
    BY DEF OneToOne, SplitMap
  <2>3. \A w \in Chunked(Plans(pool)) : w \in Wallet /\ Outstanding[w] = accrued[w] - paid[w]
    BY <2>2 DEF Plans, Outstanding, Chunked
  <2>4. Within'
    BY <1>0, <1>3 DEF Plan
  <2>5. /\ pc' = [pc EXCEPT ![r] = "aborted"] \/ pc' = [pc EXCEPT ![r] = "loop"]
        /\ pc'[r] = "loop" => todo'[r] = Chunked(Plans(pool))
        /\ share' = [share EXCEPT ![r] = Outstanding]
        /\ UNCHANGED <<accrued, paid>>
    BY <1>3, <2>2 DEF Plan
  <2>6. Alone'
    BY <2>1, <2>5
  <2>7. Fits'
    BY <2>1, <2>3, <2>5
  <2> QED
    BY <2>4, <2>6, <2>7
<1>4. ASSUME NEW r \in Run, NEW pool \in setup.pools, DryRun(r, pool)
      PROVE  Alone' /\ Within' /\ Fits'
  BY <1>0, <1>4 DEF DryRun, MayStart
<1>5. ASSUME NEW r \in Run, StartFails(r)
      PROVE  Alone' /\ Within' /\ Fits'
  BY <1>0, <1>5 DEF StartFails, MayStart
<1>6. ASSUME NEW r \in Run, Send(r)
      PROVE  Alone' /\ Within' /\ Fits'
  <2>1. PICK c \in NextChunks(r) :
          /\ chunk' = [chunk EXCEPT ![r] = c]
          /\ todo' = [todo EXCEPT ![r] = @ \ c]
    BY <1>6 DEF Send
  <2>2. c \subseteq todo[r]
    BY DEF NextChunks
  <2> QED
    BY <1>0, <1>6, <2>1, <2>2 DEF Send
<1>7. ASSUME NEW r \in Run, SendFails(r)
      PROVE  Alone' /\ Within' /\ Fits'
  <2>1. PICK c \in NextChunks(r) : todo' = [todo EXCEPT ![r] = @ \ c]
    BY <1>7 DEF SendFails
  <2> QED
    BY <1>0, <1>7, <2>1 DEF SendFails
<1>8. ASSUME NEW r \in Run, Confirm(r)
      PROVE  Alone' /\ Within' /\ Fits'
  BY <1>0, <1>8 DEF Confirm
<1>9. ASSUME NEW r \in Run, ConfirmFails(r)
      PROVE  Alone' /\ Within' /\ Fits'
  BY <1>0, <1>9 DEF ConfirmFails
<1>10. ASSUME NEW r \in Run, MarkPaid(r)
       PROVE  Alone' /\ Within' /\ Fits'
  <2>1. PICK w \in unmarked[r] :
          /\ paid' = [paid EXCEPT ![w] = @ + share[r][w]]
          /\ unmarked' = [unmarked EXCEPT ![r] = @ \ {w}]
          /\ pc' = [pc EXCEPT ![r] = IF unmarked[r] = {w} THEN "loop" ELSE "mark"]
    BY <1>10 DEF MarkPaid
  <2>2. w \in Wallet /\ w \in Pending(r) /\ w \notin todo[r]
    BY <1>10 DEF MarkPaid, EachPlanOnce
  <2>3. pc[r] = "mark" /\ UNCHANGED <<accrued, share, todo, chunk>>
    BY <1>10 DEF MarkPaid
  <2>4. Alone'
    BY <1>0, <2>1, <2>3
  <2>5. Within'
    BY <1>0, <2>1, <2>2, <2>3
  <2>6. \A q \in Run : q # r => Pending(q)' = {}
    BY <1>0, <2>1, <2>3
  <2>7. Pending(r)' \subseteq Pending(r) \ {w}
    BY <2>1, <2>2, <2>3
  <2>8. Pending(r) \subseteq Wallet
    OBVIOUS
  <2> HIDE DEF Pending
  <2>9. Fits'
    BY <1>0, <2>1, <2>3, <2>6, <2>7, <2>8
  <2> QED
    BY <2>4, <2>5, <2>9
<1>11. ASSUME NEW r \in Run, MarkPaidFails(r)
       PROVE  Alone' /\ Within' /\ Fits'
  BY <1>0, <1>11 DEF MarkPaidFails
<1>12. ASSUME NEW r \in Run, EndPass(r)
       PROVE  Alone' /\ Within' /\ Fits'
  BY <1>0, <1>12 DEF EndPass
<1>13. ASSUME NEW r \in Run, Crash(r)
       PROVE  Alone' /\ Within' /\ Fits'
  BY <1>0, <1>13 DEF Crash
<1>14. ASSUME NEW tx \in inflight, Settle(tx)
       PROVE  Alone' /\ Within' /\ Fits'
  BY <1>0, <1>14 DEF Settle, Land, Expire
<1>15. CASE UNCHANGED distribution
  BY <1>0, <1>15 DEF distribution, payments
<1> HIDE DEF Alone, Within, Fits
<1> QED
  BY <1>1, <1>2, <1>3, <1>4, <1>5, <1>6, <1>7, <1>8, <1>9, <1>10, <1>11,
     <1>12, <1>13, <1>14, <1>15 DEF DistributeNext, Start, Step

-----------------------------------------------------------------------------
(* The report can be believed                                              *)

LEMMA NextPlansAreOwed == DistributeTypeOK /\ EachPlanOnce /\ PlansAreOwed /\ [DistributeNext]_distribution => (PlansAreOwed)'
<1> SUFFICES ASSUME DistributeTypeOK, EachPlanOnce, PlansAreOwed, [DistributeNext]_distribution
             PROVE  (PlansAreOwed)'
  OBVIOUS
<1>0. setup' = setup
  BY DEF DistributeNext, distribution
<1> USE <1>0 DEF DistributeTypeOK, Running, Ended, ledger, memory, report, chain, PlansAreOwed, Pending
<1>1. ASSUME NEW w \in Wallet, NEW n \in Credits, Accrue(w, n)
      PROVE  (PlansAreOwed)'
  BY <1>1 DEF Accrue, CreditRow
<1>2. ASSUME NEW r \in Run, NothingUnpaid(r)
      PROVE  (PlansAreOwed)'
  BY <1>2 DEF NothingUnpaid, MayStart
<1>3. ASSUME NEW r \in Run, NEW pool \in setup.pools, Plan(r, pool)
      PROVE  (PlansAreOwed)'
  <2>1. SplitMap(pool) \in [Wallet -> Nat]
    BY <1>3, SplitMapType DEF Plan
  <2> QED
    BY <1>3, <2>1 DEF Plan, MayStart, Plans, Chunked
<1>4. ASSUME NEW r \in Run, NEW pool \in setup.pools, DryRun(r, pool)
      PROVE  (PlansAreOwed)'
  BY <1>4 DEF DryRun, MayStart
<1>5. ASSUME NEW r \in Run, StartFails(r)
      PROVE  (PlansAreOwed)'
  BY <1>5 DEF StartFails, MayStart
<1>6. ASSUME NEW r \in Run, Send(r)
      PROVE  (PlansAreOwed)'
  <2>1. PICK c \in NextChunks(r) :
          /\ chunk' = [chunk EXCEPT ![r] = c]
          /\ todo' = [todo EXCEPT ![r] = @ \ c]
          /\ inflight' = inflight \cup {<<r, c>>}
    BY <1>6 DEF Send
  <2>2. c \subseteq todo[r]
    BY DEF NextChunks
  <2> QED
    BY <1>6, <2>1, <2>2 DEF Send
<1>7. ASSUME NEW r \in Run, SendFails(r)
      PROVE  (PlansAreOwed)'
  <2>1. PICK c \in NextChunks(r) :
          /\ todo' = [todo EXCEPT ![r] = @ \ c]
          /\ failed' = [failed EXCEPT ![r] = @ \cup c]
    BY <1>7 DEF SendFails
  <2>2. c \subseteq todo[r]
    BY DEF NextChunks
  <2> QED
    BY <1>7, <2>1, <2>2 DEF SendFails
<1>8. ASSUME NEW r \in Run, Confirm(r)
      PROVE  (PlansAreOwed)'
  BY <1>8 DEF Confirm
<1>9. ASSUME NEW r \in Run, ConfirmFails(r)
      PROVE  (PlansAreOwed)'
  BY <1>9 DEF ConfirmFails
<1>10. ASSUME NEW r \in Run, MarkPaid(r)
      PROVE  (PlansAreOwed)'
  <2>1. PICK w \in unmarked[r] :
          /\ paid' = [paid EXCEPT ![w] = @ + share[r][w]]
          /\ lastTx' = [lastTx EXCEPT ![w] = <<r, chunk[r]>>]
          /\ succeeded' = [succeeded EXCEPT ![r] = @ \cup {w}]
          /\ unmarked' = [unmarked EXCEPT ![r] = @ \ {w}]
          /\ pc' = [pc EXCEPT ![r] = IF unmarked[r] = {w} THEN "loop" ELSE "mark"]
    BY <1>10 DEF MarkPaid
  <2> QED
    BY <1>10, <2>1 DEF MarkPaid
<1>11. ASSUME NEW r \in Run, MarkPaidFails(r)
      PROVE  (PlansAreOwed)'
  BY <1>11 DEF MarkPaidFails
<1>12. ASSUME NEW r \in Run, EndPass(r)
      PROVE  (PlansAreOwed)'
  BY <1>12 DEF EndPass
<1>13. ASSUME NEW r \in Run, Crash(r)
      PROVE  (PlansAreOwed)'
  BY <1>13 DEF Crash
<1>14. ASSUME NEW tx \in inflight, Settle(tx)
      PROVE  (PlansAreOwed)'
  BY <1>14 DEF Settle, Land, Expire
<1>15. CASE UNCHANGED distribution
  BY <1>15 DEF distribution, payments
<1> QED
  BY <1>1, <1>2, <1>3, <1>4, <1>5, <1>6, <1>7,
     <1>8, <1>9, <1>10, <1>11, <1>12, <1>13, <1>14, <1>15 DEF DistributeNext, Start, Step

LEMMA NextNobodyForgotten == DistributeTypeOK /\ EachPlanOnce /\ SentOnce /\ NobodyForgotten /\ [DistributeNext]_distribution => (NobodyForgotten)'
<1> SUFFICES ASSUME DistributeTypeOK, EachPlanOnce, SentOnce, NobodyForgotten, [DistributeNext]_distribution
             PROVE  (NobodyForgotten)'
  OBVIOUS
<1>0. setup' = setup
  BY DEF DistributeNext, distribution
<1> USE <1>0 DEF DistributeTypeOK, Running, Ended, ledger, memory, report, chain, NobodyForgotten, Pending
<1>1. ASSUME NEW w \in Wallet, NEW n \in Credits, Accrue(w, n)
      PROVE  (NobodyForgotten)'
  BY <1>1 DEF Accrue, CreditRow
<1>2. ASSUME NEW r \in Run, NothingUnpaid(r)
      PROVE  (NobodyForgotten)'
  BY <1>2 DEF NothingUnpaid, MayStart, SentOnce
<1>3. ASSUME NEW r \in Run, NEW pool \in setup.pools, Plan(r, pool)
      PROVE  (NobodyForgotten)'
  <2>1. SplitMap(pool) \in [Wallet -> Nat]
    BY <1>3, SplitMapType DEF Plan
  <2>2. setup.chunkSize \in Nat => Chunked(Plans(pool)) = Plans(pool)
    BY DistributeAssumption DEF Chunked
  <2>3. \A w \in Wallet : SplitMap(pool)[w] > 0 => w \in Plans(pool)
    BY DEF Plans
  <2> QED
    BY <1>3, <2>1, <2>2, <2>3 DEF Plan, MayStart
<1>4. ASSUME NEW r \in Run, NEW pool \in setup.pools, DryRun(r, pool)
      PROVE  (NobodyForgotten)'
  BY <1>4 DEF DryRun, MayStart, SentOnce
<1>5. ASSUME NEW r \in Run, StartFails(r)
      PROVE  (NobodyForgotten)'
  BY <1>5 DEF StartFails, MayStart
<1>6. ASSUME NEW r \in Run, Send(r)
      PROVE  (NobodyForgotten)'
  <2>1. PICK c \in NextChunks(r) :
          /\ chunk' = [chunk EXCEPT ![r] = c]
          /\ todo' = [todo EXCEPT ![r] = @ \ c]
          /\ inflight' = inflight \cup {<<r, c>>}
    BY <1>6 DEF Send
  <2>2. c \subseteq todo[r]
    BY DEF NextChunks
  <2> QED
    BY <1>6, <2>1, <2>2 DEF Send
<1>7. ASSUME NEW r \in Run, SendFails(r)
      PROVE  (NobodyForgotten)'
  <2>1. PICK c \in NextChunks(r) :
          /\ todo' = [todo EXCEPT ![r] = @ \ c]
          /\ failed' = [failed EXCEPT ![r] = @ \cup c]
    BY <1>7 DEF SendFails
  <2>2. c \subseteq todo[r]
    BY DEF NextChunks
  <2> QED
    BY <1>7, <2>1, <2>2 DEF SendFails
<1>8. ASSUME NEW r \in Run, Confirm(r)
      PROVE  (NobodyForgotten)'
  BY <1>8 DEF Confirm
<1>9. ASSUME NEW r \in Run, ConfirmFails(r)
      PROVE  (NobodyForgotten)'
  BY <1>9 DEF ConfirmFails
<1>10. ASSUME NEW r \in Run, MarkPaid(r)
      PROVE  (NobodyForgotten)'
  <2>1. PICK w \in unmarked[r] :
          /\ paid' = [paid EXCEPT ![w] = @ + share[r][w]]
          /\ lastTx' = [lastTx EXCEPT ![w] = <<r, chunk[r]>>]
          /\ succeeded' = [succeeded EXCEPT ![r] = @ \cup {w}]
          /\ unmarked' = [unmarked EXCEPT ![r] = @ \ {w}]
          /\ pc' = [pc EXCEPT ![r] = IF unmarked[r] = {w} THEN "loop" ELSE "mark"]
    BY <1>10 DEF MarkPaid
  <2> QED
    BY <1>10, <2>1 DEF MarkPaid
<1>11. ASSUME NEW r \in Run, MarkPaidFails(r)
      PROVE  (NobodyForgotten)'
  BY <1>11 DEF MarkPaidFails, EachPlanOnce
<1>12. ASSUME NEW r \in Run, EndPass(r)
      PROVE  (NobodyForgotten)'
  BY <1>12 DEF EndPass
<1>13. ASSUME NEW r \in Run, Crash(r)
      PROVE  (NobodyForgotten)'
  BY <1>13 DEF Crash
<1>14. ASSUME NEW tx \in inflight, Settle(tx)
      PROVE  (NobodyForgotten)'
  BY <1>14 DEF Settle, Land, Expire
<1>15. CASE UNCHANGED distribution
  BY <1>15 DEF distribution, payments
<1> QED
  BY <1>1, <1>2, <1>3, <1>4, <1>5, <1>6, <1>7,
     <1>8, <1>9, <1>10, <1>11, <1>12, <1>13, <1>14, <1>15 DEF DistributeNext, Start, Step

(* A pass that only goes on, ends or dies sends nothing more.              *)
LEMMA MovingKeepsSentOnce ==
  ASSUME DistributeTypeOK, SentOnce, NEW r \in Run, NEW to \in Running \cup Ended,
         to \in Running => pc[r] \in Running,
         to \in {"confirm", "mark"} => pc[r] \in {"confirm", "mark"},
         pc' = [pc EXCEPT ![r] = to],
         UNCHANGED <<share, todo, chunk, report, chain>>
  PROVE  SentOnce'
<1>1. /\ pc'[r] = to
      /\ \A q \in Run : q # r => pc'[q] = pc[q]
      /\ to # "idle"
  BY DEF DistributeTypeOK, Running, Ended
<1>2. UNCHANGED <<share, todo, chunk, failed, inflight, landed>>
  BY DEF report, chain
<1> SUFFICES ASSUME NEW q \in Run
             PROVE
      /\ pc'[q] = "idle" => failed'[q] = {} /\ \A w \in Wallet : share'[q][w] = 0
      /\ pc'[q] \in {"confirm", "mark"} => chunk'[q] \cap todo'[q] = {}
      /\ \A c \in SUBSET Wallet : <<q, c>> \in inflight' \cup landed' =>
           /\ pc'[q] \in Running => c \cap todo'[q] = {}
           /\ pc'[q] \in {"confirm", "mark"} /\ c \cap chunk'[q] # {} => c = chunk'[q]
  BY DEF SentOnce
<1>3. /\ pc'[q] = "idle" => pc[q] = "idle"
      /\ pc'[q] \in Running => pc[q] \in Running
      /\ pc'[q] \in {"confirm", "mark"} => pc[q] \in {"confirm", "mark"}
  BY <1>1
<1>4. /\ pc[q] = "idle" => failed[q] = {} /\ \A w \in Wallet : share[q][w] = 0
      /\ pc[q] \in {"confirm", "mark"} => chunk[q] \cap todo[q] = {}
      /\ \A c \in SUBSET Wallet : <<q, c>> \in inflight \cup landed =>
           /\ pc[q] \in Running => c \cap todo[q] = {}
           /\ pc[q] \in {"confirm", "mark"} /\ c \cap chunk[q] # {} => c = chunk[q]
  BY DEF SentOnce
<1> QED
  BY <1>2, <1>3, <1>4

LEMMA NextSentOnce == DistributeTypeOK /\ EachPlanOnce /\ SentOnce /\ [DistributeNext]_distribution => (SentOnce)'
<1> SUFFICES ASSUME DistributeTypeOK, EachPlanOnce, SentOnce, [DistributeNext]_distribution
             PROVE  (SentOnce)'
  OBVIOUS
<1>0. setup' = setup
  BY DEF DistributeNext, distribution
<1> USE <1>0 DEF DistributeTypeOK, Running, Ended, ledger, memory, report, chain, EachPlanOnce, SentOnce
<1>1. ASSUME NEW w \in Wallet, NEW n \in Credits, Accrue(w, n)
      PROVE  (SentOnce)'
  BY <1>1 DEF Accrue, CreditRow
<1>2. ASSUME NEW r \in Run, NothingUnpaid(r)
      PROVE  (SentOnce)'
  BY <1>2 DEF NothingUnpaid, MayStart
<1>3. ASSUME NEW r \in Run, NEW pool \in setup.pools, Plan(r, pool)
      PROVE  (SentOnce)'
  <2>1. SplitMap(pool) \in [Wallet -> Nat]
    BY <1>3, SplitMapType DEF Plan
  <2>2. /\ pc[r] = "idle"
        /\ pc' = [pc EXCEPT ![r] = "aborted"] \/ pc' = [pc EXCEPT ![r] = "loop"]
        /\ \A q \in Run : q # r => share'[q] = share[q] /\ todo'[q] = todo[q]
        /\ UNCHANGED <<chunk, unmarked, report, chain>>
    BY <1>3, <2>1 DEF Plan, MayStart
  <2>3. \A c \in SUBSET Wallet : <<r, c>> \notin inflight' \cup landed'
    BY <2>2
  <2>4. /\ pc'[r] \notin {"idle", "confirm", "mark"}
        /\ \A q \in Run : q # r => pc'[q] = pc[q]
    BY <2>2
  <2> SUFFICES ASSUME NEW q \in Run
               PROVE
      /\ pc'[q] = "idle" => failed'[q] = {} /\ \A w \in Wallet : share'[q][w] = 0
      /\ pc'[q] \in {"confirm", "mark"} => chunk'[q] \cap todo'[q] = {}
      /\ \A c \in SUBSET Wallet : <<q, c>> \in inflight' \cup landed' =>
           /\ pc'[q] \in Running => c \cap todo'[q] = {}
           /\ pc'[q] \in {"confirm", "mark"} /\ c \cap chunk'[q] # {} => c = chunk'[q]
    BY DEF SentOnce
  <2>5. CASE q = r
    BY <2>3, <2>4, <2>5
  <2>6. CASE q # r
    <3>1. /\ pc'[q] = pc[q] /\ failed'[q] = failed[q] /\ share'[q] = share[q]
          /\ chunk'[q] = chunk[q] /\ todo'[q] = todo[q]
          /\ UNCHANGED <<inflight, landed>>
      BY <2>2, <2>4, <2>6
    <3>2. /\ pc[q] = "idle" => failed[q] = {} /\ \A w \in Wallet : share[q][w] = 0
          /\ pc[q] \in {"confirm", "mark"} => chunk[q] \cap todo[q] = {}
          /\ \A c \in SUBSET Wallet : <<q, c>> \in inflight \cup landed =>
               /\ pc[q] \in Running => c \cap todo[q] = {}
               /\ pc[q] \in {"confirm", "mark"} /\ c \cap chunk[q] # {} => c = chunk[q]
      BY DEF SentOnce
    <3> QED
      BY <3>1, <3>2
  <2> QED
    BY <2>5, <2>6
<1>4. ASSUME NEW r \in Run, NEW pool \in setup.pools, DryRun(r, pool)
      PROVE  (SentOnce)'
  <2>1. /\ pc'[r] \in {"previewed", "aborted"}
        /\ \A q \in Run \ {r} : pc'[q] = pc[q] /\ share'[q] = share[q]
        /\ UNCHANGED <<todo, chunk, failed, inflight, landed>>
    BY <1>4 DEF DryRun
  <2> QED
    BY <2>1
<1>5. ASSUME NEW r \in Run, StartFails(r)
      PROVE  (SentOnce)'
  <2>1. /\ pc'[r] = "aborted"
        /\ \A q \in Run \ {r} : pc'[q] = pc[q]
        /\ UNCHANGED <<share, todo, chunk, failed, inflight, landed>>
    BY <1>5 DEF StartFails
  <2> QED
    BY <2>1
<1>6. ASSUME NEW r \in Run, Send(r)
      PROVE  (SentOnce)'
  <2>1. PICK c \in NextChunks(r) :
          /\ chunk' = [chunk EXCEPT ![r] = c]
          /\ todo' = [todo EXCEPT ![r] = @ \ c]
          /\ inflight' = inflight \cup {<<r, c>>}
    BY <1>6 DEF Send
  <2>2. c \subseteq todo[r]
    BY DEF NextChunks
  <2> QED
    BY <1>6, <2>1, <2>2 DEF Send
<1>7. ASSUME NEW r \in Run, SendFails(r)
      PROVE  (SentOnce)'
  <2>1. PICK c \in NextChunks(r) :
          /\ todo' = [todo EXCEPT ![r] = @ \ c]
          /\ failed' = [failed EXCEPT ![r] = @ \cup c]
    BY <1>7 DEF SendFails
  <2>2. c \subseteq todo[r]
    BY DEF NextChunks
  <2> QED
    BY <1>7, <2>1, <2>2 DEF SendFails
<1>8. ASSUME NEW r \in Run, Confirm(r)
      PROVE  (SentOnce)'
  <2> HIDE DEF DistributeTypeOK, EachPlanOnce, SentOnce
  <2> QED
    BY <1>8, MovingKeepsSentOnce DEF Confirm
<1>9. ASSUME NEW r \in Run, ConfirmFails(r)
      PROVE  (SentOnce)'
  BY <1>9 DEF ConfirmFails
<1>10. ASSUME NEW r \in Run, MarkPaid(r)
      PROVE  (SentOnce)'
  <2>1. PICK w \in unmarked[r] :
          /\ paid' = [paid EXCEPT ![w] = @ + share[r][w]]
          /\ lastTx' = [lastTx EXCEPT ![w] = <<r, chunk[r]>>]
          /\ succeeded' = [succeeded EXCEPT ![r] = @ \cup {w}]
          /\ unmarked' = [unmarked EXCEPT ![r] = @ \ {w}]
          /\ pc' = [pc EXCEPT ![r] = IF unmarked[r] = {w} THEN "loop" ELSE "mark"]
    BY <1>10 DEF MarkPaid
  <2>2. /\ pc[r] = "mark" /\ pc'[r] \in {"loop", "mark"}
        /\ \A q \in Run \ {r} : pc'[q] = pc[q]
        /\ UNCHANGED <<share, todo, chunk, failed, inflight, landed>>
    BY <1>10, <2>1 DEF MarkPaid
  <2> QED
    BY <2>2
<1>11. ASSUME NEW r \in Run, MarkPaidFails(r)
      PROVE  (SentOnce)'
  BY <1>11 DEF MarkPaidFails
<1>12. ASSUME NEW r \in Run, EndPass(r)
      PROVE  (SentOnce)'
  <2> HIDE DEF DistributeTypeOK, EachPlanOnce, SentOnce
  <2> QED
    BY <1>12, MovingKeepsSentOnce DEF EndPass
<1>13. ASSUME NEW r \in Run, Crash(r)
      PROVE  (SentOnce)'
  <2> HIDE DEF DistributeTypeOK, EachPlanOnce, SentOnce
  <2> QED
    BY <1>13, MovingKeepsSentOnce DEF Crash
<1>14. ASSUME NEW tx \in inflight, Settle(tx)
      PROVE  (SentOnce)'
  BY <1>14 DEF Settle, Land, Expire
<1>15. CASE UNCHANGED distribution
  BY <1>15 DEF distribution, payments
<1> QED
  BY <1>1, <1>2, <1>3, <1>4, <1>5, <1>6, <1>7,
     <1>8, <1>9, <1>10, <1>11, <1>12, <1>13, <1>14, <1>15 DEF DistributeNext, Start, Step

LEMMA NextNothingSentInNoChunk == DistributeTypeOK /\ EachPlanOnce /\ SentOnce /\ NothingSentInNoChunk /\ [DistributeNext]_distribution => (NothingSentInNoChunk)'
<1> SUFFICES ASSUME DistributeTypeOK, EachPlanOnce, SentOnce, NothingSentInNoChunk, [DistributeNext]_distribution
             PROVE  (NothingSentInNoChunk)'
  OBVIOUS
<1>0. setup' = setup
  BY DEF DistributeNext, distribution
<1> USE <1>0 DEF DistributeTypeOK, Running, Ended, ledger, memory, report, chain, EachPlanOnce, NothingSentInNoChunk, SentNothing
<1>1. ASSUME NEW w \in Wallet, NEW n \in Credits, Accrue(w, n)
      PROVE  (NothingSentInNoChunk)'
  BY <1>1 DEF Accrue, CreditRow
<1>2. ASSUME NEW r \in Run, NothingUnpaid(r)
      PROVE  (NothingSentInNoChunk)'
  BY <1>2 DEF NothingUnpaid, MayStart
<1>3. ASSUME NEW r \in Run, NEW pool \in setup.pools, Plan(r, pool)
      PROVE  (NothingSentInNoChunk)'
  <2>1. SplitMap(pool) \in [Wallet -> Nat]
    BY <1>3, SplitMapType DEF Plan
  <2>2. /\ pc' = [pc EXCEPT ![r] = "aborted"] \/ pc' = [pc EXCEPT ![r] = "loop"]
        /\ UNCHANGED <<report, chain>>
    BY <1>3 DEF Plan
  <2>3. setup.chunkSize = NaN => \A q \in Run : todo'[q] = {}
    BY <1>3, <2>1 DEF Plan, Chunked
  <2>4. setup.chunkSize = NaN => \A q \in Run : pc'[q] \notin {"confirm", "mark"}
    BY <2>2
  <2> QED
    BY <2>2, <2>3, <2>4
<1>4. ASSUME NEW r \in Run, NEW pool \in setup.pools, DryRun(r, pool)
      PROVE  (NothingSentInNoChunk)'
  <2>1. pc[r] = "idle" /\ failed[r] = {} /\ SentNothing(r)
    BY <1>4 DEF DryRun, MayStart, SentOnce
  <2> QED
    BY <1>4, <2>1 DEF DryRun
<1>5. ASSUME NEW r \in Run, StartFails(r)
      PROVE  (NothingSentInNoChunk)'
  BY <1>5 DEF StartFails, MayStart
<1>6. ASSUME NEW r \in Run, Send(r)
      PROVE  (NothingSentInNoChunk)'
  <2>1. PICK c \in NextChunks(r) :
          /\ chunk' = [chunk EXCEPT ![r] = c]
          /\ todo' = [todo EXCEPT ![r] = @ \ c]
          /\ inflight' = inflight \cup {<<r, c>>}
    BY <1>6 DEF Send
  <2>2. c \subseteq todo[r] /\ c # {}
    BY DEF NextChunks
  <2> QED
    BY <1>6, <2>1, <2>2 DEF Send
<1>7. ASSUME NEW r \in Run, SendFails(r)
      PROVE  (NothingSentInNoChunk)'
  <2>1. PICK c \in NextChunks(r) :
          /\ todo' = [todo EXCEPT ![r] = @ \ c]
          /\ failed' = [failed EXCEPT ![r] = @ \cup c]
    BY <1>7 DEF SendFails
  <2>2. c \subseteq todo[r] /\ c # {}
    BY DEF NextChunks
  <2> QED
    BY <1>7, <2>1, <2>2 DEF SendFails
<1>8. ASSUME NEW r \in Run, Confirm(r)
      PROVE  (NothingSentInNoChunk)'
  BY <1>8 DEF Confirm
<1>9. ASSUME NEW r \in Run, ConfirmFails(r)
      PROVE  (NothingSentInNoChunk)'
  BY <1>9 DEF ConfirmFails
<1>10. ASSUME NEW r \in Run, MarkPaid(r)
      PROVE  (NothingSentInNoChunk)'
  <2>1. PICK w \in unmarked[r] :
          /\ paid' = [paid EXCEPT ![w] = @ + share[r][w]]
          /\ lastTx' = [lastTx EXCEPT ![w] = <<r, chunk[r]>>]
          /\ succeeded' = [succeeded EXCEPT ![r] = @ \cup {w}]
          /\ unmarked' = [unmarked EXCEPT ![r] = @ \ {w}]
          /\ pc' = [pc EXCEPT ![r] = IF unmarked[r] = {w} THEN "loop" ELSE "mark"]
    BY <1>10 DEF MarkPaid
  <2> QED
    BY <1>10, <2>1 DEF MarkPaid
<1>11. ASSUME NEW r \in Run, MarkPaidFails(r)
      PROVE  (NothingSentInNoChunk)'
  BY <1>11 DEF MarkPaidFails
<1>12. ASSUME NEW r \in Run, EndPass(r)
      PROVE  (NothingSentInNoChunk)'
  BY <1>12 DEF EndPass
<1>13. ASSUME NEW r \in Run, Crash(r)
      PROVE  (NothingSentInNoChunk)'
  BY <1>13 DEF Crash
<1>14. ASSUME NEW tx \in inflight, Settle(tx)
      PROVE  (NothingSentInNoChunk)'
  BY <1>14 DEF Settle, Land, Expire
<1>15. CASE UNCHANGED distribution
  BY <1>15 DEF distribution, payments
<1> QED
  BY <1>1, <1>2, <1>3, <1>4, <1>5, <1>6, <1>7,
     <1>8, <1>9, <1>10, <1>11, <1>12, <1>13, <1>14, <1>15 DEF DistributeNext, Start, Step

LEMMA NextFailedIsGivenUp == DistributeTypeOK /\ EachPlanOnce /\ SentOnce /\ FailedIsGivenUp /\ [DistributeNext]_distribution => (FailedIsGivenUp)'
<1> SUFFICES ASSUME DistributeTypeOK, EachPlanOnce, SentOnce, FailedIsGivenUp, [DistributeNext]_distribution
             PROVE  (FailedIsGivenUp)'
  OBVIOUS
<1>0. setup' = setup
  BY DEF DistributeNext, distribution
<1> USE <1>0 DEF DistributeTypeOK, Running, Ended, ledger, memory, report, chain, EachPlanOnce, SentOnce, FailedIsGivenUp, MayFail
<1>1. ASSUME NEW w \in Wallet, NEW n \in Credits, Accrue(w, n)
      PROVE  (FailedIsGivenUp)'
  BY <1>1 DEF Accrue, CreditRow
<1>2. ASSUME NEW r \in Run, NothingUnpaid(r)
      PROVE  (FailedIsGivenUp)'
  BY <1>2 DEF NothingUnpaid, MayStart
<1>3. ASSUME NEW r \in Run, NEW pool \in setup.pools, Plan(r, pool)
      PROVE  (FailedIsGivenUp)'
  <2>1. SplitMap(pool) \in [Wallet -> Nat]
    BY <1>3, SplitMapType DEF Plan
  <2> QED
    BY <1>3, <2>1 DEF Plan, MayStart, Plans, Chunked
<1>4. ASSUME NEW r \in Run, NEW pool \in setup.pools, DryRun(r, pool)
      PROVE  (FailedIsGivenUp)'
  BY <1>4 DEF DryRun, MayStart
<1>5. ASSUME NEW r \in Run, StartFails(r)
      PROVE  (FailedIsGivenUp)'
  BY <1>5 DEF StartFails, MayStart
<1>6. ASSUME NEW r \in Run, Send(r)
      PROVE  (FailedIsGivenUp)'
  <2>1. PICK c \in NextChunks(r) :
          /\ chunk' = [chunk EXCEPT ![r] = c]
          /\ todo' = [todo EXCEPT ![r] = @ \ c]
          /\ inflight' = inflight \cup {<<r, c>>}
    BY <1>6 DEF Send
  <2>2. c \subseteq todo[r]
    BY DEF NextChunks
  <2> QED
    BY <1>6, <2>1, <2>2 DEF Send
<1>7. ASSUME NEW r \in Run, SendFails(r)
      PROVE  (FailedIsGivenUp)'
  <2>1. PICK c \in NextChunks(r) :
          /\ todo' = [todo EXCEPT ![r] = @ \ c]
          /\ failed' = [failed EXCEPT ![r] = @ \cup c]
    BY <1>7 DEF SendFails
  <2>2. c \subseteq todo[r]
    BY DEF NextChunks
  <2> QED
    BY <1>7, <2>1, <2>2 DEF SendFails
<1>8. ASSUME NEW r \in Run, Confirm(r)
      PROVE  (FailedIsGivenUp)'
  BY <1>8 DEF Confirm
<1>9. ASSUME NEW r \in Run, ConfirmFails(r)
      PROVE  (FailedIsGivenUp)'
  BY <1>9 DEF ConfirmFails
<1>10. ASSUME NEW r \in Run, MarkPaid(r)
      PROVE  (FailedIsGivenUp)'
  <2>1. PICK w \in unmarked[r] :
          /\ paid' = [paid EXCEPT ![w] = @ + share[r][w]]
          /\ lastTx' = [lastTx EXCEPT ![w] = <<r, chunk[r]>>]
          /\ succeeded' = [succeeded EXCEPT ![r] = @ \cup {w}]
          /\ unmarked' = [unmarked EXCEPT ![r] = @ \ {w}]
          /\ pc' = [pc EXCEPT ![r] = IF unmarked[r] = {w} THEN "loop" ELSE "mark"]
    BY <1>10 DEF MarkPaid
  <2> QED
    BY <1>10, <2>1 DEF MarkPaid
<1>11. ASSUME NEW r \in Run, MarkPaidFails(r)
      PROVE  (FailedIsGivenUp)'
  BY <1>11 DEF MarkPaidFails
<1>12. ASSUME NEW r \in Run, EndPass(r)
      PROVE  (FailedIsGivenUp)'
  BY <1>12 DEF EndPass
<1>13. ASSUME NEW r \in Run, Crash(r)
      PROVE  (FailedIsGivenUp)'
  BY <1>13 DEF Crash
<1>14. ASSUME NEW tx \in inflight, Settle(tx)
      PROVE  (FailedIsGivenUp)'
  BY <1>14 DEF Settle, Land, Expire
<1>15. CASE UNCHANGED distribution
  BY <1>15 DEF distribution, payments
<1> QED
  BY <1>1, <1>2, <1>3, <1>4, <1>5, <1>6, <1>7,
     <1>8, <1>9, <1>10, <1>11, <1>12, <1>13, <1>14, <1>15 DEF DistributeNext, Start, Step

LEMMA NextSentIsMarked ==
  DistributeTypeOK /\ EachPlanOnce /\ SentOnce /\ SentIsMarked /\ [DistributeNext]_distribution => SentIsMarked'
<1> SUFFICES ASSUME DistributeTypeOK, EachPlanOnce, SentOnce, SentIsMarked, [DistributeNext]_distribution
             PROVE  SentIsMarked'
  OBVIOUS
<1>0. setup' = setup
  BY DEF DistributeNext, distribution
<1> SUFFICES ASSUME Dependable, NEW q \in Run, NEW c \in SUBSET Wallet, NEW v \in c,
                    <<q, c>> \in inflight' \cup landed'
             PROVE  \/ v \in succeeded'[q]
                    \/ pc'[q] = "confirm" /\ c = chunk'[q]
                    \/ pc'[q] = "mark" /\ v \in unmarked'[q]
  BY <1>0 DEF SentIsMarked, Dependable
<1> DEFINE Done == \/ v \in succeeded[q]
                   \/ pc[q] = "confirm" /\ c = chunk[q]
                   \/ pc[q] = "mark" /\ v \in unmarked[q]
<1>a. <<q, c>> \in inflight \cup landed => Done
  BY DEF SentIsMarked
<1>b. \A f \in {"busy", "confirm", "crash", "options"} : ~MayFail(f)
  BY DEF Dependable, MayFail
<1>c. pc[q] = "idle" => <<q, c>> \notin inflight \cup landed
  BY DEF EachPlanOnce
<1> USE <1>a, <1>c DEF DistributeTypeOK, Running, ledger, memory, report, chain
<1>1. ASSUME NEW w \in Wallet, NEW n \in Credits, Accrue(w, n)
      PROVE  Done'
  BY <1>1 DEF Accrue, CreditRow
<1>2. ASSUME NEW r \in Run, NothingUnpaid(r)
      PROVE  Done'
  BY <1>2 DEF NothingUnpaid, MayStart
<1>3. ASSUME NEW r \in Run, NEW pool \in setup.pools, Plan(r, pool)
      PROVE  Done'
  <2>1. /\ pc[r] = "idle" /\ UNCHANGED <<chunk, unmarked, report, chain>>
        /\ \A x \in Run : x # r => pc'[x] = pc[x]
    BY <1>3 DEF Plan, MayStart
  <2> QED
    BY <2>1
<1>4. ASSUME NEW r \in Run, NEW pool \in setup.pools, DryRun(r, pool)
      PROVE  Done'
  BY <1>4 DEF DryRun, MayStart
<1>5. ASSUME NEW r \in Run, StartFails(r)
      PROVE  Done'
  BY <1>b, <1>5 DEF StartFails
<1>6. ASSUME NEW r \in Run, Send(r)
      PROVE  Done'
  <2>1. PICK d \in NextChunks(r) :
          /\ chunk' = [chunk EXCEPT ![r] = d]
          /\ inflight' = inflight \cup {<<r, d>>}
    BY <1>6 DEF Send
  <2>2. d \in SUBSET Wallet
    BY DEF NextChunks
  <2>3. /\ pc[r] = "loop" /\ pc' = [pc EXCEPT ![r] = "confirm"]
        /\ UNCHANGED <<unmarked, succeeded, landed>>
    BY <1>6 DEF Send
  <2>4. CASE q = r /\ c = d
    BY <2>1, <2>3, <2>4
  <2>5. CASE ~(q = r /\ c = d)
    <3>1. <<q, c>> \in inflight \cup landed
      BY <2>1, <2>3, <2>5
    <3> QED
      BY <2>1, <2>3, <3>1
  <2> QED
    BY <2>4, <2>5
<1>7. ASSUME NEW r \in Run, SendFails(r)
      PROVE  Done'
  BY <1>7 DEF SendFails
<1>8. ASSUME NEW r \in Run, Confirm(r)
      PROVE  Done'
  BY <1>8 DEF Confirm
<1>9. ASSUME NEW r \in Run, ConfirmFails(r)
      PROVE  Done'
  BY <1>b, <1>9 DEF ConfirmFails
<1>10. ASSUME NEW r \in Run, MarkPaid(r)
      PROVE  Done'
  <2>1. PICK w \in unmarked[r] :
          /\ succeeded' = [succeeded EXCEPT ![r] = @ \cup {w}]
          /\ unmarked' = [unmarked EXCEPT ![r] = @ \ {w}]
          /\ pc' = [pc EXCEPT ![r] = IF unmarked[r] = {w} THEN "loop" ELSE "mark"]
    BY <1>10 DEF MarkPaid
  <2>2. pc[r] = "mark" /\ UNCHANGED <<chunk, chain>>
    BY <1>10 DEF MarkPaid
  <2> QED
    BY <2>1, <2>2
<1>11. ASSUME NEW r \in Run, MarkPaidFails(r)
      PROVE  Done'
  BY <1>b, <1>11 DEF MarkPaidFails
<1>12. ASSUME NEW r \in Run, EndPass(r)
      PROVE  Done'
  BY <1>12 DEF EndPass
<1>13. ASSUME NEW r \in Run, Crash(r)
      PROVE  Done'
  BY <1>b, <1>13 DEF Crash
<1>14. ASSUME NEW tx \in inflight, Settle(tx)
      PROVE  Done'
  BY <1>14 DEF Settle, Land, Expire
<1>15. ASSUME UNCHANGED distribution
      PROVE  Done'
  BY <1>15 DEF distribution, payments
<1> HIDE <1>a, <1>c DEF Done, DistributeTypeOK, Running
<1>16. ASSUME NEW r \in Run, Start(r) \/ Step(r) \/ Crash(r)
      PROVE  Done'
  BY <1>2, <1>3, <1>4, <1>5, <1>6, <1>7, <1>8, <1>9, <1>10, <1>11, <1>12, <1>13,
     <1>16 DEF Start, Step
<1>17. Done'
  BY <1>1, <1>14, <1>15, <1>16 DEF DistributeNext
<1> QED
  BY <1>17 DEF Done

LEMMA NextLastTxPaysTheRow == DistributeTypeOK /\ EachPlanOnce /\ PlansAreOwed /\ LastTxPaysTheRow /\ [DistributeNext]_distribution => (LastTxPaysTheRow)'
<1> SUFFICES ASSUME DistributeTypeOK, EachPlanOnce, PlansAreOwed, LastTxPaysTheRow, [DistributeNext]_distribution
             PROVE  (LastTxPaysTheRow)'
  OBVIOUS
<1>0. setup' = setup
  BY DEF DistributeNext, distribution
<1> USE <1>0 DEF DistributeTypeOK, Running, Ended, ledger, memory, report, chain, EachPlanOnce, LastTxPaysTheRow, Tx
<1>1. ASSUME NEW w \in Wallet, NEW n \in Credits, Accrue(w, n)
      PROVE  (LastTxPaysTheRow)'
  BY <1>1 DEF Accrue, CreditRow
<1>2. ASSUME NEW r \in Run, NothingUnpaid(r)
      PROVE  (LastTxPaysTheRow)'
  BY <1>2 DEF NothingUnpaid, MayStart
<1>3. ASSUME NEW r \in Run, NEW pool \in setup.pools, Plan(r, pool)
      PROVE  (LastTxPaysTheRow)'
  <2>1. SplitMap(pool) \in [Wallet -> Nat]
    BY <1>3, SplitMapType DEF Plan
  <2> QED
    BY <1>3, <2>1 DEF Plan, MayStart, Plans, Chunked
<1>4. ASSUME NEW r \in Run, NEW pool \in setup.pools, DryRun(r, pool)
      PROVE  (LastTxPaysTheRow)'
  BY <1>4 DEF DryRun, MayStart
<1>5. ASSUME NEW r \in Run, StartFails(r)
      PROVE  (LastTxPaysTheRow)'
  BY <1>5 DEF StartFails, MayStart
<1>6. ASSUME NEW r \in Run, Send(r)
      PROVE  (LastTxPaysTheRow)'
  <2>1. PICK c \in NextChunks(r) :
          /\ chunk' = [chunk EXCEPT ![r] = c]
          /\ todo' = [todo EXCEPT ![r] = @ \ c]
          /\ inflight' = inflight \cup {<<r, c>>}
    BY <1>6 DEF Send
  <2>2. c \subseteq todo[r]
    BY DEF NextChunks
  <2> QED
    BY <1>6, <2>1, <2>2 DEF Send
<1>7. ASSUME NEW r \in Run, SendFails(r)
      PROVE  (LastTxPaysTheRow)'
  <2>1. PICK c \in NextChunks(r) :
          /\ todo' = [todo EXCEPT ![r] = @ \ c]
          /\ failed' = [failed EXCEPT ![r] = @ \cup c]
    BY <1>7 DEF SendFails
  <2>2. c \subseteq todo[r]
    BY DEF NextChunks
  <2> QED
    BY <1>7, <2>1, <2>2 DEF SendFails
<1>8. ASSUME NEW r \in Run, Confirm(r)
      PROVE  (LastTxPaysTheRow)'
  BY <1>8 DEF Confirm
<1>9. ASSUME NEW r \in Run, ConfirmFails(r)
      PROVE  (LastTxPaysTheRow)'
  BY <1>9 DEF ConfirmFails
<1>10. ASSUME NEW r \in Run, MarkPaid(r)
      PROVE  (LastTxPaysTheRow)'
  <2>1. PICK w \in unmarked[r] :
          /\ paid' = [paid EXCEPT ![w] = @ + share[r][w]]
          /\ lastTx' = [lastTx EXCEPT ![w] = <<r, chunk[r]>>]
          /\ succeeded' = [succeeded EXCEPT ![r] = @ \cup {w}]
          /\ unmarked' = [unmarked EXCEPT ![r] = @ \ {w}]
          /\ pc' = [pc EXCEPT ![r] = IF unmarked[r] = {w} THEN "loop" ELSE "mark"]
    BY <1>10 DEF MarkPaid
  <2>2. /\ w \in Wallet /\ share[r][w] > 0
        /\ <<r, chunk[r]>> \in landed /\ w \in chunk[r]
    BY <1>10 DEF MarkPaid, PlansAreOwed, Pending
  <2>3. landed' = landed /\ <<r, chunk[r]>> # NoTx
    BY <1>10, DistributeAssumption DEF MarkPaid
  <2>4. paid'[w] # 0 /\ lastTx'[w] = <<r, chunk[r]>>
    BY <2>1, <2>2
  <2>5. \A v \in Wallet : v # w => paid'[v] = paid[v] /\ lastTx'[v] = lastTx[v]
    BY <2>1
  <2>6. /\ lastTx'[w] # NoTx /\ lastTx'[w] \in landed' /\ w \in lastTx'[w][2]
    BY <2>2, <2>3, <2>4
  <2>7. \A v \in Wallet : v # w =>
          /\ lastTx'[v] = NoTx <=> paid'[v] = 0
          /\ lastTx'[v] # NoTx => lastTx'[v] \in landed' /\ v \in lastTx'[v][2]
    BY <2>3, <2>5
  <2> QED
    BY <2>4, <2>6, <2>7
<1>11. ASSUME NEW r \in Run, MarkPaidFails(r)
      PROVE  (LastTxPaysTheRow)'
  BY <1>11 DEF MarkPaidFails
<1>12. ASSUME NEW r \in Run, EndPass(r)
      PROVE  (LastTxPaysTheRow)'
  BY <1>12 DEF EndPass
<1>13. ASSUME NEW r \in Run, Crash(r)
      PROVE  (LastTxPaysTheRow)'
  BY <1>13 DEF Crash
<1>14. ASSUME NEW tx \in inflight, Settle(tx)
      PROVE  (LastTxPaysTheRow)'
  BY <1>14 DEF Settle, Land, Expire
<1>15. CASE UNCHANGED distribution
  BY <1>15 DEF distribution, payments
<1> QED
  BY <1>1, <1>2, <1>3, <1>4, <1>5, <1>6, <1>7,
     <1>8, <1>9, <1>10, <1>11, <1>12, <1>13, <1>14, <1>15 DEF DistributeNext, Start, Step

(* A pass gives a wallet up only when no transaction of its own pays it.   *)
LEMMA NextFailedMeansUnpaid ==
  DistributeTypeOK /\ EachPlanOnce /\ SentOnce /\ FailedIsGivenUp /\ FailedMeansUnpaid /\ [DistributeNext]_distribution
    => FailedMeansUnpaid'
<1> SUFFICES ASSUME DistributeTypeOK, EachPlanOnce, SentOnce, FailedIsGivenUp, FailedMeansUnpaid,
                    [DistributeNext]_distribution
             PROVE  FailedMeansUnpaid'
  OBVIOUS
<1>0. setup' = setup
  BY DEF DistributeNext, distribution
<1> SUFFICES ASSUME ~MayFail("confirm"), ~MayFail("busy"), NEW q \in Run, NEW v \in failed'[q]
             PROVE  /\ v \notin succeeded'[q]
                    /\ \A c \in SUBSET Wallet :
                         v \in c => <<q, c>> \notin inflight' \cup landed'
  BY <1>0 DEF FailedMeansUnpaid, LandedFor, MayFail
<1> DEFINE Unsent == /\ v \notin succeeded[q]
                     /\ \A c \in SUBSET Wallet :
                          v \in c => <<q, c>> \notin inflight \cup landed
<1>a. v \in failed[q] => Unsent
  <2> SUFFICES ASSUME v \in failed[q]
               PROVE  Unsent
    OBVIOUS
  <2>1. v \in Wallet
    BY DEF DistributeTypeOK
  <2> QED
    BY <2>1 DEF FailedMeansUnpaid, LandedFor
<1> SUFFICES Unsent'
  OBVIOUS
<1>b. CASE failed'[q] = failed[q] /\ succeeded' = succeeded
             /\ inflight' \cup landed' \subseteq inflight \cup landed
  BY <1>a, <1>b
<1> USE <1>a DEF DistributeTypeOK, Running, ledger, memory, report, chain
<1>1. ASSUME NEW r \in Run, Send(r)
      PROVE  Unsent'
  <2>1. PICK d \in NextChunks(r) : inflight' = inflight \cup {<<r, d>>}
    BY <1>1 DEF Send
  <2>2. d \subseteq todo[r] /\ pc[r] = "loop" /\ UNCHANGED <<report, landed>>
    BY <1>1 DEF Send, NextChunks
  <2>3. q = r => v \notin d
    BY <2>2 DEF FailedIsGivenUp
  <2>4. Unsent
    BY <2>2
  <2>5. v \notin succeeded'[q]
    BY <2>2, <2>4
  <2>6. \A c \in SUBSET Wallet : v \in c => <<q, c>> # <<r, d>>
    BY <2>3
  <2>7. \A c \in SUBSET Wallet : v \in c => <<q, c>> \notin inflight' \cup landed'
    BY <2>1, <2>2, <2>4, <2>6
  <2> QED
    BY <2>5, <2>7
<1>2. ASSUME NEW r \in Run, SendFails(r)
      PROVE  Unsent'
  <2>1. PICK d \in NextChunks(r) : failed' = [failed EXCEPT ![r] = @ \cup d]
    BY <1>2 DEF SendFails
  <2>2. d \subseteq todo[r] /\ pc[r] = "loop" /\ UNCHANGED <<succeeded, chain>>
    BY <1>2 DEF SendFails, NextChunks
  <2>3. CASE v \in failed[q]
    BY <2>2, <2>3
  <2>4. CASE v \notin failed[q]
    <3>1. q = r /\ v \in todo[r]
      BY <2>1, <2>2, <2>4
    <3>2. v \notin succeeded[q]
      BY <2>2, <3>1 DEF EachPlanOnce
    <3>3. \A c \in SUBSET Wallet : v \in c => <<q, c>> \notin inflight \cup landed
      BY <2>2, <3>1 DEF SentOnce
    <3> QED
      BY <2>2, <3>2, <3>3
  <2> QED
    BY <2>3, <2>4
<1>3. ASSUME NEW r \in Run, ConfirmFails(r)
      PROVE  Unsent'
  <2>1. /\ pc[r] = "confirm" /\ <<r, chunk[r]>> \notin inflight \cup landed
        /\ failed' = [failed EXCEPT ![r] = @ \cup chunk[r]]
        /\ UNCHANGED <<succeeded, chain>>
    BY <1>3 DEF ConfirmFails
  <2>2. CASE v \in failed[q]
    BY <2>1, <2>2
  <2>3. CASE v \notin failed[q]
    <3>1. q = r /\ v \in chunk[r]
      BY <2>1, <2>3
    <3>2. v \notin succeeded[q]
      BY <2>1, <3>1 DEF EachPlanOnce
    <3>3. \A c \in SUBSET Wallet : v \in c => <<q, c>> \notin inflight \cup landed
      <4> SUFFICES ASSUME NEW c \in SUBSET Wallet, v \in c, <<q, c>> \in inflight \cup landed
                   PROVE  FALSE
        OBVIOUS
      <4>1. c = chunk[r]
        BY <2>1, <3>1 DEF SentOnce
      <4> QED
        BY <2>1, <3>1, <4>1
    <3> QED
      BY <2>1, <3>2, <3>3
  <2> QED
    BY <2>2, <2>3
<1>4. ASSUME NEW r \in Run, MarkPaid(r)
      PROVE  Unsent'
  <2>1. PICK w \in unmarked[r] : succeeded' = [succeeded EXCEPT ![r] = @ \cup {w}]
    BY <1>4 DEF MarkPaid
  <2>2. /\ w \in chunk[r] /\ <<r, chunk[r]>> \in landed
        /\ UNCHANGED <<failed, chain>>
    BY <1>4 DEF MarkPaid, EachPlanOnce
  <2>3. Unsent
    BY <2>2
  <2>4. q = r => v # w
    BY <2>2, <2>3
  <2> QED
    BY <2>1, <2>2, <2>3, <2>4
<1>5. ASSUME NEW tx \in inflight, Settle(tx)
      PROVE  Unsent'
  BY <1>5 DEF Settle, Land, Expire
<1>6. CASE /\ \A r \in Run : ~Send(r) /\ ~SendFails(r) /\ ~ConfirmFails(r) /\ ~MarkPaid(r)
           /\ \A tx \in inflight : ~Settle(tx)
  <2>1. UNCHANGED <<failed, succeeded, inflight, landed>>
    BY <1>6 DEF DistributeNext, distribution, payments, Start, Step, Accrue, CreditRow, NothingUnpaid, Plan,
         DryRun, StartFails, Confirm, MarkPaidFails, EndPass, Crash
  <2> QED
    BY <2>1
<1> HIDE DEF Unsent
<1> QED
  BY <1>1, <1>2, <1>3, <1>4, <1>5, <1>6

LEMMA InitReport == DistributeInit => ReportInv
<1> SUFFICES ASSUME DistributeInit
             PROVE  ReportInv
  OBVIOUS
<1>1. \A r \in Run : \A c \in SUBSET Wallet : <<r, c>> \notin inflight \cup landed
  BY DEF DistributeInit
<1>2. PlansAreOwed /\ NobodyForgotten /\ FailedIsGivenUp
  BY DEF DistributeInit, PlansAreOwed, Pending, NobodyForgotten, FailedIsGivenUp, Running
<1>3. NothingSentInNoChunk /\ SentOnce /\ SentIsMarked
  BY <1>1 DEF DistributeInit, NothingSentInNoChunk, SentNothing, SentOnce, SentIsMarked, Running
<1>4. LastTxPaysTheRow /\ FailedMeansUnpaid
  BY DEF DistributeInit, LastTxPaysTheRow, FailedMeansUnpaid
<1> QED
  BY <1>2, <1>3, <1>4 DEF ReportInv

LEMMA NextReport == DistributeTypeOK /\ EachPlanOnce /\ ReportInv /\ [DistributeNext]_distribution => ReportInv'
<1> SUFFICES ASSUME DistributeTypeOK, EachPlanOnce, ReportInv, [DistributeNext]_distribution
             PROVE  ReportInv'
  OBVIOUS
<1> USE DEF ReportInv
<1>1. PlansAreOwed' /\ NobodyForgotten' /\ NothingSentInNoChunk' /\ SentOnce'
  BY NextPlansAreOwed, NextNobodyForgotten, NextNothingSentInNoChunk, NextSentOnce
<1>2. FailedIsGivenUp' /\ SentIsMarked' /\ LastTxPaysTheRow' /\ FailedMeansUnpaid'
  BY NextFailedIsGivenUp, NextSentIsMarked, NextLastTxPaysTheRow, NextFailedMeansUnpaid
<1> QED
  BY <1>1, <1>2

(* The inductive invariant behind PaidIsOnChain and                        *)
(* NeverMarkedBeyondAccrual holds in every state.                          *)
THEOREM BooksInvariant == DistributeSpec => []BooksInv
<1>1. DistributeInit => BooksInv
  BY InitTypeOK, InitBooks, InitSnapshotsFit, InitReport DEF BooksInv
<1>2. BooksInv /\ [DistributeNext]_distribution => BooksInv'
  BY NextDistributeTypeOK, NextEachPlanOnce, NextMarkedHasLanded, NextPaidIsWhatWasMarked,
     NextSnapshotsFit, NextReport DEF BooksInv
<1> QED
  BY <1>1, <1>2, PTL DEF DistributeSpec

LEMMA BooksInvSuffices == BooksInv => PaidIsOnChain
<1> SUFFICES ASSUME BooksInv, NEW w \in Wallet
             PROVE  paid[w] <= Received(w)
  BY DEF PaidIsOnChain
<1> DEFINE given == [r \in Run |-> share[r][w]]
<1>1. paid[w] = Total(given, MarkedFor(w))
  BY DEF BooksInv, PaidIsWhatWasMarked
<1>2. MarkedFor(w) \subseteq LandedFor(w)
  BY DEF BooksInv, MarkedHasLanded, MarkedFor
<1>3. IsFiniteSet(LandedFor(w)) /\ LandedFor(w) \subseteq Run
  BY DistributeAssumption, FS_Subset DEF LandedFor
<1>4. \A r \in LandedFor(w) : given[r] \in Nat
  BY <1>3 DEF BooksInv, DistributeTypeOK
<1> HIDE DEF given
<1>5. Total(given, MarkedFor(w)) <= Total(given, LandedFor(w))
  BY <1>2, <1>3, <1>4, TotalMonotone
<1> QED
  BY <1>1, <1>5 DEF Received, given

(* The ledger never records a payment the chain did not make: under every  *)
(* combination of faults, for any number of wallets, passes (overlapping   *)
(* or not), chunk sizes and pools, `paid` is covered by landed transfers.  *)
THEOREM PaidNeverAheadOfChain == DistributeSpec => []PaidIsOnChain
BY BooksInvariant, BooksInvSuffices, PTL

(* One operator, 1:1: however passes crash, time out or fail half-way      *)
(* through a chunk, and whatever is credited meanwhile, no row is marked   *)
(* paid beyond what it accrued.                                            *)
THEOREM OneOperatorNeverOvermarks == DistributeSpec => []NeverMarkedBeyondAccrual
<1>1. BooksInv => NeverMarkedBeyondAccrual
  BY DEF BooksInv, SnapshotsFit, NeverMarkedBeyondAccrual
<1> QED
  BY <1>1, BooksInvariant, PTL

(* The signature on a row is that of a landed transaction that pays this   *)
(* wallet, and it is there exactly when something was marked paid.         *)
THEOREM StampIsAudited == DistributeSpec => []LastTxPaysTheRow
<1>1. BooksInv => LastTxPaysTheRow
  BY DEF BooksInv, ReportInv
<1> QED
  BY <1>1, BooksInvariant, PTL

(* A wallet on the failure list got nothing and never will, unless         *)
(* confirming or marking fails by itself.                                  *)
THEOREM FailedCanBePaidAgain == DistributeSpec => []FailedMeansUnpaid
<1>1. BooksInv => FailedMeansUnpaid
  BY DEF BooksInv, ReportInv
<1> QED
  BY <1>1, BooksInvariant, PTL

(* Exit code 0 means that everybody planned for was paid on chain and in   *)
(* the ledger, or, with --dry-run or a --chunk that is not a number,       *)
(* nobody at all.                                                          *)
THEOREM ExitZeroIsAPromise == DistributeSpec => []ExitZeroPaidEveryone
<1>1. BooksInv => ExitZeroPaidEveryone
  <2>0. \A r \in Run : pc[r] = "previewed" /\ BooksInv => ExitCode(r) = 0 /\ SentNothing(r)
    BY DEF ExitCode, BooksInv, ReportInv, NothingSentInNoChunk
  <2> SUFFICES ASSUME BooksInv, NEW r \in Run, pc[r] = "done", ExitCode(r) = 0
               PROVE  IF setup.chunkSize \in Nat THEN PaidEveryone(r) ELSE SentNothing(r)
    BY <2>0 DEF ExitZeroPaidEveryone
  <2>1. failed[r] = {}
    BY DEF ExitCode
  <2>2. Pending(r) = {}
    BY DEF Pending, Running
  <2>3. CASE setup.chunkSize \in Nat
    <3>1. \A w \in Wallet : share[r][w] > 0 => w \in succeeded[r]
      BY <2>1, <2>2, <2>3 DEF BooksInv, ReportInv, NobodyForgotten
    <3>2. \A w \in succeeded[r] : r \in LandedFor(w)
      BY DEF BooksInv, MarkedHasLanded
    <3> QED
      BY <2>3, <3>1, <3>2 DEF PaidEveryone
  <2>4. CASE setup.chunkSize \notin Nat
    <3>1. setup.chunkSize = NaN
      BY <2>4, DistributeAssumption DEF BooksInv, DistributeTypeOK, Setup
    <3> QED
      BY <2>4, <3>1 DEF BooksInv, ReportInv, NothingSentInNoChunk
  <2> QED
    BY <2>3, <2>4
<1> QED
  BY <1>1, BooksInvariant, PTL

(* Unless confirming or marking fails or a pass dies, ledger and chain     *)
(* agree to the unit whenever no pass is at work.                          *)
THEOREM LedgerAndChainAgree == DistributeSpec => []BooksBalance
<1>1. BooksInv => BooksBalance
  <2> SUFFICES ASSUME BooksInv, Dependable, \A r \in Run : pc[r] \notin Running,
                      NEW w \in Wallet
               PROVE  paid[w] = Received(w)
    BY DEF BooksBalance
  <2>1. paid[w] = Total([r \in Run |-> share[r][w]], MarkedFor(w))
    BY DEF BooksInv, PaidIsWhatWasMarked
  <2>2. MarkedFor(w) \subseteq LandedFor(w)
    BY DEF BooksInv, MarkedHasLanded, MarkedFor
  <2>3. ASSUME NEW r \in LandedFor(w)
        PROVE  r \in MarkedFor(w)
    <3>1. PICK c \in SUBSET Wallet : w \in c /\ r \in Run /\ <<r, c>> \in landed
      BY DEF LandedFor
    <3>2. pc[r] \notin {"confirm", "mark"}
      BY <3>1 DEF Running
    <3> QED
      BY <3>1, <3>2 DEF BooksInv, ReportInv, SentIsMarked, MarkedFor
  <2>4. MarkedFor(w) = LandedFor(w)
    BY <2>2, <2>3
  <2> QED
    BY <2>1, <2>4 DEF Received
<1> QED
  BY <1>1, BooksInvariant, PTL

(* The floored shares of a pool never exceed it, and the dust is less than *)
(* one unit per unpaid row, for every ledger and every pool.               *)
THEOREM PoolIsNeverOverspent == DistributeSpec => []PoolIsRespected
<1>1. DistributeTypeOK => PoolIsRespected
  <2> SUFFICES ASSUME DistributeTypeOK, Unpaid # {}, NEW pool \in setup.pools \ {NoPool}
               PROVE  /\ Total(SplitMap(pool), Wallet) <= pool
                      /\ pool - Total(SplitMap(pool), Wallet) < Cardinality(Unpaid)
    BY DEF PoolIsRespected
  <2> DEFINE owed == Outstanding
             part == SplitMap(pool)
             owedInAll == Total(owed, Wallet)
             given == Total(part, Wallet)
             scaled == [w \in Wallet |-> owed[w] * pool]
             whole == [w \in Wallet |-> part[w] * owedInAll]
             more == [w \in Wallet |-> part[w] + 1]
             above == [w \in Wallet |-> (part[w] + 1) * owedInAll]
             scaledUp == [w \in Wallet |-> owed[w] * pool + 1]
  <2>1. /\ pool \in Nat /\ owedInAll \in Nat \ {0}
        /\ owed \in [Wallet -> Nat] /\ part \in [Wallet -> Nat]
    BY PoolType, TotalOwedPositive, OutstandingType, SplitMapType
  <2>2. \A w \in Wallet : part[w] = (owed[w] * pool) \div owedInAll
    BY DEF SplitMap, ProportionalSplit
  <2>3. /\ IsFiniteSet(Wallet) /\ Unpaid \subseteq Wallet /\ IsFiniteSet(Unpaid)
        /\ Cardinality(Unpaid) \in Nat
    BY DistributeAssumption, FS_Subset, FS_CardinalityType DEF Unpaid
  <2>4. \A w \in Wallet \ Unpaid : owed[w] = 0
    BY DEF Outstanding
  <2> HIDE DEF owed, part
  <2>5. owedInAll = Total(owed, Unpaid)
    BY <2>3, <2>4, TotalSupport
  <2>6. given \in Nat
    BY <2>1, <2>3, TotalNat
  <2> HIDE DEF owedInAll
  <2>7. \A w \in Wallet : scaled[w] \in Nat /\ whole[w] \in Nat /\ more[w] \in Nat
                            /\ above[w] \in Nat
    BY <2>1
  <2>8. \A w \in Wallet : whole[w] <= scaled[w] /\ scaledUp[w] <= above[w]
    <3> SUFFICES ASSUME NEW w \in Wallet
                 PROVE  whole[w] <= scaled[w] /\ scaledUp[w] <= above[w]
      OBVIOUS
    <3> DEFINE m == owed[w] * pool
    <3>1. m \in Nat /\ part[w] = m \div owedInAll
      BY <2>1, <2>2
    <3> HIDE DEF m
    <3>2. owedInAll * part[w] <= m /\ m < owedInAll * part[w] + owedInAll
      BY <2>1, <3>1, Division
    <3>3. /\ part[w] * owedInAll = owedInAll * part[w]
          /\ (part[w] + 1) * owedInAll = owedInAll * part[w] + owedInAll
          /\ owedInAll * part[w] \in Nat
      BY <2>1
    <3>4. part[w] * owedInAll <= m /\ m + 1 <= (part[w] + 1) * owedInAll
      BY <2>1, <3>1, <3>2, <3>3
    <3> QED
      BY <3>4 DEF m
  <2>9. Total(whole, Wallet) = given * owedInAll
    BY <2>1, <2>3, TotalScale
  <2>10. Total(scaled, Wallet) = Total(owed, Wallet) * pool
    BY <2>1, <2>3, TotalScale
  <2>11. Total(whole, Wallet) <= Total(scaled, Wallet)
    BY <2>3, <2>7, <2>8, TotalPointwise
  <2>12. given <= pool
    <3>1. given * owedInAll <= owedInAll * pool
      BY <2>9, <2>10, <2>11 DEF owedInAll
    <3>2. ASSUME pool < given
          PROVE  FALSE
      <4>1. owedInAll * pool + owedInAll <= given * owedInAll
        <5>1. pool + 1 <= given
          BY <2>1, <2>6, <3>2
        <5>2. owedInAll * (pool + 1) <= owedInAll * given
          BY <2>1, <2>6, <5>1
        <5> QED
          BY <2>1, <2>6, <5>2
      <4>2. owedInAll * pool \in Nat /\ given * owedInAll \in Nat
        BY <2>1, <2>6
      <4> QED
        BY <2>1, <3>1, <4>1, <4>2
    <3> QED
      BY <2>1, <2>6, <3>2
  <2>13. pool - given < Cardinality(Unpaid)
    <3>1. Total(scaledUp, Unpaid) = Total(scaled, Unpaid) + Cardinality(Unpaid)
      BY <2>3, <2>7, TotalPlusOne
    <3>2. Total(scaled, Unpaid) = Total(owed, Unpaid) * pool
      BY <2>1, <2>3, TotalScale
    <3>3. Total(above, Unpaid) = Total(more, Unpaid) * owedInAll
      BY <2>1, <2>3, <2>7, TotalScale
    <3>4. Total(more, Unpaid) = Total(part, Unpaid) + Cardinality(Unpaid)
      BY <2>1, <2>3, TotalPlusOne
    <3>5. Total(scaledUp, Unpaid) <= Total(above, Unpaid)
      <4>1. \A w \in Unpaid : scaledUp[w] \in Nat /\ above[w] \in Nat
                                /\ scaledUp[w] <= above[w]
        BY <2>3, <2>7, <2>8
      <4> QED
        BY <2>3, <4>1, TotalPointwise
    <3>6. Total(part, Unpaid) <= given /\ Total(part, Unpaid) \in Nat
      BY <2>1, <2>3, TotalMonotone, TotalNat
    <3> DEFINE n == Cardinality(Unpaid)  mine == Total(part, Unpaid)
    <3>7. owedInAll * pool + n <= (mine + n) * owedInAll
      BY <2>5, <3>1, <3>2, <3>3, <3>4, <3>5
    <3> HIDE DEF n, mine
    <3>8. n \in Nat \ {0}
      <4>1. n # 0
        BY <2>3, FS_EmptySet DEF n
      <4> QED
        BY <2>3, <4>1 DEF n
    <3>9. mine \in Nat /\ mine <= given
      BY <3>6 DEF mine
    <3>10. ASSUME mine + n <= pool
           PROVE  FALSE
      <4>1. (mine + n) * owedInAll <= owedInAll * pool
        BY <2>1, <3>8, <3>9, <3>10
      <4>2. owedInAll * pool \in Nat /\ (mine + n) * owedInAll \in Nat
        BY <2>1, <3>8, <3>9
      <4> QED
        BY <3>7, <3>8, <4>1, <4>2
    <3>11. pool < mine + n
      BY <2>1, <3>8, <3>9, <3>10
    <3>12. pool - given < n
      BY <2>1, <2>6, <3>8, <3>9, <3>11
    <3> QED
      BY <3>12 DEF n
  <2> QED
    BY <2>12, <2>13 DEF part
<1> QED
  BY <1>1, DistributeTypeCorrect, PTL
-----------------------------------------------------------------------------
(* A pass by itself: why it aborts, and why it ends                        *)

(* A step that leaves pass r where it is and broadcasts nothing for it.    *)
Aside(r) ==
  /\ pc'[r] = pc[r] /\ share'[r] = share[r] /\ todo'[r] = todo[r]
  /\ chunk'[r] = chunk[r] /\ unmarked'[r] = unmarked[r]
  /\ succeeded'[r] = succeeded[r] /\ failed'[r] = failed[r]
  /\ \A c \in SUBSET Wallet :
       <<r, c>> \in inflight' \cup landed' => <<r, c>> \in inflight \cup landed

LEMMA CreditsStandAside ==
  ASSUME DistributeTypeOK, NEW w \in Wallet, NEW n \in Credits, Accrue(w, n), NEW r \in Run
  PROVE  Aside(r)
BY DEF Accrue, CreditRow, memory, report, chain, Aside

LEMMA ChainStandsAside ==
  ASSUME DistributeTypeOK, NEW tx \in inflight, Settle(tx), NEW r \in Run
  PROVE  Aside(r)
BY DEF Settle, Land, Expire, memory, report, Aside

LEMMA StutteringStandsAside ==
  ASSUME UNCHANGED distribution, NEW r \in Run
  PROVE  Aside(r)
BY DEF distribution, payments, memory, report, chain, Aside

(* Passes share nothing but the ledger and the chain.                      *)
LEMMA OthersStandAside ==
  ASSUME DistributeTypeOK, NEW q \in Run, Start(q) \/ Step(q) \/ Crash(q), NEW r \in Run, r # q
  PROVE  Aside(r)
<1> USE DEF DistributeTypeOK, Aside, ledger, report, chain, memory
<1>1. CASE NothingUnpaid(q) \/ StartFails(q)
  BY <1>1 DEF NothingUnpaid, StartFails
<1>2. ASSUME NEW pool \in setup.pools, Plan(q, pool) \/ DryRun(q, pool)
      PROVE  Aside(r)
  BY <1>2 DEF Plan, DryRun
<1>3. CASE Send(q)
  BY <1>3 DEF Send
<1>4. CASE SendFails(q)
  BY <1>4 DEF SendFails
<1>5. CASE Confirm(q) \/ ConfirmFails(q)
  BY <1>5 DEF Confirm, ConfirmFails
<1>6. CASE MarkPaid(q)
  BY <1>6 DEF MarkPaid
<1>7. CASE MarkPaidFails(q)
  BY <1>7 DEF MarkPaidFails
<1>8. CASE EndPass(q) \/ Crash(q)
  BY <1>8 DEF EndPass, Crash
<1> QED
  BY <1>1, <1>2, <1>3, <1>4, <1>5, <1>6, <1>7, <1>8 DEF Start, Step

(* Every step is some pass's own or leaves all of them aside.              *)
LEMMA OwnStepOrAside ==
  ASSUME DistributeTypeOK, [DistributeNext]_distribution, NEW r \in Run
  PROVE  Aside(r) \/ Start(r) \/ Step(r) \/ Crash(r)
BY CreditsStandAside, ChainStandsAside, StutteringStandsAside, OthersStandAside DEF DistributeNext

(* What was credited once stays credited.                                  *)
LEMMA AccruedGrows ==
  ASSUME DistributeTypeOK, [DistributeNext]_distribution, NEW w \in Wallet
  PROVE  accrued'[w] >= accrued[w]
<1>1. CASE \E v \in Wallet, n \in Credits : Accrue(v, n)
  BY <1>1, DistributeAssumption DEF Accrue, CreditRow, DistributeTypeOK
<1>2. CASE \A v \in Wallet, n \in Credits : ~Accrue(v, n)
  <2>1. UNCHANGED accrued
    BY <1>2 DEF DistributeNext, distribution, payments, Start, Step, ledger, NothingUnpaid, Plan, DryRun,
         StartFails, Send, SendFails, Confirm, ConfirmFails, MarkPaid, MarkPaidFails,
         EndPass, Crash, Settle, Land, Expire
  <2> QED
    BY <2>1 DEF DistributeTypeOK
<1> QED
  BY <1>1, <1>2

(* Only a row that is due is planned for.                                  *)
LEMMA PlansAreUnpaid ==
  ASSUME DistributeTypeOK, Unpaid # {}, NEW pool \in setup.pools, NEW w \in Plans(pool)
  PROVE  w \in Wallet /\ accrued[w] > 0
<1>1. w \in Wallet /\ SplitMap(pool)[w] > 0
  BY DEF Plans
<1>2. Outstanding[w] # 0
  <2> SUFFICES ASSUME Outstanding[w] = 0
               PROVE  SplitMap(pool)[w] = 0
    BY <1>1
  <2>1. CASE pool = NoPool
    BY <1>1, <2>1 DEF SplitMap
  <2>2. CASE pool # NoPool
    <3>1. pool \in Nat /\ Total(Outstanding, Wallet) \in Nat \ {0}
      BY <2>2, PoolType, TotalOwedPositive
    <3>2. \A k \in Nat, n \in Nat \ {0} : (0 * k) \div n = 0
      OBVIOUS
    <3> QED
      BY <1>1, <2>2, <3>1, <3>2 DEF SplitMap, ProportionalSplit
  <2> QED
    BY <2>1, <2>2
<1> QED
  BY <1>1, <1>2 DEF Outstanding, Unpaid, DistributeTypeOK

(* A pass that exits with an error has sent nothing and lists nobody.  If  *)
(* it had planned for somebody, the chunk size was refused or a row with a *)
(* malformed address was due.                                              *)
HasCause(r) ==
  /\ SentNothing(r) /\ failed[r] = {}
  /\ (\E w \in Wallet : share[r][w] > 0) =>
        \/ ChunkRefused \/ MayFail("options")
        \/ \E w \in Malformed : accrued[w] > 0

(* A running pass has a usable chunk size, waits for a transaction that    *)
(* pays somebody, and has something to mark when it marks.                 *)
HasAStep(r) ==
  /\ pc[r] \in Running => ~ChunkRefused
  /\ pc[r] = "confirm" => chunk[r] # {}
  /\ pc[r] = "mark" => unmarked[r] # {}

PassInv == \A r \in Run : HasAStep(r) /\ (pc[r] = "aborted" => HasCause(r))

LEMMA AsideKeepsPassInv ==
  ASSUME DistributeTypeOK, [DistributeNext]_distribution, NEW r \in Run, Aside(r), HasAStep(r),
         pc[r] = "aborted" => HasCause(r)
  PROVE  (HasAStep(r) /\ (pc[r] = "aborted" => HasCause(r)))'
<1>1. setup' = setup
  BY DEF DistributeNext, distribution
<1>2. HasAStep(r)'
  BY <1>1 DEF Aside, HasAStep, ChunkRefused
<1>3. ASSUME pc[r] = "aborted"
      PROVE  HasCause(r)'
  <2>1. SentNothing(r)' /\ failed'[r] = {}
    BY <1>3 DEF HasCause, SentNothing, Aside
  <2>2. \A w \in Malformed : accrued[w] > 0 => accrued'[w] > 0
    <3>1. Malformed \subseteq Wallet
      BY DistributeAssumption
    <3>2. DistributeTypeOK'
      BY NextDistributeTypeOK
    <3> QED
      BY <3>1, <3>2, AccruedGrows DEF DistributeTypeOK
  <2>3. share'[r] = share[r]
    BY DEF Aside
  <2> QED
    BY <1>1, <1>3, <2>1, <2>2, <2>3 DEF HasCause, ChunkRefused, MayFail
<1> QED
  BY <1>2, <1>3 DEF Aside

(* A pass that starts: only Plan fixes its shares, and it aborts for a     *)
(* refused chunk size or a malformed row that is due.                      *)
LEMMA StartKeepsPassInv ==
  ASSUME DistributeTypeOK, EachPlanOnce, SentOnce, [DistributeNext]_distribution, NEW r \in Run, Start(r)
  PROVE  (HasAStep(r) /\ (pc[r] = "aborted" => HasCause(r)))'
<1>1. setup' = setup
  BY DEF DistributeNext, distribution
<1>2. SentNothing(r) /\ failed[r] = {} /\ \A w \in Wallet : share[r][w] = 0
  BY DEF Start, NothingUnpaid, Plan, DryRun, StartFails, MayStart, EachPlanOnce, SentOnce,
         SentNothing
<1>3. UNCHANGED <<report, chain, accrued>>
  BY DEF Start, NothingUnpaid, Plan, DryRun, StartFails, ledger
<1>4. SentNothing(r)' /\ failed'[r] = {}
  BY <1>2, <1>3 DEF report, chain, SentNothing
<1>5. CASE NothingUnpaid(r) \/ StartFails(r)
  <2>1. UNCHANGED share /\ pc'[r] \notin Running
    BY <1>5 DEF NothingUnpaid, StartFails, DistributeTypeOK, Running
  <2> QED
    BY <1>2, <1>4, <2>1 DEF HasAStep, HasCause, Running
<1>6. ASSUME NEW pool \in setup.pools, DryRun(r, pool)
      PROVE  (HasAStep(r) /\ (pc[r] = "aborted" => HasCause(r)))'
  <2>1. pc'[r] \notin Running
    BY <1>6 DEF DryRun, DistributeTypeOK, Running
  <2>2. pc'[r] = "aborted" => \E w \in Malformed : accrued'[w] > 0
    BY <1>3, <1>6, PlansAreUnpaid DEF DryRun, DistributeTypeOK
  <2> QED
    BY <1>4, <2>1, <2>2 DEF HasAStep, HasCause, Running
<1>7. ASSUME NEW pool \in setup.pools, Plan(r, pool)
      PROVE  (HasAStep(r) /\ (pc[r] = "aborted" => HasCause(r)))'
  <2>1. CASE pc'[r] = "loop" /\ ~ChunkRefused
    BY <1>1, <2>1 DEF HasAStep, ChunkRefused
  <2>2. CASE /\ pc'[r] = "aborted"
             /\ Plans(pool) \cap Malformed # {} \/ MayFail("options") \/ ChunkRefused
    <3>1. ChunkRefused' \/ MayFail("options")' \/ \E w \in Malformed : accrued'[w] > 0
      BY <1>1, <1>3, <1>7, <2>2, PlansAreUnpaid DEF ChunkRefused, MayFail, Plan
    <3> QED
      BY <1>4, <2>2, <3>1 DEF HasAStep, HasCause, Running
  <2> QED
    BY <1>7, <2>1, <2>2 DEF Plan, DistributeTypeOK
<1> QED
  BY <1>5, <1>6, <1>7 DEF Start

LEMMA StepKeepsPassInv ==
  ASSUME DistributeTypeOK, [DistributeNext]_distribution, NEW r \in Run, Step(r) \/ Crash(r), HasAStep(r)
  PROVE  (HasAStep(r) /\ (pc[r] = "aborted" => HasCause(r)))'
<1>1. setup' = setup
  BY DEF DistributeNext, distribution
<1> USE <1>1 DEF DistributeTypeOK, HasAStep, Running, ChunkRefused
<1>2. CASE Send(r)
  BY <1>2 DEF Send, NextChunks
<1>3. CASE SendFails(r)
  BY <1>3 DEF SendFails
<1>4. CASE Confirm(r) \/ ConfirmFails(r)
  BY <1>4 DEF Confirm, ConfirmFails
<1>5. CASE MarkPaid(r)
  BY <1>5 DEF MarkPaid
<1>6. CASE MarkPaidFails(r)
  BY <1>6 DEF MarkPaidFails
<1>7. CASE EndPass(r) \/ Crash(r)
  BY <1>7 DEF EndPass, Crash
<1> QED
  BY <1>2, <1>3, <1>4, <1>5, <1>6, <1>7 DEF Step

LEMMA PassInvariant == DistributeSpec => []PassInv
<1>1. DistributeInit => PassInv
  BY DEF DistributeInit, PassInv, HasAStep, Running
<1>2. BooksInv /\ PassInv /\ [DistributeNext]_distribution => PassInv'
  <2> SUFFICES ASSUME BooksInv, PassInv, [DistributeNext]_distribution, NEW r \in Run
               PROVE  (HasAStep(r) /\ (pc[r] = "aborted" => HasCause(r)))'
    BY DEF PassInv
  <2>1. DistributeTypeOK /\ EachPlanOnce /\ SentOnce
    BY DEF BooksInv, ReportInv
  <2>2. HasAStep(r) /\ (pc[r] = "aborted" => HasCause(r))
    BY DEF PassInv
  <2> QED
    BY <2>1, <2>2, OwnStepOrAside, AsideKeepsPassInv, StartKeepsPassInv, StepKeepsPassInv
<1> QED
  BY <1>1, <1>2, BooksInvariant, PTL DEF DistributeSpec

(* The cause of PaysEveryRow's failure is one of two: a malformed address  *)
(* is due, or an option is no good, as a --chunk that is not a positive    *)
(* number.  Otherwise the command does what distribute.ts:1 says: when a   *)
(* pass is over, every payable wallet it owed something to has its share   *)
(* on chain or is on the report.                                           *)
PaysEveryRowUnlessMistyped ==
  /\ setup.chunkSize \in Nat \ {0} /\ ~MayFail("options")
  /\ \A w \in Malformed : accrued[w] = 0
  => PaysEveryRow

THEOREM PayableRowsAreServed == DistributeSpec => []PaysEveryRowUnlessMistyped
<1>1. BooksInv /\ PassInv => PaysEveryRowUnlessMistyped
  <2> SUFFICES ASSUME BooksInv, PassInv, setup.chunkSize \in Nat \ {0},
                      ~MayFail("options"), \A w \in Malformed : accrued[w] = 0,
                      NEW r \in Run, pc[r] \in {"done", "aborted"},
                      NEW w \in Wallet \ (Malformed \cup OffCurve), share[r][w] > 0
               PROVE  r \in LandedFor(w) \/ w \in failed[r]
    BY DEF PaysEveryRowUnlessMistyped, PaysEveryRow
  <2>1. CASE pc[r] = "done"
    <3>1. w \in Pending(r) \cup succeeded[r] \cup failed[r]
      BY <2>1 DEF BooksInv, ReportInv, NobodyForgotten
    <3>2. Pending(r) = {}
      BY <2>1 DEF Pending, Running
    <3> QED
      BY <3>1, <3>2 DEF BooksInv, MarkedHasLanded
  <2>2. CASE pc[r] = "aborted"
    <3>1. HasCause(r) /\ ~ChunkRefused
      BY <2>2 DEF PassInv, ChunkRefused
    <3> QED
      BY <3>1 DEF HasCause
  <2> QED
    BY <2>1, <2>2
<1> QED
  BY <1>1, BooksInvariant, PassInvariant, PTL

(* Steps that remain                                                       *)

LEMMA WalletsCount ==
  ASSUME NEW S \in SUBSET Wallet
  PROVE  IsFiniteSet(S) /\ Cardinality(S) \in Nat /\ (S # {} => Cardinality(S) > 0)
<1>1. IsFiniteSet(S) /\ Cardinality(S) \in Nat
  BY DistributeAssumption, FS_Subset, FS_CardinalityType
<1> QED
  BY <1>1, FS_EmptySet

LEMMA TakingOut ==
  ASSUME NEW S \in SUBSET Wallet, NEW c \in SUBSET S
  PROVE  Cardinality(S \ c) = Cardinality(S) - Cardinality(c)
<1>1. IsFiniteSet(S) /\ S \cap c = c
  BY WalletsCount
<1> QED
  BY <1>1, FS_Difference

LEMMA StepWindsDown ==
  ASSUME DistributeTypeOK, NEW r \in Run, HasAStep(r), Step(r) \/ Crash(r)
  PROVE  StepsLeft(r)' < StepsLeft(r)
<1> DEFINE t == Cardinality(todo[r])
<1>1. todo[r] \in SUBSET Wallet /\ chunk[r] \in SUBSET Wallet /\ unmarked[r] \in SUBSET Wallet
  BY DEF DistributeTypeOK
<1>2. /\ t \in Nat /\ Cardinality(chunk[r]) \in Nat /\ Cardinality(unmarked[r]) \in Nat
      /\ pc[r] = "confirm" => Cardinality(chunk[r]) > 0
      /\ pc[r] = "mark" => Cardinality(unmarked[r]) > 0
  BY <1>1, WalletsCount DEF HasAStep
<1> HIDE DEF t
<1>3. CASE Send(r)
  <2>1. PICK c \in NextChunks(r) :
          /\ chunk' = [chunk EXCEPT ![r] = c]
          /\ todo' = [todo EXCEPT ![r] = @ \ c]
    BY <1>3 DEF Send
  <2>2. c \in SUBSET todo[r] /\ c # {}
    BY DEF NextChunks
  <2>3. Cardinality(todo[r] \ c) = t - Cardinality(c)
    BY <1>1, <2>2, TakingOut DEF t
  <2>4. Cardinality(c) \in Nat /\ Cardinality(c) > 0
    BY <1>1, <2>2, WalletsCount
  <2>5. pc[r] = "loop" /\ pc'[r] = "confirm" /\ chunk'[r] = c /\ todo'[r] = todo[r] \ c
    BY <1>3, <2>1 DEF Send, DistributeTypeOK
  <2>6. StepsLeft(r) = 3 * t + 1
    BY <2>5 DEF StepsLeft, t
  <2>7. StepsLeft(r)' = 3 * (t - Cardinality(c)) + Cardinality(c) + 2
    BY <2>3, <2>5 DEF StepsLeft
  <2> QED
    BY <1>2, <2>4, <2>6, <2>7
<1>4. CASE SendFails(r)
  <2>1. PICK c \in NextChunks(r) : todo' = [todo EXCEPT ![r] = @ \ c]
    BY <1>4 DEF SendFails
  <2>2. c \in SUBSET todo[r] /\ c # {}
    BY DEF NextChunks
  <2>3. Cardinality(todo[r] \ c) = t - Cardinality(c)
    BY <1>1, <2>2, TakingOut DEF t
  <2>4. Cardinality(c) \in Nat /\ Cardinality(c) > 0
    BY <1>1, <2>2, WalletsCount
  <2>5. pc[r] = "loop" /\ pc'[r] = "loop" /\ todo'[r] = todo[r] \ c
    BY <1>4, <2>1 DEF SendFails, DistributeTypeOK
  <2>6. StepsLeft(r) = 3 * t + 1
    BY <2>5 DEF StepsLeft, t
  <2>7. StepsLeft(r)' = 3 * (t - Cardinality(c)) + 1
    BY <2>3, <2>5 DEF StepsLeft
  <2> QED
    BY <1>2, <2>4, <2>6, <2>7
<1>5. CASE Confirm(r)
  <2>1. pc[r] = "confirm" /\ pc'[r] = "mark" /\ unmarked'[r] = chunk[r] /\ todo'[r] = todo[r]
    BY <1>5 DEF Confirm, DistributeTypeOK
  <2>2. StepsLeft(r) = 3 * t + Cardinality(chunk[r]) + 2
    BY <2>1 DEF StepsLeft, t
  <2>3. StepsLeft(r)' = 3 * t + Cardinality(chunk[r]) + 1
    BY <2>1 DEF StepsLeft, t
  <2> QED
    BY <1>2, <2>2, <2>3
<1>6. CASE ConfirmFails(r)
  <2>1. pc[r] = "confirm" /\ pc'[r] = "loop" /\ todo'[r] = todo[r]
    BY <1>6 DEF ConfirmFails, DistributeTypeOK
  <2>2. StepsLeft(r) = 3 * t + Cardinality(chunk[r]) + 2
    BY <2>1 DEF StepsLeft, t
  <2>3. StepsLeft(r)' = 3 * t + 1
    BY <2>1 DEF StepsLeft, t
  <2> QED
    BY <1>2, <2>2, <2>3
<1>7. CASE MarkPaid(r)
  <2>1. PICK w \in unmarked[r] :
          /\ unmarked' = [unmarked EXCEPT ![r] = @ \ {w}]
          /\ pc' = [pc EXCEPT ![r] = IF unmarked[r] = {w} THEN "loop" ELSE "mark"]
    BY <1>7 DEF MarkPaid
  <2>2. pc[r] = "mark" /\ todo'[r] = todo[r] /\ unmarked'[r] = unmarked[r] \ {w}
    BY <1>7, <2>1 DEF MarkPaid, DistributeTypeOK
  <2>3. StepsLeft(r) = 3 * t + Cardinality(unmarked[r]) + 1
    BY <2>2 DEF StepsLeft, t
  <2>4. CASE unmarked[r] = {w}
    <3>1. pc'[r] = "loop"
      BY <2>1, <2>4 DEF DistributeTypeOK
    <3>2. StepsLeft(r)' = 3 * t + 1
      BY <2>2, <3>1 DEF StepsLeft, t
    <3> QED
      BY <1>2, <2>2, <2>3, <3>2
  <2>5. CASE unmarked[r] # {w}
    <3>1. pc'[r] = "mark"
      BY <2>1, <2>5 DEF DistributeTypeOK
    <3>2. Cardinality(unmarked[r] \ {w}) = Cardinality(unmarked[r]) - 1
      BY <1>1, <2>1, WalletsCount, FS_RemoveElement
    <3>3. StepsLeft(r)' = 3 * t + (Cardinality(unmarked[r]) - 1) + 1
      BY <2>2, <3>1, <3>2 DEF StepsLeft, t
    <3> QED
      BY <1>2, <2>3, <3>3
  <2> QED
    BY <2>4, <2>5
<1>8. CASE MarkPaidFails(r)
  <2>1. pc[r] = "mark" /\ pc'[r] = "loop" /\ todo'[r] = todo[r]
    BY <1>8 DEF MarkPaidFails, DistributeTypeOK
  <2>2. StepsLeft(r) = 3 * t + Cardinality(unmarked[r]) + 1
    BY <2>1 DEF StepsLeft, t
  <2>3. StepsLeft(r)' = 3 * t + 1
    BY <2>1 DEF StepsLeft, t
  <2> QED
    BY <1>2, <2>1, <2>2, <2>3
<1>9. CASE EndPass(r) \/ Crash(r)
  <2>1. pc[r] \in Running /\ pc'[r] \in {"done", "crashed"}
    BY <1>9 DEF EndPass, Crash, DistributeTypeOK, Running
  <2>2. StepsLeft(r)' = 0
    BY <2>1 DEF StepsLeft
  <2>3. StepsLeft(r) > 0
    BY <1>2, <2>1 DEF StepsLeft, Running, t
  <2> QED
    BY <2>2, <2>3
<1> QED
  BY <1>3, <1>4, <1>5, <1>6, <1>7, <1>8, <1>9 DEF Step

(* The safety half of PassEnds: every step of a pass brings its end nearer,*)
(* and nobody else's step takes it further away.                           *)
THEOREM PassesWindDown == DistributeSpec => NoPassGoesRound
<1>1. BooksInv /\ PassInv /\ [DistributeNext]_distribution =>
        [\A r \in Run : pc[r] \in Running =>
           \/ StepsLeft(r)' < StepsLeft(r)
           \/ UNCHANGED <<pc[r], todo[r], chunk[r], unmarked[r], succeeded[r], failed[r]>>]_distribution
  <2> SUFFICES ASSUME BooksInv, PassInv, [DistributeNext]_distribution, NEW r \in Run, pc[r] \in Running
               PROVE  \/ StepsLeft(r)' < StepsLeft(r)
                      \/ UNCHANGED <<pc[r], todo[r], chunk[r], unmarked[r], succeeded[r], failed[r]>>
    OBVIOUS
  <2>1. DistributeTypeOK /\ HasAStep(r)
    BY DEF BooksInv, PassInv
  <2>2. ~Start(r)
    BY DEF Start, NothingUnpaid, Plan, DryRun, StartFails, MayStart, Running
  <2> QED
    BY <2>1, <2>2, OwnStepOrAside, StepWindsDown DEF Aside
<1> QED
  BY <1>1, BooksInvariant, PassInvariant, PTL DEF DistributeSpec, NoPassGoesRound

(* A finite set has a subset of every size up to its own.                  *)
LEMMA SubsetOfSize ==
  ASSUME NEW S, IsFiniteSet(S), NEW k \in Nat, k <= Cardinality(S)
  PROVE  \E c \in SUBSET S : Cardinality(c) = k
<1> DEFINE n == Cardinality(S)
<1>1. n \in Nat /\ ExistsBijection(1..n, S)
  BY FS_CardinalityType
<1>2. PICK f : f \in Bijection(1..n, S)
  BY <1>1 DEF ExistsBijection
<1>3. f \in [1..n -> S] /\ \A i, j \in 1..n : f[i] = f[j] => i = j
  BY <1>2, Fun_BijectionProperties
<1> DEFINE c == { f[i] : i \in 1..k }
           g == [i \in 1..k |-> f[i]]
<1>4. 1..k \subseteq 1..n
  BY <1>1
<1>5. c \in SUBSET S
  BY <1>3, <1>4
<1>6. g \in [1..k -> c] /\ (\A i, j \in 1..k : g[i] = g[j] => i = j)
                        /\ (\A x \in c : \E i \in 1..k : g[i] = x)
  BY <1>3, <1>4
<1> HIDE DEF c, g, n
<1>7. g \in Bijection(1..k, c)
  BY <1>6, Fun_IsBij
<1>8. Cardinality(c) = k
  BY <1>7, FS_CountingElements DEF ExistsBijection
<1> QED
  BY <1>5, <1>8

(* A running pass always has a next step: in its loop it can end or there  *)
(* is a chunk to send or give up, whatever the chunk size; and it has a    *)
(* plan to mark when it marks.  (While it waits for a confirmation, the    *)
(* transaction has landed, or is dead, or the network can still decide it.)*)
HasNext(r) ==
  /\ pc[r] = "loop" => todo[r] = {} \/ NextChunks(r) # {}
  /\ pc[r] = "mark" => unmarked[r] # {}

NoPassIsStuck == \A r \in Run : HasNext(r)

THEOREM PassesCanGoOn == DistributeSpec => []NoPassIsStuck
<1>1. BooksInv /\ PassInv => NoPassIsStuck
  <2> SUFFICES ASSUME BooksInv, PassInv, NEW r \in Run, pc[r] = "loop", todo[r] # {}
               PROVE  NextChunks(r) # {}
    BY DEF NoPassIsStuck, HasNext, PassInv, HasAStep
  <2>1. todo[r] \in SUBSET Wallet
    BY DEF BooksInv, DistributeTypeOK
  <2>2. IsFiniteSet(todo[r]) /\ Cardinality(todo[r]) \in Nat
    BY <2>1, WalletsCount
  <2>3. setup.chunkSize \in Nat \ {0}
    <3>1. setup.chunkSize \in Nat \cup {NaN} /\ setup.chunkSize # NaN
      BY DistributeAssumption
         DEF BooksInv, DistributeTypeOK, Setup, ReportInv, NothingSentInNoChunk
    <3>2. ~ChunkRefused
      BY DEF PassInv, HasAStep, Running
    <3> QED
      BY <3>1, <3>2 DEF ChunkRefused
  <2>4. CASE Cardinality(todo[r]) < setup.chunkSize
    <3>1. todo[r] \in NextChunks(r)
      BY <2>4 DEF NextChunks
    <3> QED
      BY <3>1
  <2>5. CASE setup.chunkSize <= Cardinality(todo[r])
    <3>1. PICK c \in SUBSET todo[r] : Cardinality(c) = setup.chunkSize
      BY <2>2, <2>3, <2>5, SubsetOfSize
    <3>2. c # {}
      BY <2>3, <3>1, FS_EmptySet
    <3>3. c \in NextChunks(r)
      BY <3>1, <3>2 DEF NextChunks
    <3> QED
      BY <3>3
  <2> QED
    BY <2>2, <2>3, <2>4, <2>5
<1> QED
  BY <1>1, BooksInvariant, PassInvariant, PTL
=============================================================================

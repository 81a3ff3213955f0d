---------------------------- MODULE PaydayProofs ----------------------------
(***************************************************************************)
(* The coordinator and the distribute command, each of which was proved    *)
(* right by itself, work on one ledger: what the two modules promise holds *)
(* of the whole, and adds up from the results of nodes to the balances of  *)
(* their wallets.                                                          *)
(***************************************************************************)
EXTENDS Payday, BrokerProofs, PayoutProofs

-----------------------------------------------------------------------------
(* The command does not disturb the coordinator                            *)

LEMMA PassesDoNotAccrue == PayoutStep => accrued' = accrued
BY DEF PayoutStep, Start, Step, Settle, ledger, NothingUnpaid, Plan, DryRun, StartFails,
       Send, SendFails, Confirm, ConfirmFails, MarkPaid, MarkPaidFails, EndPass, Crash,
       Land, Expire

LEMMA EveryStepIsTheBrokers == [PaydayNext]_payday => [Next]_vars
<1>1. CoordinatorStep => Next
  BY DEF CoordinatorStep
<1>2. PayoutStep => UNCHANGED vars
  BY PassesDoNotAccrue DEF PayoutStep, vars, state, store
<1>3. UNCHANGED payday => UNCHANGED vars
  BY DEF payday
<1> QED
  BY <1>1, <1>2, <1>3 DEF PaydayNext

-----------------------------------------------------------------------------
(* The coordinator does to the ledger what the command expects             *)

LEMMA EarnedIsBounded ==
  ASSUME NEW n
  PROVE  Earned(n) \in Nat /\ Earned(n) <= MaxAccrued
<1> DEFINE mine == { j \in Job : results[j] = n }
<1>1. Total(Worth, mine) <= Total(Worth, Job)
  BY BrokerAssumption, WorthType, TotalMonotone
<1>2. Total(Worth, Job) \in Nat
  BY BrokerAssumption, WorthType, TotalNat
<1>3. Earned(n) \in Nat /\ Earned(n) = Total(Worth, mine)
  BY EarnedType DEF Earned
<1> HIDE DEF mine
<1> QED
  BY <1>1, <1>2, <1>3, PaydayAssumption, DistributeAssumption

(* A report adds to one row what its job is worth, and no row ever exceeds *)
(* what all jobs are worth.                                                *)
LEMMA ReportsAccrue ==
  ASSUME BrokerInv, BrokerInv', NEW t \in Tick, CreditEarnings(t)
  PROVE  \/ accrued' = accrued
         \/ \E w \in Wallet, n \in Credits :
              n > 0 /\ accrued[w] + n <= MaxAccrued /\ CreditRow(w, n)
<1> DEFINE w == t[1]
           n == Worth[job[t]]
<1>1. job[t] \in Job
  BY TickType DEF CreditEarnings, BrokerInv, TypeOK, TickShape
<1>2. n \in Nat
  BY <1>1, WorthType
<1>3. IF w \in Wallet THEN CreditRow(w, n) ELSE accrued' = accrued
  BY DEF CreditEarnings, CreditReport, Credit
<1>4. accrued \in [Wallet -> Nat]
  BY DEF BrokerInv, TypeOK
<1>5. CASE n > 0 /\ w \in Wallet
  <2>1. accrued'[w] = accrued[w] + n
    BY <1>3, <1>4, <1>5 DEF CreditRow
  <2>2. accrued'[w] + UnderWay(w)' <= Earned(w)'
    BY <1>5 DEF BrokerInv, CreditsFit
  <2>3. UnderWay(w)' = 0
    BY DEF CreditEarnings, UnderWay
  <2>4. Earned(w)' \in Nat /\ Earned(w)' <= MaxAccrued
    <3>1. Earned(w) \in Nat /\ Earned(w) <= MaxAccrued
      BY EarnedIsBounded
    <3>2. Earned(w)' = Earned(w)
      BY EarnedSame DEF CreditEarnings
    <3> QED
      BY <3>1, <3>2
  <2>5. accrued[w] + n <= MaxAccrued
    <3> HIDE DEF w, n
    <3> QED
      BY <1>2, <1>4, <1>5, <2>1, <2>2, <2>3, <2>4, DistributeAssumption
  <2>6. n \in Credits
    BY <1>1, <1>5, PaydayAssumption
  <2> QED
    BY <1>3, <1>5, <2>5, <2>6
<1>6. CASE n = 0 /\ w \in Wallet
  <2>1. accrued' = [accrued EXCEPT ![w] = accrued[w] + 0]
    BY <1>3, <1>6 DEF CreditRow
  <2> HIDE DEF w, n
  <2> QED
    BY <1>4, <1>6, <2>1
<1> QED
  BY <1>2, <1>3, <1>5, <1>6

LEMMA EveryStepIsTheCommands ==
  ASSUME BrokerInv, BrokerInv', env.durable, [PaydayNext]_payday
  PROVE  [DistributeNext]_distribution
<1>1. CASE CoordinatorStep
  <2>1. UNCHANGED <<setup, paid, lastTx, memory, report, chain>> /\ [Next]_vars
    BY <1>1 DEF CoordinatorStep
  <2>2. accrued' = accrued => UNCHANGED distribution
    BY <2>1 DEF distribution, payments, ledger
  <2>3. ASSUME NEW t \in Tick, CreditEarnings(t)
        PROVE  [DistributeNext]_distribution
    <3>1. CASE accrued' = accrued
      BY <2>2, <3>1
    <3>2. CASE \E w \in Wallet, n \in Credits :
                 n > 0 /\ accrued[w] + n <= MaxAccrued /\ CreditRow(w, n)
      BY <2>1, <3>2 DEF DistributeNext, Accrue
    <3> QED
      BY <2>3, <3>1, <3>2, ReportsAccrue
  <2>4. CASE \/ RestartServer
             \/ \E t \in Tick : RecordResult(t) \/ ReportThrows(t)
    BY <2>2, <2>4 DEF RestartServer, RecordResult, ReportThrows, store
  <2>5. CASE /\ ~RestartServer
             /\ ~\E t \in Tick : RecordResult(t) \/ CreditEarnings(t) \/ ReportThrows(t)
    BY <2>1, <2>2, <2>5, OtherStepsDoNotCredit DEF BrokerInv
  <2> QED
    BY <2>3, <2>4, <2>5
<1>2. CASE PayoutStep
  BY <1>2 DEF PayoutStep, DistributeNext
<1>3. CASE UNCHANGED payday
  BY <1>3 DEF payday
<1> QED
  BY <1>1, <1>2, <1>3 DEF PaydayNext

(* The two processes may share the file: every behaviour of the whole is   *)
(* one of the broker, and one of the distribute command in an environment  *)
(* it was proved for.  So every theorem about either holds of the whole.   *)
THEOREM PartsFitTogether == PaydaySpec => EachPartKeepsItsSpec
<1>1. PaydayInit => Init /\ DistributeInit /\ env.durable
  BY DEF PaydayInit
<1>2. [PaydayNext]_payday => [Next]_vars
  BY EveryStepIsTheBrokers
<1>3. env.durable /\ [Next]_vars => env.durable'
  BY EnvConstant
<1>4. BrokerInv /\ BrokerInv' /\ env.durable /\ [PaydayNext]_payday
        => [DistributeNext]_distribution
  BY EveryStepIsTheCommands
<1> QED
  BY <1>1, <1>2, <1>3, <1>4, BrokerInvariant, PTL
     DEF PaydaySpec, Spec, DistributeSpec, EachPartKeepsItsSpec

-----------------------------------------------------------------------------
(* From results to balances                                                *)

LEMMA PartInvariants ==
  PaydaySpec => [](BrokerInv /\ NeverOverCredited /\ AccrualIsExact
                   /\ BooksInv /\ NeverMarkedBeyondAccrual /\ DependableReruns
                   /\ BooksBalance)
BY PartsFitTogether, BrokerInvariant, NobodyIsOverCredited, AccrualStaysExact,
   BooksInvariant, OneOperatorNeverOvermarks, RerunsAreSafeWhenConfirmed,
   LedgerAndChainAgree, PTL DEF EachPartKeepsItsSpec

LEMMA AmountTypes ==
  ASSUME BrokerInv, BooksInv, NEW w \in Wallet
  PROVE  accrued[w] \in Nat /\ paid[w] \in Nat /\ Earned(w) \in Nat /\ Received(w) \in Nat
BY EarnedIsBounded, ReceivedType DEF BooksInv, DistributeTypeOK

(* For any number of jobs, nodes and passes: what is marked paid, and what *)
(* only sending can fail to deliver, is covered by the recorded results of *)
(* the wallet's node; no crash, lost report or failed statement of either  *)
(* process makes anybody be paid for more.                                 *)
THEOREM NoPayWithoutWork == PaydaySpec => []PaidForResults
<1>1. BrokerInv /\ NeverOverCredited /\ BooksInv /\ NeverMarkedBeyondAccrual
        /\ DependableReruns => PaidForResults
  <2> SUFFICES ASSUME BrokerInv, NeverOverCredited, BooksInv, NeverMarkedBeyondAccrual,
                      DependableReruns, OneToOne, NEW w \in Wallet
               PROVE  /\ ~MayFail("overlap") => paid[w] <= Earned(w)
                      /\ setup.faults \subseteq {"rpc"} => Received(w) <= Earned(w)
    BY DEF PaidForResults
  <2>1. accrued[w] <= Earned(w)
    BY DEF NeverOverCredited
  <2>2. ~MayFail("overlap") => paid[w] <= accrued[w]
    BY DEF NeverMarkedBeyondAccrual
  <2>3. setup.faults \subseteq {"rpc"} => Received(w) <= accrued[w]
    BY DEF DependableReruns, RerunsAreSafe
  <2> QED
    BY <2>1, <2>2, <2>3, AmountTypes
<1> QED
  BY <1>1, PartInvariants, PTL

(* Where nothing interrupts a report and only sending fails, work and pay  *)
(* balance to the unit whenever neither process is in the middle of it.    *)
THEOREM WorkAndPayBalance == PaydaySpec => []EveryUnitAccountedFor
<1>1. BrokerInv /\ AccrualIsExact /\ BooksInv /\ NeverMarkedBeyondAccrual
        /\ BooksBalance => EveryUnitAccountedFor
  <2> SUFFICES ASSUME BrokerInv, AccrualIsExact, BooksInv, NeverMarkedBeyondAccrual,
                      BooksBalance,
                      OneToOne, setup.faults \subseteq {"rpc"}, Uninterrupted,
                      ServerFree, \A r \in Run : pc[r] \notin Running,
                      NEW w \in Wallet
               PROVE  Received(w) + Outstanding[w] = Earned(w)
    BY DEF EveryUnitAccountedFor
  <2>1. accrued[w] = Earned(w)
    BY DEF AccrualIsExact, AccrualIsAtomic
  <2>2. paid[w] = Received(w)
    BY DEF BooksBalance, Dependable
  <2>3. paid[w] <= accrued[w]
    BY DEF NeverMarkedBeyondAccrual, MayFail
  <2>4. Outstanding[w] = IF accrued[w] > paid[w] THEN accrued[w] - paid[w] ELSE 0
    BY DEF Outstanding, Unpaid
  <2> QED
    BY <2>1, <2>2, <2>3, <2>4, AmountTypes
<1> QED
  BY <1>1, PartInvariants, PTL

-----------------------------------------------------------------------------
(* The whole pays for work                                                 *)

(* What the refinement mapping sees of the coordinator and of the command. *)
Worked   == [w \in Wallet |-> Earned(w)]
WorkSeen == <<Strict, Worked, Sent, paid>>

(* Only a recorded result earns anything.                                  *)
LEMMA OnlyResultsEarn ==
  ASSUME BrokerInv, env.durable, [Next]_vars, \A t \in Tick : ~RecordResult(t)
  PROVE  UNCHANGED results
<1>1. CASE \/ RestartServer
           \/ \E t \in Tick : CreditEarnings(t) \/ ReportThrows(t)
  BY <1>1 DEF RestartServer, CreditEarnings, ReportThrows, store
<1>2. CASE /\ ~RestartServer
           /\ ~\E t \in Tick : RecordResult(t) \/ CreditEarnings(t) \/ ReportThrows(t)
  BY <1>2, OtherStepsDoNotCredit DEF BrokerInv
<1> QED
  BY <1>1, <1>2

LEMMA ResultsEarn ==
  ASSUME BrokerInv, NEW t \in Tick, RecordResult(t),
         UNCHANGED <<Strict, Sent, paid>>
  PROVE  Work!Earn \/ UNCHANGED WorkSeen
<1> DEFINE v == t[1]
           n == Worth[job[t]]
<1>1. \A w \in Wallet : Earned(w)' = Earned(w) + (IF w = v THEN n ELSE 0)
  BY BrokerAssumption, RecordingMakesRoom DEF BrokerInv
<1>2. n \in Nat
  BY BrokerAssumption, RecordingMakesRoom, WorthType, TickType DEF BrokerInv
<1>3. \A w \in Wallet : Earned(w) \in Nat
  BY EarnedIsBounded
<1> HIDE DEF v, n
<1>4. CASE v \in Wallet /\ n > 0
  <2>1. Earned(v)' > Earned(v) /\ \A w \in Wallet \ {v} : Earned(w)' = Earned(w)
    BY <1>1, <1>2, <1>3, <1>4
  <2>2. Work!GrowsAt(Worked, Worked', v)
    BY <1>4, <2>1 DEF Work!GrowsAt, Worked
  <2> QED
    BY <1>4, <2>2 DEF Work!Earn, Worked, Sent, Strict
<1>5. CASE v \notin Wallet \/ n = 0
  <2>1. Worked' = Worked
    BY <1>1, <1>3, <1>5 DEF Worked
  <2> QED
    BY <2>1 DEF WorkSeen
<1>6. n > 0 \/ n = 0
  BY <1>2
<1> QED
  BY <1>4, <1>5, <1>6

SentIsCounted == \A w \in Wallet : Received(w) \in Nat

LEMMA BooksCountWhatIsSent == BooksInv => SentIsCounted
BY ReceivedType DEF BooksInv, SentIsCounted

(* What Distribute promises of what was accrued, it keeps for what results *)
(* are worth, which is never less.                                         *)
LEMMA PayoutStepPaysForWork ==
  ASSUME BrokerInv, NeverOverCredited, BooksInv, PayoutStep,
         [DistributeNext]_distribution
  PROVE  Work!Next \/ UNCHANGED WorkSeen
<1>1. UNCHANGED <<setup, Strict, Worked>>
  BY EarnedSame DEF PayoutStep, Worked, Strict, OneToOne
<1>2. ASSUME NEW r \in Run, MarkPaid(r)
      PROVE  Work!Next
  <2>1. Promise!Book
    BY <1>1, <1>2, MarkBooks
  <2> QED
    BY <1>1, <2>1 DEF Promise!Book, Promise!GrowsAt, Work!Next, Work!Book, Work!GrowsAt,
                      Sent, Strict, Worked
<1>3. ASSUME NEW tx \in inflight, Land(tx)
      PROVE  Work!Next
  <2>1. Promise!Send
    BY <1>1, <1>3, LandSends
  <2>2. Strict => \A w \in Wallet : Received(w)' <= accrued[w]
    BY <2>1 DEF Promise!Send, Strict
  <2>3. Strict => \A w \in Wallet : Sent'[w] <= Earned(w)
    <3> SUFFICES ASSUME Strict, NEW w \in Wallet
                 PROVE  Received(w)' <= Earned(w)
      BY DEF Sent
    <3>1. Received(w)' <= accrued[w] /\ accrued[w] <= Earned(w)
      BY <2>2 DEF NeverOverCredited
    <3>2. BooksInv'
      BY NextBooksInv
    <3>3. SentIsCounted'
      BY <3>2, BooksCountWhatIsSent, PTL
    <3> QED
      BY <3>1, <3>3, AmountTypes DEF SentIsCounted
  <2> QED
    BY <1>1, <2>1, <2>3 DEF Promise!Send, Work!Next, Work!Send, Sent, Strict, Worked
<1>4. CASE (\A r \in Run : ~MarkPaid(r)) /\ (\A tx \in inflight : ~Land(tx))
  <2>1. UNCHANGED <<Sent, paid>>
    BY <1>4, OnlyMarkPaidMarks, OnlyLandLands, ReceivedSame DEF Sent
  <2> QED
    BY <1>1, <2>1 DEF WorkSeen
<1> QED
  BY <1>2, <1>3, <1>4

LEMMA EveryStepPaysForWork ==
  ASSUME BrokerInv, NeverOverCredited, env.durable, BooksInv, [PaydayNext]_payday,
         [DistributeNext]_distribution
  PROVE  [Work!Next]_(Work!payoutVars)
<1>1. CASE CoordinatorStep
  <2>1. [Next]_vars /\ UNCHANGED <<setup, paid, share, landed>>
    BY <1>1 DEF CoordinatorStep, memory, chain
  <2>2. UNCHANGED <<Strict, Sent, paid>>
    BY <2>1, ReceivedSame DEF Strict, OneToOne, Sent
  <2>3. CASE \E t \in Tick : RecordResult(t)
    BY <2>2, <2>3, ResultsEarn DEF Work!Next, Work!payoutVars, WorkSeen, Strict, Worked, Sent
  <2>4. CASE \A t \in Tick : ~RecordResult(t)
    <3>1. UNCHANGED Worked
      BY <2>1, <2>4, OnlyResultsEarn, EarnedSame DEF Worked
    <3> QED
      BY <2>2, <3>1 DEF Work!payoutVars, Strict, Worked, Sent
  <2> QED
    BY <2>3, <2>4
<1>2. CASE PayoutStep
  BY <1>2, PayoutStepPaysForWork DEF Work!payoutVars, WorkSeen, Strict, Worked, Sent
<1>3. CASE UNCHANGED payday
  <2>1. UNCHANGED <<setup, paid, share, landed, results>>
    BY <1>3 DEF payday, vars, state, store, distribution, payments, ledger, memory, chain
  <2>2. UNCHANGED <<Strict, Sent, Worked>>
    BY <2>1, ReceivedSame, EarnedSame DEF Strict, OneToOne, Sent, Worked
  <2> QED
    BY <2>1, <2>2 DEF Work!payoutVars, Strict, Worked, Sent
<1> QED
  BY <1>1, <1>2, <1>3 DEF PaydayNext

(* Work is paid: from the first report to the last transaction, through    *)
(* crashes, failed statements and lost confirmations of both processes,    *)
(* the system as a whole takes no step that Payout does not allow, with    *)
(* the results of nodes as what their wallets have earned.                 *)
THEOREM WorkIsPaid == PaydaySpec => PaysForWork
<1>1. PaydayInit => Work!Init
  <2> SUFFICES ASSUME PaydayInit
               PROVE  Work!Init
    OBVIOUS
  <2>1. \A w \in Wallet : Received(w) = 0 /\ Earned(w) = 0
    <3> TAKE w \in Wallet
    <3>1. LandedFor(w) = {}
      BY DEF PaydayInit, DistributeInit, LandedFor
    <3>2. w \in Node /\ { j \in Job : results[j] = w } = {}
      BY BrokerAssumption DEF PaydayInit, Init
    <3> QED
      BY <3>1, <3>2, TotalEmpty DEF Received, Earned
  <2> QED
    BY <2>1 DEF PaydayInit, DistributeInit, OneToOne, Work!Init
<1>2. BrokerInv /\ NeverOverCredited /\ BooksInv /\ env.durable /\ [PaydayNext]_payday
        /\ [DistributeNext]_distribution => [Work!Next]_(Work!payoutVars)
  BY EveryStepPaysForWork
<1>3. PaydayInit => env.durable
  BY DEF PaydayInit
<1>4. env.durable /\ [PaydayNext]_payday => env.durable'
  BY EveryStepIsTheBrokers, EnvConstant
<1>5. BrokerInv /\ BrokerInv' /\ env.durable /\ [PaydayNext]_payday
        => [DistributeNext]_distribution
  BY EveryStepIsTheCommands
<1> QED
  BY <1>1, <1>2, <1>3, <1>4, <1>5, PartInvariants, PTL DEF PaydaySpec, PaysForWork, Work!Spec
=============================================================================

----------------------------- MODULE Distribute -----------------------------
(***************************************************************************)
(* Paying the accrual ledger out on chain: `dozzze-coord distribute`       *)
(* (packages/coordinator/src/commands/distribute.ts) against the ledger of *)
(* the SQLite store, while the coordinator goes on crediting it.           *)
(*                                                                         *)
(* The ledger is a file shared by processes.  Every pass of the command is *)
(* a process r \in Run with its own memory; a rerun is another pass.  It   *)
(* reads the unpaid rows once, plans one transfer per row, and sends the   *)
(* plans in chunks, one transaction each.  Solana is the environment: a    *)
(* transaction that was broadcast lands as a whole or expires, whether or  *)
(* not the sender still waits for it.                                      *)
(*                                                                         *)
(* An environment fixes, for a whole behaviour, the options operators give *)
(* (--pool, --chunk) and what can go wrong:                                *)
(*   "rpc"      building or sending a transaction fails before broadcast   *)
(*   "confirm"  sendAndConfirmTransaction throws (timeout, lost response)  *)
(*              although the transaction may land                          *)
(*   "busy"     a store statement throws (another process holds the file)  *)
(*   "crash"    the process dies                                           *)
(*   "overlap"  a pass starts while another one is still running           *)
(*   "options"  a key file, --mint, --pool, --rpc-url or --db is no good   *)
(***************************************************************************)
EXTENDS Integers, FiniteSets, Tally, Accruals

CONSTANTS
  Malformed,    \* the wallet addresses that `new PublicKey` refuses
  OffCurve,     \* those that have no associated token account
  Run,          \* the passes of the command, reruns included
  Setups,       \* the environments considered
  NoPool,       \* stands for an absent --pool
  NaN,          \* what Number.parseInt makes of a --chunk that is no number
  Credits,      \* the amounts the coordinator credits at a time
  MaxAccrued,   \* bound: what one row may accrue
  NoTx

PayFault == {"rpc", "confirm", "busy", "crash", "overlap", "options"}

(* pools: the pools a pass may be given; chunkSize: transfers per          *)
(* transaction, as parsed from --chunk.                                    *)
Setup ==
  [ faults : SUBSET PayFault,
    pools : SUBSET (Nat \cup {NoPool}),
    chunkSize : Nat \cup {NaN} ]

ASSUME DistributeAssumption ==
  /\ IsFiniteSet(Wallet)
  /\ IsFiniteSet(Run)
  /\ Malformed \subseteq Wallet
  /\ OffCurve \subseteq Wallet
  /\ Setups \subseteq Setup
  /\ NoPool \notin Nat
  /\ NaN \notin Nat
  /\ Credits \subseteq Nat
  /\ MaxAccrued \in Nat
  /\ NoTx \notin Run \X SUBSET Wallet

VARIABLES
  setup,        \* the environment of this behaviour
  paid,         \* ledger: units marked paid
  lastTx,       \* ledger: the last transaction stamped on the row
  pc,           \* where each pass is
  share,        \* splitMap of a pass: units it sends to each wallet
  todo,         \* plans not yet put in a transaction
  chunk,        \* plans of the transaction being sent
  unmarked,     \* plans of a confirmed transaction not yet marked paid
  succeeded,    \* the report: wallets marked paid
  failed,       \* the report: wallets listed as failed
  inflight,     \* transactions broadcast and neither landed nor expired
  landed        \* transactions on chain

ledger == <<accrued, paid, lastTx>>
report == <<succeeded, failed>>
chain  == <<inflight, landed>>
memory == <<pc, share, todo, chunk, unmarked>>
payments  == <<ledger, memory, report, chain>>
distribution   == <<setup, payments>>

(* What can go wrong in this behaviour.                                    *)
MayFail(f) == f \in setup.faults

(* No pass of this behaviour is given a pool.                              *)
OneToOne == setup.pools = {NoPool}

(* A transaction: the pass that signed it and the wallets it pays.         *)
Tx == Run \X SUBSET Wallet

Running == {"loop", "confirm", "mark"}
Ended   == {"done", "previewed", "aborted", "crashed"}

DistributeTypeOK ==
  /\ setup \in Setups
  /\ accrued \in [Wallet -> Nat]
  /\ paid \in [Wallet -> Nat]
  /\ lastTx \in [Wallet -> Tx \cup {NoTx}]
  /\ pc \in [Run -> {"idle"} \cup Running \cup Ended]
  /\ share \in [Run -> [Wallet -> Nat]]
  /\ todo \in [Run -> SUBSET Wallet]
  /\ chunk \in [Run -> SUBSET Wallet]
  /\ unmarked \in [Run -> SUBSET Wallet]
  /\ succeeded \in [Run -> SUBSET Wallet]
  /\ failed \in [Run -> SUBSET Wallet]
  /\ inflight \subseteq Tx
  /\ landed \subseteq Tx

DistributeInit ==
  /\ setup \in Setups
  /\ accrued = [w \in Wallet |-> 0]
  /\ paid = [w \in Wallet |-> 0]
  /\ lastTx = [w \in Wallet |-> NoTx]
  /\ pc = [r \in Run |-> "idle"]
  /\ share = [r \in Run |-> [w \in Wallet |-> 0]]
  /\ todo = [r \in Run |-> {}]
  /\ chunk = [r \in Run |-> {}]
  /\ unmarked = [r \in Run |-> {}]
  /\ succeeded = [r \in Run |-> {}]
  /\ failed = [r \in Run |-> {}]
  /\ inflight = {}
  /\ landed = {}

-----------------------------------------------------------------------------
(* The coordinator process                                                 *)

(* creditEarnings: an amount that is not positive is ignored.              *)
Accrue(w, n) ==
  /\ n > 0
  /\ accrued[w] + n <= MaxAccrued
  /\ CreditRow(w, n)
  /\ UNCHANGED <<paid, lastTx, memory, report, chain>>

-----------------------------------------------------------------------------
(* A pass of the command                                                   *)

(* listUnpaid: the rows with accrued > paid.                               *)
Unpaid == { w \in Wallet : accrued[w] > paid[w] }

(* Mutated forms: without the lower bound; without subtracting `paid`.     *)
OutstandingUnclamped == [w \in Wallet |-> accrued[w] - paid[w]]
OutstandingGross == [w \in Wallet |-> IF w \in Unpaid THEN accrued[w] ELSE 0]

(* The snapshot of what is owed, taken once when a pass starts.            *)
Outstanding == [w \in Wallet |-> IF w \in Unpaid THEN accrued[w] - paid[w] ELSE 0]

(* Mutated form: rounds up.                                                *)
ProportionalSplitCeiled(owed, pool) ==
  [w \in Wallet |->
     (owed[w] * pool + Total(owed, Wallet) - 1) \div Total(owed, Wallet)]

(* proportionalSplit: the floored share of each row in a fixed pool.       *)
ProportionalSplit(owed, pool) ==
  [w \in Wallet |-> (owed[w] * pool) \div Total(owed, Wallet)]

(* How many units each wallet gets: its part of the pool, or what is owed. *)
SplitMap(pool) ==
  IF pool = NoPool THEN Outstanding ELSE ProportionalSplit(Outstanding, pool)

(* Only positive amounts become transfer plans.                            *)
Plans(pool) == { w \in Wallet : SplitMap(pool)[w] > 0 }

(* Operators run one pass at a time unless passes may overlap.             *)
MayStart(r) ==
  /\ pc[r] = "idle"
  /\ MayFail("overlap") \/ \A q \in Run : pc[q] \notin Running

(* Nothing to pay: the pass ends with an empty report.                     *)
NothingUnpaid(r) ==
  /\ MayStart(r)
  /\ Unpaid = {}
  /\ pc' = [pc EXCEPT ![r] = "done"]
  /\ UNCHANGED <<ledger, share, todo, chunk, unmarked, report, chain>>

(* A --chunk below one makes chunkPlans throw.                             *)
ChunkRefused == setup.chunkSize \in Nat /\ setup.chunkSize < 1

(* The plans chunkPlans puts in chunks.  NaN is not below one; `i += NaN`  *)
(* ends its loop after one slice, an empty one, and the transaction built  *)
(* for no plans throws into a catch that has no plan to list.              *)
Chunked(plans) == IF setup.chunkSize = NaN THEN {} ELSE plans

(* Snapshot and plan.  One malformed address among the plans throws out of *)
(* distribute before anything is sent, and so do a URL the connection does *)
(* not take and chunkPlans.                                                *)
Plan(r, pool) ==
  /\ MayStart(r)
  /\ Unpaid # {}
  /\ share' = [share EXCEPT ![r] = SplitMap(pool)]
  /\ \/ /\ Plans(pool) \cap Malformed # {} \/ MayFail("options") \/ ChunkRefused
        /\ pc' = [pc EXCEPT ![r] = "aborted"]
        /\ UNCHANGED todo
     \/ /\ Plans(pool) \cap Malformed = {} /\ ~ChunkRefused
        /\ pc' = [pc EXCEPT ![r] = "loop"]
        /\ todo' = [todo EXCEPT ![r] = Chunked(Plans(pool))]
  /\ UNCHANGED <<ledger, chunk, unmarked, report, chain>>

(* --dry-run: plan, list the plans, send and mark nothing; no connection   *)
(* is made and the plans are not put in chunks.                            *)
DryRun(r, pool) ==
  /\ MayStart(r)
  /\ Unpaid # {}
  /\ share' = [share EXCEPT ![r] = SplitMap(pool)]
  /\ pc' = [pc EXCEPT ![r] = IF Plans(pool) \cap Malformed = {} THEN "previewed" ELSE "aborted"]
  /\ UNCHANGED <<ledger, todo, chunk, unmarked, report, chain>>

(* Opening the store or reading the rows throws, or the command has no     *)
(* store, no number as pool, no treasury key or no mint: it exits before   *)
(* it splits anything.                                                     *)
StartFails(r) ==
  /\ MayFail("busy") \/ MayFail("options")
  /\ MayStart(r)
  /\ pc' = [pc EXCEPT ![r] = "aborted"]
  /\ UNCHANGED <<ledger, share, todo, chunk, unmarked, report, chain>>

(* chunkPlans: the next chunk holds chunkSize plans, or all that are left. *)
(* listUnpaid gives the rows in no particular order, so any plans may be   *)
(* next.                                                                   *)
NextChunks(r) ==
  { c \in SUBSET todo[r] :
      /\ c # {}
      /\ \/ Cardinality(c) = setup.chunkSize
         \/ Cardinality(c) < setup.chunkSize /\ c = todo[r] }

(* The transaction is built, signed and broadcast; the pass waits for it.  *)
Send(r) ==
  /\ pc[r] = "loop"
  /\ \E c \in NextChunks(r) :
       /\ c \cap OffCurve = {}
       /\ chunk' = [chunk EXCEPT ![r] = c]
       /\ todo' = [todo EXCEPT ![r] = @ \ c]
       /\ inflight' = inflight \cup {<<r, c>>}
  /\ pc' = [pc EXCEPT ![r] = "confirm"]
  /\ UNCHANGED <<ledger, share, unmarked, report, landed>>

(* Mutated form: the failed chunk is tried again.                          *)
SendFailsRetries(r) ==
  /\ pc[r] = "loop"
  /\ \E c \in NextChunks(r) :
       /\ c \cap OffCurve # {} \/ MayFail("rpc")
       /\ failed' = [failed EXCEPT ![r] = @ \cup c]
  /\ UNCHANGED <<ledger, memory, succeeded, chain>>

(* Building or sending throws before broadcast: the whole chunk is listed  *)
(* as failed and the loop goes on.  An address with no token account makes *)
(* the build throw for everybody in its chunk.                             *)
SendFails(r) ==
  /\ pc[r] = "loop"
  /\ \E c \in NextChunks(r) :
       /\ c \cap OffCurve # {} \/ MayFail("rpc")
       /\ todo' = [todo EXCEPT ![r] = @ \ c]
       /\ failed' = [failed EXCEPT ![r] = @ \cup c]
  /\ UNCHANGED <<ledger, pc, share, chunk, unmarked, succeeded, chain>>

(* Mutated form: marks after broadcast, without awaiting confirmation.     *)
ConfirmUnawaited(r) ==
  /\ pc[r] = "confirm"
  /\ unmarked' = [unmarked EXCEPT ![r] = chunk[r]]
  /\ pc' = [pc EXCEPT ![r] = "mark"]
  /\ UNCHANGED <<ledger, share, todo, chunk, report, chain>>

(* sendAndConfirmTransaction returns the signature of a landed transaction.*)
Confirm(r) ==
  /\ pc[r] = "confirm"
  /\ <<r, chunk[r]>> \in landed
  /\ unmarked' = [unmarked EXCEPT ![r] = chunk[r]]
  /\ pc' = [pc EXCEPT ![r] = "mark"]
  /\ UNCHANGED <<ledger, share, todo, chunk, report, chain>>

(* Mutated form: gives up while the transaction may still land.            *)
ConfirmFailsEarly(r) ==
  /\ pc[r] = "confirm"
  /\ <<r, chunk[r]>> \notin landed
  /\ failed' = [failed EXCEPT ![r] = @ \cup chunk[r]]
  /\ pc' = [pc EXCEPT ![r] = "loop"]
  /\ UNCHANGED <<ledger, share, todo, chunk, unmarked, succeeded, chain>>

(* It throws: the transaction expired, or the wait itself failed.          *)
ConfirmFails(r) ==
  /\ pc[r] = "confirm"
  /\ \/ <<r, chunk[r]>> \notin inflight \cup landed
     \/ MayFail("confirm")
  /\ failed' = [failed EXCEPT ![r] = @ \cup chunk[r]]
  /\ pc' = [pc EXCEPT ![r] = "loop"]
  /\ UNCHANGED <<ledger, share, todo, chunk, unmarked, succeeded, chain>>

(* Mutated forms: `paid` is set instead of raised; the amount is moved     *)
(* from `accrued` to `paid`; a plan is marked again for every other plan   *)
(* of its chunk.                                                           *)
MarkPaidSets(r) ==
  /\ pc[r] = "mark"
  /\ \E w \in unmarked[r] :
       /\ paid' = [paid EXCEPT ![w] = share[r][w]]
       /\ lastTx' = [lastTx EXCEPT ![w] = <<r, chunk[r]>>]
       /\ succeeded' = [succeeded EXCEPT ![r] = @ \cup {w}]
       /\ unmarked' = [unmarked EXCEPT ![r] = @ \ {w}]
       /\ pc' = [pc EXCEPT ![r] = IF unmarked[r] = {w} THEN "loop" ELSE "mark"]
  /\ UNCHANGED <<accrued, share, todo, chunk, failed, chain>>

MarkPaidMoves(r) ==
  /\ pc[r] = "mark"
  /\ \E w \in unmarked[r] :
       /\ accrued' = [accrued EXCEPT ![w] = @ - share[r][w]]
       /\ paid' = [paid EXCEPT ![w] = @ + share[r][w]]
       /\ lastTx' = [lastTx EXCEPT ![w] = <<r, chunk[r]>>]
       /\ succeeded' = [succeeded EXCEPT ![r] = @ \cup {w}]
       /\ unmarked' = [unmarked EXCEPT ![r] = @ \ {w}]
       /\ pc' = [pc EXCEPT ![r] = IF unmarked[r] = {w} THEN "loop" ELSE "mark"]
  /\ UNCHANGED <<share, todo, chunk, failed, chain>>

MarkPaidRepeats(r) ==
  /\ pc[r] = "mark"
  /\ \E w \in chunk[r], x \in unmarked[r] :
       /\ paid' = [paid EXCEPT ![w] = @ + share[r][w]]
       /\ lastTx' = [lastTx EXCEPT ![w] = <<r, chunk[r]>>]
       /\ succeeded' = [succeeded EXCEPT ![r] = @ \cup {w}]
       /\ unmarked' = [unmarked EXCEPT ![r] = @ \ {x}]
       /\ pc' = [pc EXCEPT ![r] = IF unmarked[r] = {x} THEN "loop" ELSE "mark"]
  /\ UNCHANGED <<accrued, share, todo, chunk, failed, chain>>

(* markPaid for one plan of the confirmed chunk; after the last one the    *)
(* loop goes on with the next chunk.                                       *)
MarkPaid(r) ==
  /\ pc[r] = "mark"
  /\ \E w \in unmarked[r] :
       /\ paid' = [paid EXCEPT ![w] = @ + share[r][w]]
       /\ lastTx' = [lastTx EXCEPT ![w] = <<r, chunk[r]>>]
       /\ succeeded' = [succeeded EXCEPT ![r] = @ \cup {w}]
       /\ unmarked' = [unmarked EXCEPT ![r] = @ \ {w}]
       /\ pc' = [pc EXCEPT ![r] = IF unmarked[r] = {w} THEN "loop" ELSE "mark"]
  /\ UNCHANGED <<accrued, share, todo, chunk, failed, chain>>

(* Mutated form: the failure is logged but not reported.                   *)
MarkPaidFailsSilently(r) ==
  /\ MayFail("busy")
  /\ pc[r] = "mark"
  /\ unmarked' = [unmarked EXCEPT ![r] = {}]
  /\ pc' = [pc EXCEPT ![r] = "loop"]
  /\ UNCHANGED <<ledger, share, todo, chunk, report, chain>>

(* markPaid throws: the catch lists the whole chunk as failed, the plans   *)
(* already marked included, and the rest of the chunk is never marked.     *)
MarkPaidFails(r) ==
  /\ MayFail("busy")
  /\ pc[r] = "mark"
  /\ failed' = [failed EXCEPT ![r] = @ \cup chunk[r]]
  /\ unmarked' = [unmarked EXCEPT ![r] = {}]
  /\ pc' = [pc EXCEPT ![r] = "loop"]
  /\ UNCHANGED <<ledger, share, todo, chunk, succeeded, chain>>

(* The report is returned; the exit code is 2 when it lists a failure.     *)
EndPass(r) ==
  /\ pc[r] = "loop"
  /\ todo[r] = {}
  /\ pc' = [pc EXCEPT ![r] = "done"]
  /\ UNCHANGED <<ledger, share, todo, chunk, unmarked, report, chain>>

ExitCode(r) == IF failed[r] = {} THEN 0 ELSE 2

(* The process dies; the ledger and the chain stay as they are.            *)
Crash(r) ==
  /\ MayFail("crash")
  /\ pc[r] \in Running
  /\ pc' = [pc EXCEPT ![r] = "crashed"]
  /\ UNCHANGED <<ledger, share, todo, chunk, unmarked, report, chain>>

-----------------------------------------------------------------------------
(* Solana                                                                  *)

(* Every transfer of the transaction happens, or none does.                *)
Land(tx) ==
  /\ inflight' = inflight \ {tx}
  /\ landed' = landed \cup {tx}
  /\ UNCHANGED <<ledger, memory, report>>

(* The blockhash grows too old, or the transaction is rejected.            *)
Expire(tx) ==
  /\ inflight' = inflight \ {tx}
  /\ UNCHANGED <<ledger, memory, report, landed>>

-----------------------------------------------------------------------------
Start(r) ==
  \/ NothingUnpaid(r)
  \/ \E pool \in setup.pools : Plan(r, pool) \/ DryRun(r, pool)
  \/ StartFails(r)

(* The steps of a pass that its process takes on its own once started.     *)
Step(r) ==
  \/ Send(r)
  \/ SendFails(r)
  \/ Confirm(r)
  \/ ConfirmFails(r)
  \/ MarkPaid(r)
  \/ MarkPaidFails(r)
  \/ EndPass(r)

Settle(tx) == Land(tx) \/ Expire(tx)

DistributeNext ==
  /\ UNCHANGED setup
  /\ \/ \E w \in Wallet, n \in Credits : Accrue(w, n)
     \/ \E r \in Run : Start(r) \/ Step(r) \/ Crash(r)
     \/ \E tx \in inflight : Settle(tx)

DistributeSpec == DistributeInit /\ [][DistributeNext]_distribution

(* A started pass keeps running until it ends or crashes, and the network  *)
(* decides every transaction: a blockhash is valid for a bounded number of *)
(* blocks.                                                                 *)
Fairness ==
  /\ \A r \in Run : WF_payments(Step(r))
  /\ WF_payments(\E tx \in inflight : Settle(tx))

DistributeFairSpec == DistributeSpec /\ Fairness

-----------------------------------------------------------------------------
(* Properties                                                              *)

(* The passes that moved units to w on chain, and how many units in all.   *)
LandedFor(w) == { r \in Run : \E c \in SUBSET Wallet : w \in c /\ <<r, c>> \in landed }
Received(w) == Total([r \in Run |-> share[r][w]], LandedFor(w))

(* The ledger never claims more than the chain: a row's `paid` is covered  *)
(* by transfers that landed, so what is still outstanding is never too low *)
(* for the payments made, whatever fails, crashes or overlaps, and         *)
(* whatever is credited meanwhile (distribute.ts 122-131).                 *)
PaidIsOnChain == \A w \in Wallet : paid[w] <= Received(w)

(* Why PaidIsOnChain holds.  A pass marks a wallet at most once, only for  *)
(* a landed transaction that pays it, and a row's `paid` is exactly the    *)
(* shares of the passes that marked it.                                    *)
MarkedFor(w) == { r \in Run : w \in succeeded[r] }

PaidIsWhatWasMarked ==
  \A w \in Wallet : paid[w] = Total([r \in Run |-> share[r][w]], MarkedFor(w))

MarkedHasLanded ==
  \A r \in Run : \A w \in succeeded[r] : r \in LandedFor(w)

EachPlanOnce ==
  \A r \in Run :
    /\ pc[r] = "idle" =>
         /\ succeeded[r] = {}
         /\ \A c \in SUBSET Wallet : <<r, c>> \notin inflight \cup landed
    /\ pc[r] \in Running => todo[r] \cap succeeded[r] = {}
    /\ pc[r] = "confirm" => chunk[r] \cap (todo[r] \cup succeeded[r]) = {}
    /\ pc[r] = "mark" =>
         /\ <<r, chunk[r]>> \in landed
         /\ unmarked[r] \subseteq chunk[r]
         /\ unmarked[r] \cap (todo[r] \cup succeeded[r]) = {}

(* Why NeverMarkedBeyondAccrual holds.  Passes do not overlap, and what a  *)
(* pass has yet to mark fits between a row's `paid` and its accrual,       *)
(* although the row was read when the pass started.                        *)
Pending(r) ==
  IF pc[r] \notin Running THEN {}
  ELSE todo[r] \cup IF pc[r] = "confirm" THEN chunk[r]
                    ELSE IF pc[r] = "mark" THEN unmarked[r] ELSE {}

SnapshotsFit ==
  OneToOne /\ ~MayFail("overlap") =>
    /\ \A r, q \in Run : pc[r] \in Running /\ pc[q] \in Running => r = q
    /\ \A w \in Wallet : paid[w] <= accrued[w]
    /\ \A r \in Run : \A w \in Pending(r) : paid[w] + share[r][w] <= accrued[w]

(* The signature stamped on a row is the audit trail of its last payment:  *)
(* a landed transaction that pays this wallet, present exactly when        *)
(* something was marked paid (markPaid in store-sqlite.ts 182-189).        *)
LastTxPaysTheRow ==
  \A w \in Wallet :
    /\ lastTx[w] = NoTx <=> paid[w] = 0
    /\ lastTx[w] # NoTx => lastTx[w] \in landed /\ w \in lastTx[w][2]

(* proportionalSplit is "floored so we never over-spend"                    *)
(* (settlement-spl.ts 92-97): whatever is outstanding when a pass starts,  *)
(* it hands out at most its pool, and the dust it keeps back is less than  *)
(* one unit per unpaid row.                                                *)
PoolIsRespected ==
  Unpaid # {} =>
    \A pool \in setup.pools \ {NoPool} :
      LET given == Total(SplitMap(pool), Wallet)
      IN  given <= pool /\ pool - given < Cardinality(Unpaid)

(* Nobody gets more than it earned, however often the command is rerun     *)
(* (1:1 distribution; the list of unpaid rows skips what is marked paid).  *)
RerunsAreSafe == OneToOne => \A w \in Wallet : Received(w) <= accrued[w]

(* With one pass at a time a 1:1 distribution never marks more paid than   *)
(* was accrued, even when passes crash, time out or fail between marks:    *)
(* the amount marked is the snapshot's, and credits only raise the accrual.*)
NeverMarkedBeyondAccrual ==
  OneToOne /\ ~MayFail("overlap") => \A w \in Wallet : paid[w] <= accrued[w]

(* Exit code 0 (cli.ts 129: exit 2 when the report lists a failure) is a   *)
(* promise kept to everybody or to nobody: each wallet the pass planned to *)
(* pay has its transfer on chain and its row marked, whatever happened on  *)
(* the way.  A preview always exits with 0, as does a pass given a --chunk *)
(* that is not a number, and these two sent and marked nothing.            *)
PaidEveryone(r) ==
  \A w \in Wallet : share[r][w] > 0 => r \in LandedFor(w) /\ w \in succeeded[r]

SentNothing(r) ==
  /\ succeeded[r] = {}
  /\ \A c \in SUBSET Wallet : <<r, c>> \notin inflight \cup landed

ExitZeroPaidEveryone ==
  \A r \in Run :
    /\ pc[r] = "done" /\ ExitCode(r) = 0 =>
         IF setup.chunkSize \in Nat THEN PaidEveryone(r) ELSE SentNothing(r)
    /\ pc[r] = "previewed" => ExitCode(r) = 0 /\ SentNothing(r)

(* A wallet the report lists as failed got nothing from that pass and      *)
(* never will, as long as confirming and marking do not fail by            *)
(* themselves: it can be paid again (distribute.ts 132-140).               *)
FailedMeansUnpaid ==
  ~MayFail("confirm") /\ ~MayFail("busy") =>
    \A r \in Run : \A w \in failed[r] :
      /\ r \notin LandedFor(w)
      /\ w \notin succeeded[r]
      /\ \A c \in SUBSET Wallet : w \in c => <<r, c>> \notin inflight

(* Passes may overlap and sending may fail: unless confirming or marking   *)
(* fails or a pass dies, the ledger and the chain agree to the unit        *)
(* whenever no pass is at work.                                            *)
Dependable == setup.faults \subseteq {"rpc", "overlap"}
BooksBalance ==
  Dependable /\ (\A r \in Run : pc[r] \notin Running) =>
    \A w \in Wallet : paid[w] = Received(w)

(* Why the report can be believed.  Every wallet that was planned for is   *)
(* waiting, marked or listed as failed; a pass sends a wallet in one       *)
(* transaction only, and when nothing fails behind its back, a wallet it   *)
(* has sent is marked or about to be.                                      *)
PlansAreOwed == \A r \in Run : \A w \in Pending(r) : share[r][w] > 0

NobodyForgotten ==
  setup.chunkSize \in Nat =>
    \A r \in Run : pc[r] \in Running \cup {"done"} =>
      \A w \in Wallet :
        share[r][w] > 0 => w \in Pending(r) \cup succeeded[r] \cup failed[r]

NothingSentInNoChunk ==
  \A r \in Run :
    /\ setup.chunkSize = NaN =>
         pc[r] \notin {"confirm", "mark"} /\ todo[r] = {} /\ SentNothing(r)
    /\ pc[r] = "previewed" => failed[r] = {} /\ SentNothing(r)

SentOnce ==
  \A r \in Run :
    /\ pc[r] = "idle" => failed[r] = {} /\ \A w \in Wallet : share[r][w] = 0
    /\ pc[r] \in {"confirm", "mark"} => chunk[r] \cap todo[r] = {}
    /\ \A c \in SUBSET Wallet : <<r, c>> \in inflight \cup landed =>
         /\ pc[r] \in Running => c \cap todo[r] = {}
         /\ pc[r] \in {"confirm", "mark"} /\ c \cap chunk[r] # {} => c = chunk[r]

FailedIsGivenUp ==
  ~MayFail("confirm") /\ ~MayFail("busy") =>
    \A r \in Run : pc[r] \in Running => failed[r] \cap todo[r] = {}

SentIsMarked ==
  Dependable =>
    \A r \in Run : \A c \in SUBSET Wallet : <<r, c>> \in inflight \cup landed =>
      \A w \in c : \/ w \in succeeded[r]
                   \/ pc[r] = "confirm" /\ c = chunk[r]
                   \/ pc[r] = "mark" /\ w \in unmarked[r]

ReportInv ==
  /\ PlansAreOwed /\ NobodyForgotten /\ NothingSentInNoChunk
  /\ SentOnce /\ FailedIsGivenUp /\ SentIsMarked
  /\ LastTxPaysTheRow /\ FailedMeansUnpaid

(* The inductive invariant behind the properties above.                    *)
BooksInv ==
  /\ DistributeTypeOK /\ PaidIsWhatWasMarked /\ MarkedHasLanded /\ EachPlanOnce
  /\ SnapshotsFit /\ ReportInv

(* Distribute implements Payout: what a wallet was sent is what landed.    *)
Promise == INSTANCE Payout WITH
  earned <- accrued,
  sent   <- [w \in Wallet |-> Received(w)],
  booked <- paid,
  strict <- OneToOne /\ setup.faults \subseteq {"rpc"}

(* Every step of every process, failing ones included, is a step of the    *)
(* abstract payout or invisible to it: units only ever move to wallets,    *)
(* the books only ever grow, one row at a time, and never ahead of the     *)
(* chain.  With one dependable pass at a time a 1:1 distribution also      *)
(* never sends anybody more than it has earned so far, although credits    *)
(* and passes interleave.                                                  *)
ImplementsPayout == Promise!Spec

(* distribute.ts:1: the command "pays every accrued, unpaid row its        *)
(* share": when a pass is over, each payable wallet it owed something to   *)
(* has received its share or is reported as failed.                        *)
PaysEveryRow ==
  \A r \in Run :
    pc[r] \in {"done", "aborted"} =>
      \A w \in Wallet \ (Malformed \cup OffCurve) :
        share[r][w] > 0 => r \in LandedFor(w) \/ w \in failed[r]

(* A pass does its work once and never goes round: whatever fails, each    *)
(* step of it leaves fewer steps to take, and no step of the coordinator,  *)
(* the chain or another pass gives it back any work.  A pass with n plans  *)
(* ends after at most 3n + 1 steps (the chunk loop, distribute.ts 112-141).*)
(* That is so because there is no retry, against settlement-spl.ts:3.      *)
StepsLeft(r) ==
  CASE pc[r] = "loop"    -> 3 * Cardinality(todo[r]) + 1
    [] pc[r] = "confirm" -> 3 * Cardinality(todo[r]) + Cardinality(chunk[r]) + 2
    [] pc[r] = "mark"    -> 3 * Cardinality(todo[r]) + Cardinality(unmarked[r]) + 1
    [] OTHER             -> 0

NoPassGoesRound ==
  [][\A r \in Run : pc[r] \in Running =>
       \/ StepsLeft(r)' < StepsLeft(r)
       \/ UNCHANGED <<pc[r], todo[r], chunk[r], unmarked[r], succeeded[r], failed[r]>>]_distribution

(* A pass that started its loop ends: every chunk is sent or given up, and *)
(* the wait for a confirmation is bounded.                                 *)
PassEnds == \A r \in Run : pc[r] = "loop" ~> pc[r] \in Ended
=============================================================================

------------------------------- MODULE Payday -------------------------------
(***************************************************************************)
(* From a result to a balance: the broker credits the ledger for the       *)
(* results nodes report, and passes of the distribute command pay it out   *)
(* meanwhile, from the same SQLite file and without any lock between the   *)
(* two processes but that of a single statement (packages/coordinator/src: *)
(* server.ts, store-sqlite.ts, commands/distribute.ts).                    *)
(*                                                                         *)
(* A step is one of Broker or one of Distribute.  Distribute by itself     *)
(* takes any coordinator that only adds to rows; here it meets the one     *)
(* that Broker describes.                                                  *)
(***************************************************************************)
EXTENDS Broker, Distribute

(* The bounds of Distribute leave room for every job.                      *)
ASSUME PaydayAssumption ==
  /\ \A j \in Job : Worth[j] > 0 => Worth[j] \in Credits
  /\ Total(Worth, Job) <= MaxAccrued

payday == <<vars, distribution>>

(* The command opens the file of the durable store.                        *)
PaydayInit == Init /\ DistributeInit /\ env.durable

CoordinatorStep ==
  /\ Next
  /\ UNCHANGED <<setup, paid, lastTx, memory, report, chain>>

PayoutStep ==
  /\ \/ \E r \in Run : Start(r) \/ Step(r) \/ Crash(r)
     \/ \E tx \in inflight : Settle(tx)
  /\ UNCHANGED <<env, past, pending, results, ticks, crediting, setup>>

PaydayNext == CoordinatorStep \/ PayoutStep

PaydaySpec == PaydayInit /\ [][PaydayNext]_payday

(* Passes go on and the network decides; nodes need not report again.      *)
PaydayFairSpec == PaydaySpec /\ Fairness

-----------------------------------------------------------------------------
(* Properties                                                              *)

(* Neither process breaks the other: at every step the coordinator is as   *)
(* Broker describes it and the command as Distribute does, although each   *)
(* reads and writes rows that the other writes and reads (store-sqlite.ts  *)
(* 166-189).                                                               *)
EachPartKeepsItsSpec == Spec /\ DistributeSpec

(* Nobody is paid for work that was not done: in a 1:1 distribution, what  *)
(* is marked paid to a wallet is covered by the worth of its recorded      *)
(* results, whatever fails in either process, as long as passes do not     *)
(* overlap; and so is what it received on chain if only sending fails.     *)
PaidForResults ==
  OneToOne => \A w \in Wallet :
    /\ ~MayFail("overlap") => paid[w] <= Earned(w)
    /\ setup.faults \subseteq {"rpc"} => Received(w) <= Earned(w)

(* Between reports and passes every unit is accounted for: what the        *)
(* results of a node are worth, its wallet received or is still owed.      *)
EveryUnitAccountedFor ==
  /\ OneToOne /\ setup.faults \subseteq {"rpc"} /\ Uninterrupted
  /\ ServerFree /\ (\A r \in Run : pc[r] \notin Running)
  => \A w \in Wallet : Received(w) + Outstanding[w] = Earned(w)

(* The whole pays for work: it implements Payout with what the results of  *)
(* a node are worth as what its wallet has earned.  The ledger in between  *)
(* cannot be seen, wherever its credits lag behind the results.            *)
Work == INSTANCE Payout WITH
  earned <- [w \in Wallet |-> Earned(w)],
  sent   <- [w \in Wallet |-> Received(w)],
  booked <- paid,
  strict <- OneToOne /\ setup.faults \subseteq {"rpc"}

PaysForWork == Work!Spec
=============================================================================

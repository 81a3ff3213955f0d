------------------------------- MODULE Service -------------------------------
(***************************************************************************)
(* The broker with what stands at its two ends: the consumers that submit  *)
(* jobs and wait for their results (packages/client/src/client.ts, as      *)
(* `dozzze ask` and the Discord bot use it), and the memo transaction by   *)
(* which a node may settle a result on chain before it reports it          *)
(* (packages/node/src/router.ts, settlement.ts).                           *)
(*                                                                         *)
(* Each job has one consumer, which submits it once.  A look-up of the     *)
(* result is one step: what happens while its reply travels has the same   *)
(* effect after it.  The broker's state changes by Broker's actions only.  *)
(*                                                                         *)
(* A node ticks while its process is up, and nothing but a tick under way  *)
(* keeps it up: the interval is unref'd (see NodeHome!RunsDry).            *)
(***************************************************************************)
EXTENDS Broker

CONSTANTS
  Settling,    \* the nodes with settlement enabled
  Supervised,  \* the nodes that somebody starts again whenever they end
  Keyholder    \* the jobs whose consumer holds a valid API key

ASSUME ServiceAssumption ==
  Settling \subseteq Node /\ Supervised \subseteq Node /\ Keyholder \subseteq Job

VARIABLES
  up,        \* the nodes whose process runs
  asker,     \* the consumer of each job
  urge,      \* what presses it: its deadline is over, its signal aborted
  stage,     \* how far the tick's settlement is
  memos,     \* chain: memo transactions ever broadcast for a job
  chain,     \* chain: what became of the last of them
  settled    \* store: the recorded result names a transaction

consumers == <<asker, urge>>
memo      == <<stage, memos, chain, settled>>
service   == <<vars, up, consumers, memo>>

Waiting == {"looking", "asleep"}
Over    == {"answered", "timedout", "aborted", "failed", "refused"}

ServiceTypeOK ==
  /\ TypeOK
  /\ up \in SUBSET Node
  /\ asker \in [Job -> {"idle", "submitting", "accepted"} \cup Waiting \cup Over]
  /\ urge \in [Job -> SUBSET {"late", "aborted"}]
  /\ stage \in [Tick -> {"none", "sent", "confirmed"}]
  /\ memos \in [Job -> Nat]
  /\ chain \in [Job -> {"none", "pending", "landed", "expired"}]
  /\ settled \in [Job -> BOOLEAN]

ServiceInit ==
  /\ Init
  /\ up = {}
  /\ asker = [j \in Job |-> "idle"]
  /\ urge = [j \in Job |-> {}]
  /\ stage = [t \in Tick |-> "none"]
  /\ memos = [j \in Job |-> 0]
  /\ chain = [j \in Job |-> "none"]
  /\ settled = [j \in Job |-> FALSE]

-----------------------------------------------------------------------------
(* Consumers: submit                                                       *)

(* Nothing presses a consumer that is through.                             *)
Becomes(j, to) ==
  /\ asker' = [asker EXCEPT ![j] = to]
  /\ urge' = [urge EXCEPT ![j] = IF to \in Over THEN {} ELSE @]

(* The request is sent.                                                    *)
Ask(j) ==
  /\ asker[j] = "idle"
  /\ Becomes(j, "submitting")
  /\ UNCHANGED <<state, memo>>

(* The handler queues the job, behind the auth check.                      *)
Accept(j) ==
  /\ asker[j] = "submitting"
  /\ env.keyed => j \in Keyholder
  /\ Submit(j)
  /\ Becomes(j, "accepted")
  /\ UNCHANGED memo

(* Mutated form: the job is queued before the token is checked.            *)
RefuseQueued(j) ==
  /\ asker[j] = "submitting"
  /\ env.keyed \/ CanFail({"malformed"})
  /\ Submit(j)
  /\ Becomes(j, "refused")
  /\ UNCHANGED memo

(* No token, a wrong one (401), or too many requests with it (429); or a   *)
(* request that does not parse (400).                                      *)
Refuse(j) ==
  /\ asker[j] = "submitting"
  /\ env.keyed \/ CanFail({"malformed"})
  /\ Becomes(j, "refused")
  /\ UNCHANGED <<state, memo>>

(* The request is lost or enqueue throws; or the job is queued and the     *)
(* reply that names it is lost.  submit throws and is not tried again.     *)
SubmitFails(j) ==
  /\ \/ asker[j] = "submitting" /\ CanFail({"lost", "crash", "busy"})
     \/ asker[j] = "accepted" /\ CanFail({"lost", "crash"})
  /\ Becomes(j, "refused")
  /\ UNCHANGED <<state, memo>>

(* submit returns the id: awaitResult sets its deadline and enters its     *)
(* loop, unless the timeout is not positive or not a number.               *)
BeginAwait(j) ==
  /\ asker[j] = "accepted"
  /\ \/ Becomes(j, IF "aborted" \in urge[j] THEN "aborted" ELSE "looking")
     \/ CanFail({"late"}) /\ Becomes(j, "timedout")
  /\ UNCHANGED <<state, memo>>

-----------------------------------------------------------------------------
(* Consumers: awaitResult                                                  *)

(* getResult: a result ends the wait, even past the deadline; a 404 sends  *)
(* the consumer to sleep, which an aborted signal refuses.                 *)
Look(j) ==
  /\ ServerFree
  /\ asker[j] = "looking"
  /\ Becomes(j, IF Answered(j) THEN "answered"
                ELSE IF "aborted" \in urge[j] THEN "aborted" ELSE "asleep")
  /\ UNCHANGED <<state, memo>>

(* Any other failure of a single look-up ends the wait.                    *)
LookFails(j) ==
  /\ CanFail({"lost", "crash", "busy"})
  /\ asker[j] = "looking"
  /\ Becomes(j, "failed")
  /\ UNCHANGED <<state, memo>>

(* Mutated form: the deadline is not looked at again.                      *)
WakeUnhurried(j) ==
  /\ asker[j] = "asleep"
  /\ Becomes(j, "looking")
  /\ UNCHANGED <<state, memo>>

(* The sleep is over: the deadline is checked, and no last look taken.     *)
Wake(j) ==
  /\ asker[j] = "asleep"
  /\ Becomes(j, IF "late" \in urge[j] THEN "timedout" ELSE "looking")
  /\ UNCHANGED <<state, memo>>

(* The consumer's clock passes the deadline.                               *)
DeadlinePasses(j) ==
  /\ CanFail({"late"})
  /\ asker[j] \in Waiting
  /\ urge' = [urge EXCEPT ![j] = @ \cup {"late"}]
  /\ UNCHANGED <<state, asker, memo>>

(* The caller aborts its signal: it cuts a sleep short, while a request    *)
(* under way is completed first.                                           *)
Cancel(j) ==
  /\ CanFail({"cancel"})
  /\ asker[j] \notin {"idle"} \cup Over
  /\ IF asker[j] = "asleep"
     THEN Becomes(j, "aborted")
     ELSE urge' = [urge EXCEPT ![j] = @ \cup {"aborted"}] /\ UNCHANGED asker
  /\ UNCHANGED <<state, memo>>

-----------------------------------------------------------------------------
(* Settlement: handleJob between the model's answer and the report         *)

(* The memo, which names job and node, is signed and broadcast.            *)
SendMemo(t) ==
  /\ t[1] \in Settling
  /\ client[t] = "running" /\ stage[t] = "none"
  /\ stage' = [stage EXCEPT ![t] = "sent"]
  /\ memos' = [memos EXCEPT ![job[t]] = @ + 1]
  /\ chain' = [chain EXCEPT ![job[t]] = "pending"]
  /\ UNCHANGED <<state, consumers, settled>>

(* Mutated form: the confirmation is not awaited.                          *)
ReportSettledUnawaited(t) ==
  /\ stage[t] = "sent"
  /\ RunJob(t)
  /\ stage' = [stage EXCEPT ![t] = "confirmed"]
  /\ UNCHANGED <<consumers, memos, chain, settled>>

(* confirmTransaction returns: the report names the transaction.           *)
ReportSettled(t) ==
  /\ stage[t] = "sent"
  /\ chain[job[t]] = "landed"
  /\ RunJob(t)
  /\ stage' = [stage EXCEPT ![t] = "confirmed"]
  /\ UNCHANGED <<consumers, memos, chain, settled>>

(* No settlement, or settleOnChain throws, before or after the broadcast:  *)
(* the report goes out without a transaction.                              *)
ReportUnsettled(t) ==
  /\ \/ t[1] \notin Settling
     \/ CanFail({"rpc"})
     \/ stage[t] = "sent" /\ chain[job[t]] = "expired"
  /\ RunJob(t)
  /\ stage' = [stage EXCEPT ![t] = "none"]
  /\ UNCHANGED <<consumers, memos, chain, settled>>

(* The memo is executed, or its blockhash grows too old.                   *)
Finalize(j) ==
  /\ chain[j] = "pending"
  /\ \E fate \in {"landed", "expired"} : chain' = [chain EXCEPT ![j] = fate]
  /\ UNCHANGED <<state, consumers, stage, memos, settled>>

(* recordResult keeps the transaction the report names.                    *)
RecordSettled(t) ==
  /\ RecordResult(t)
  /\ settled' = [settled EXCEPT ![job[t]] = stage[t] = "confirmed"]
  /\ UNCHANGED <<consumers, stage, memos, chain>>

(* Mutated form: the transaction of a tick outlives its job.               *)
BesideStale ==
  /\ settled' = [j \in Job |-> settled[j] /\ results'[j] # NoNode]
  /\ UNCHANGED <<consumers, stage, memos, chain>>

(* All other steps of the broker: a tick without a job has no settlement,  *)
(* and a forgotten result no transaction.                                  *)
Beside ==
  /\ stage' = [t \in Tick |->
                 IF client'[t] \in {"running", "reporting"} THEN stage[t] ELSE "none"]
  /\ settled' = [j \in Job |-> settled[j] /\ results'[j] # NoNode]
  /\ UNCHANGED <<consumers, memos, chain>>

-----------------------------------------------------------------------------
(* Nodes coming and going                                                  *)

(* Mutated form: a node that is started waits for its interval.            *)
BootNodeUnpolled(t) ==
  /\ t[1] \notin up
  /\ up' = up \cup {t[1]}
  /\ UNCHANGED <<state, consumers, memo>>

(* The node is started: its first tick does not wait for the interval.     *)
BootNode(t) ==
  /\ t[1] \notin up
  /\ StartTick(t) /\ Beside
  /\ up' = up \cup {t[1]}

(* The interval fires before the process found nothing left to wait for.   *)
NextTick(t) ==
  /\ t[1] \in up
  /\ StartTick(t) /\ Beside
  /\ UNCHANGED up

(* No request, reply or model is awaited: the process ends.                *)
RunsDry(n) ==
  /\ n \in up
  /\ \A s \in Slot : client[<<n, s>>] = "idle"
  /\ up' = up \ {n}
  /\ UNCHANGED <<state, consumers, memo>>

(* The node is stopped, or crashes.                                        *)
EndNode(n) ==
  /\ n \in up
  /\ StopNode(n) /\ Beside
  /\ up' = up \ {n}

-----------------------------------------------------------------------------
ConsumerStep(j) ==
  \/ Accept(j)
  \/ Refuse(j)
  \/ BeginAwait(j)
  \/ Look(j)
  \/ Wake(j)

ConsumerFault(j) ==
  \/ SubmitFails(j)
  \/ LookFails(j)
  \/ Cancel(j)

(* The steps of Broker!TickStep that follow from one under way, but for    *)
(* RunJob and RecordResult, which settlement accompanies.                  *)
PollGoesOn(t) ==
  \/ PollTakes(t)
  \/ PollWaits(t)
  \/ PollFindsNothing(t)
  \/ ReplyArrives(t)
  \/ ReplyDropped(t)
  \/ CreditEarnings(t)
  \/ ReportRefused(t)

NodeStep(t) ==
  \/ PollGoesOn(t) /\ Beside
  \/ SendMemo(t)
  \/ ReportSettled(t)
  \/ ReportUnsettled(t)
  \/ RecordSettled(t)

(* A model fails before there is anything to settle.                       *)
NodeFault(t) ==
  /\ TickFault(t)
  /\ stage[t] # "none" => ~RunJobFails(t)
  /\ Beside

(* What the nodes that are up, the coordinator, the consumers and the      *)
(* chain do.                                                               *)
Serve ==
  \/ \E j \in Job : Ask(j) \/ ConsumerStep(j) \/ ConsumerFault(j) \/ DeadlinePasses(j)
  \/ \E t \in Tick : NextTick(t) \/ NodeStep(t) \/ NodeFault(t)
  \/ \E j \in Job : Finalize(j)
  \/ RestartServer /\ Beside

ServiceNext ==
  /\ UNCHANGED env
  /\ \/ Serve /\ UNCHANGED up
     \/ \E t \in Tick : BootNode(t)
     \/ \E n \in Node : RunsDry(n) \/ EndNode(n)

ServiceSpec == ServiceInit /\ [][ServiceNext]_service

(* What is under way goes on: the server's event loop serves every         *)
(* connection, replies travel, models answer.  So does every consumer that *)
(* has asked; clocks run, and a broadcast memo is decided.  That an idle   *)
(* node ticks again is not assumed: it may end, and a supervised one, as   *)
(* the container of docker/docker-compose.yml:15 (`restart:                *)
(* unless-stopped`), is then started again.  Nothing is assumed of the     *)
(* other nodes, of faults, nor that anybody asks.                          *)
ServiceFairSpec ==
  /\ ServiceSpec
  /\ \A t \in Tick : WF_service(NodeStep(t) /\ UNCHANGED <<env, up>>)
  /\ \A n \in Supervised :
       /\ WF_service(RunsDry(n) /\ UNCHANGED env)
       /\ WF_service((\E s \in Slot : BootNode(<<n, s>>)) /\ UNCHANGED env)
  /\ \A j \in Job : /\ WF_service(ConsumerStep(j) /\ UNCHANGED <<env, up>>)
                    /\ WF_service(DeadlinePasses(j) /\ UNCHANGED <<env, up>>)
                    /\ WF_service(Finalize(j) /\ UNCHANGED <<env, up>>)

-----------------------------------------------------------------------------
(* Properties                                                              *)

(* Settlement belongs to a job at work, and a job that is settled has left *)
(* the queue for good.                                                     *)
MemoShape ==
  /\ \A t \in Tick :
       /\ stage[t] # "none" => t[1] \in Settling /\ client[t] \in {"running", "reporting"}
       /\ stage[t] = "sent" => client[t] = "running" /\ memos[job[t]] = 1
       /\ stage[t] = "confirmed" => client[t] = "reporting" /\ chain[job[t]] = "landed"
  /\ \A j \in Job : chain[j] = "none" => memos[j] = 0
  /\ \A j \in Job : memos[j] > 0 =>
       /\ memos[j] = 1
       /\ j \in Range(submitted) /\ j \notin Range(pending)
       /\ \A t \in Tick : job[t] = j =>
            client[t] = "reporting" \/ (client[t] = "running" /\ stage[t] = "sent")

(* Only pollers, runtimes and consumers fail, and reports are accepted.    *)
Calm ==
  /\ ~env.keyed
  /\ env.faults \subseteq {"abort", "runtime", "unreadable", "late", "cancel"}

(* Where a memo is known: with the tick that sent it, then in the store.   *)
MemosTold ==
  /\ \A j \in Job : settled[j] => Answered(j) /\ chain[j] = "landed"
  /\ crediting # NoTick /\ stage[crediting] = "confirmed" => settled[job[crediting]]
  /\ Calm => \A j \in Job :
       chain[j] \in {"pending", "landed"} =>
         settled[j] \/ \E t \in Tick : job[t] = j /\ stage[t] # "none"

(* Nobody but its consumer submits a job.                                  *)
AskedFirst == \A j \in Job : asker[j] \in {"idle", "submitting"} => j \notin Range(submitted)

(* Who polls or runs a model is a running process.                         *)
TickersAreUp == \A t \in Tick : client[t] \in {"polling", "running"} => t[1] \in up

ServiceInv == ServiceTypeOK /\ MemoShape /\ MemosTold /\ AskedFirst /\ TickersAreUp

(* Nobody pays for two memos of one job: a node settles before it reports, *)
(* and whatever gets lost, dies or is given up meanwhile, no second node   *)
(* ever does (router.ts 57-64).                                            *)
OneMemoPerJob == \A j \in Job : memos[j] <= 1

(* The chain and the store tell the same story.  A result that names a     *)
(* transaction has one that landed, always; and where only runtimes and    *)
(* pollers fail, a memo that landed is named by the recorded result as     *)
(* soon as no node has the job in hand.                                    *)
MemosAgreeWithResults ==
  /\ \A j \in Job : settled[j] => chain[j] = "landed"
  /\ Calm => \A j \in Job : chain[j] = "landed" /\ ~Carried(j) => settled[j]

(* Submitted, and not told that it failed.                                 *)
Promised == {"accepted"} \cup Waiting \cup (Over \ {"refused"})

(* What a consumer is told is so, in the books of the coordinator: where   *)
(* nothing loses jobs, the job of everyone who holds an id, still waits or *)
(* gave up waiting is queued, with a node or answered; an answer delivered *)
(* stays recorded in a store that survives; and whoever was refused has    *)
(* left no job behind, unless a reply can get lost.                        *)
ConsumersAreToldTheTruth ==
  \A j \in Job :
    /\ asker[j] \in Promised /\ Gentle => Status(j) \in {"queued", "held", "done"}
    /\ asker[j] = "answered" /\ (env.durable \/ ~CanFail({"crash"})) => Answered(j)
    /\ asker[j] = "refused" /\ ~CanFail({"lost", "crash"}) => Status(j) = "new"

(* With clients giving up, models and settlement failing, clocks set back, *)
(* payloads that do not parse and reports refused, a job may be lost but   *)
(* none is stuck as long as one node is supervised: it does not stay in    *)
(* the queue or with a tick forever.                                       *)
Unblocking ==
  {"abort", "runtime", "unreadable", "clock", "late", "cancel", "rpc", "malformed"}
NothingStuck ==
  \A j \in Job :
    Status(j) \in {"queued", "held"} /\ env.faults \subseteq Unblocking /\ Supervised # {}
      ~> Status(j) \in {"done", "lost"}

(* With no fault and no API keys, and one node that is started again when  *)
(* it has run dry, everybody who asks is served: the job is queued, taken, *)
(* settled or not, reported, and its consumer, which looks and sleeps in   *)
(* turn, gets the answer.                                                  *)
ConsumerServed ==
  \A j \in Job :
    asker[j] = "submitting" /\ env.faults = {} /\ ~env.keyed /\ Supervised # {}
      ~> asker[j] = "answered"

(* client.ts 122-135: with a deadline awaitResult ends, with a result or   *)
(* an error, whatever becomes of the job and the coordinator.              *)
AwaitEnds ==
  \A j \in Job : asker[j] \in Waiting /\ CanFail({"late"}) ~> asker[j] \in Over
=============================================================================

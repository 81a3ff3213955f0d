------------------------------- MODULE Broker -------------------------------
(***************************************************************************)
(* The coordinator's HTTP broker and the nodes that work for it: the store *)
(* (packages/coordinator/src/queue.ts, store-sqlite.ts), the handlers of   *)
(* /submit, /poll and /report (server.ts), and the polling loop of a node  *)
(* (packages/node/src/coordinator-http.ts, router.ts).                     *)
(*                                                                         *)
(* A node polls on a timer that does not wait for the previous tick, so    *)
(* several ticks of one node may be under way: a tick is a node and a      *)
(* slot.  A tick has a client side (the node) and a server side (the /poll *)
(* handler and its reply), which go their own ways once the client gives   *)
(* up waiting.  The server is one thread: a handler runs alone between its *)
(* awaits, but it can die or throw between two statements of the store.    *)
(*                                                                         *)
(* An environment fixes, for a whole behaviour, the store (--db or in      *)
(* memory), whether polls are long (--long-poll), whether the coordinator  *)
(* asks for a bearer token (DOZZZE_COORD_API_KEYS), and what can go wrong: *)
(*   "abort"    the client's timer aborts a poll still waiting             *)
(*   "lost"     a request or a reply is lost on the network                *)
(*   "runtime"  the local model fails                                      *)
(*   "stop"     a node process ends                                        *)
(*   "crash"    the coordinator process ends and is restarted              *)
(*   "busy"     a store statement throws (another process holds the file)  *)
(*   "unreadable"  a queued payload does not parse any more (it was stored *)
(*              by another release)                                        *)
(*   "clock"    a node's clock is set back while its model is at work      *)
(* and, of consumers and of settlement, in Service:                        *)
(*   "late"     a consumer's deadline passes                               *)
(*   "cancel"   a consumer's signal is aborted                             *)
(*   "rpc"      a call to Solana fails                                     *)
(*   "malformed"  a consumer's request does not parse                      *)
(***************************************************************************)
EXTENDS Integers, Sequences, FiniteSets, Functions, Tally, Worker, Accruals

CONSTANTS
  Job,        \* the jobs consumers submit, by the fresh id each one gets
  Node,       \* the nodes; a wallet is named by the node whose results carry it
  Slot,       \* ticks a node may have under way at once
  Prompt,     \* Prompt[j]: the prompt of job j
  Answer,     \* Answer[j]: what a runtime answers to it
  formula(_), \* the operator's payout formula
  Environments, \* the environments considered
  NoJob, NoNode, NoTick

Tick == Node \X Slot

Fault ==
  {"abort", "lost", "runtime", "stop", "crash", "busy", "unreadable", "clock",
   "late", "cancel", "rpc", "malformed"}

(* What the report of a job claims to be worth.                            *)
Pay == [j \in Job |-> formula(Tokens(Prompt[j], Answer[j]))]

(* durable: the SQLite store; longPoll: --long-poll is positive; keyed:    *)
(* the coordinator was given API keys.                                     *)
Environment ==
  [ faults : SUBSET Fault, durable : BOOLEAN, longPoll : BOOLEAN, keyed : BOOLEAN ]

ASSUME BrokerAssumption ==
  /\ IsFiniteSet(Job)
  /\ Wallet \subseteq Node
  /\ Prompt \in [Job -> Nat \ {0}]
  /\ Answer \in [Job -> OllamaAnswer(Nat) \cup LmStudioAnswer(Nat)]
  /\ \A j \in Job : formula(Tokens(Prompt[j], Answer[j])) \in Int
  /\ Environments \subseteq Environment
  /\ NoJob \notin Job
  /\ NoNode \notin Node
  /\ NoTick \notin Tick

VARIABLES
  env,         \* the environment of this behaviour
  submitted,   \* history: the jobs accepted by /submit, in order
  handed,      \* history: the jobs taken off the queue, in order
  pending,     \* store: the queue
  results,     \* store: the node whose result is recorded for a job
  client,      \* node: what each tick is doing
  poll,        \* server: the /poll request of each tick
  job,         \* the job a tick, its poll's reply or its report carries
  crediting    \* server: the report recorded but not yet credited

store  == <<pending, results, accrued>>
ticks  == <<client, poll, job>>
past   == <<submitted, handed>>
state  == <<past, store, ticks, crediting>>
vars   == <<env, state>>

(* One of the faults fs can happen in this behaviour.                      *)
CanFail(fs) == fs \cap env.faults # {}

TypeOK ==
  /\ env \in Environments
  /\ submitted \in Seq(Job)
  /\ handed \in Seq(Job)
  /\ pending \in Seq(Job)
  /\ results \in [Job -> Node \cup {NoNode}]
  /\ accrued \in [Wallet -> Nat]
  /\ client \in [Tick -> {"idle", "polling", "running", "reporting"}]
  /\ poll \in [Tick -> {"none", "sent", "waiting", "replied"}]
  /\ job \in [Tick -> Job \cup {NoJob}]
  /\ crediting \in Tick \cup {NoTick}

Init ==
  /\ env \in Environments
  /\ submitted = << >>
  /\ handed = << >>
  /\ pending = << >>
  /\ results = [j \in Job |-> NoNode]
  /\ accrued = [w \in Wallet |-> 0]
  /\ client = [t \in Tick |-> "idle"]
  /\ poll = [t \in Tick |-> "none"]
  /\ job = [t \in Tick |-> NoJob]
  /\ crediting = NoTick

(* The server is between two statements of a /report handler.              *)
ServerFree == crediting = NoTick

-----------------------------------------------------------------------------
(* /submit                                                                 *)

(* The job gets a fresh id and joins the end of the queue.                 *)
Submit(j) ==
  /\ ServerFree
  /\ j \notin Range(submitted)
  /\ submitted' = Append(submitted, j)
  /\ pending' = Append(pending, j)
  /\ UNCHANGED <<handed, results, accrued, ticks, crediting>>

-----------------------------------------------------------------------------
(* /poll: the node's tick and the server's handler                         *)

(* The interval fires: the tick sends its request.                         *)
StartTick(t) ==
  /\ client[t] = "idle"
  /\ poll[t] = "none"
  /\ client' = [client EXCEPT ![t] = "polling"]
  /\ poll' = [poll EXCEPT ![t] = "sent"]
  /\ UNCHANGED <<past, store, job, crediting>>

(* Mutated forms: the newest job is taken; the job is read and not         *)
(* deleted; a waiting handler does not look again.                         *)
PollTakesNewest(t) ==
  /\ ServerFree
  /\ poll[t] \in {"sent", "waiting"}
  /\ pending # << >>
  /\ job' = [job EXCEPT ![t] = pending[Len(pending)]]
  /\ handed' = Append(handed, pending[Len(pending)])
  /\ pending' = SubSeq(pending, 1, Len(pending) - 1)
  /\ poll' = [poll EXCEPT ![t] = "replied"]
  /\ UNCHANGED <<submitted, results, accrued, client, crediting>>

PollTakesAndKeeps(t) ==
  /\ ServerFree
  /\ poll[t] \in {"sent", "waiting"}
  /\ pending # << >>
  /\ job' = [job EXCEPT ![t] = Head(pending)]
  /\ poll' = [poll EXCEPT ![t] = "replied"]
  /\ UNCHANGED <<past, store, client, crediting>>

PollTakesAtOnce(t) ==
  /\ ServerFree
  /\ poll[t] = "sent"
  /\ pending # << >>
  /\ job' = [job EXCEPT ![t] = Head(pending)]
  /\ handed' = Append(handed, Head(pending))
  /\ pending' = Tail(pending)
  /\ poll' = [poll EXCEPT ![t] = "replied"]
  /\ UNCHANGED <<submitted, results, accrued, client, crediting>>

(* dequeue finds a job, at the first try or when a waiting handler wakes   *)
(* up; the handler never asks whether the client is still there.           *)
PollTakes(t) ==
  /\ ServerFree
  /\ poll[t] \in {"sent", "waiting"}
  /\ pending # << >>
  /\ job' = [job EXCEPT ![t] = Head(pending)]
  /\ handed' = Append(handed, Head(pending))
  /\ pending' = Tail(pending)
  /\ poll' = [poll EXCEPT ![t] = "replied"]
  /\ UNCHANGED <<submitted, results, accrued, client, crediting>>

(* The queue is empty: a long poll waits.                                  *)
PollWaits(t) ==
  /\ ServerFree
  /\ poll[t] = "sent"
  /\ pending = << >>
  /\ env.longPoll
  /\ poll' = [poll EXCEPT ![t] = "waiting"]
  /\ UNCHANGED <<past, store, client, job, crediting>>

(* The queue is empty, and there is no waiting or the deadline has passed. *)
PollFindsNothing(t) ==
  /\ ServerFree
  /\ poll[t] = IF env.longPoll THEN "waiting" ELSE "sent"
  /\ pending = << >>
  /\ poll' = [poll EXCEPT ![t] = "replied"]
  /\ UNCHANGED <<past, store, client, job, crediting>>

(* A poll whose client still waits ends without a job.                     *)
GiveUp(t) == client' = [client EXCEPT ![t] = IF @ = "polling" THEN "idle" ELSE @]

(* dequeue throws before it touched the queue: the node sees a 500.        *)
PollThrows(t) ==
  /\ CanFail({"busy"})
  /\ ServerFree
  /\ poll[t] \in {"sent", "waiting"}
  /\ poll' = [poll EXCEPT ![t] = "none"]
  /\ GiveUp(t)
  /\ UNCHANGED <<past, store, job, crediting>>

(* Mutated form: the ROLLBACK brings the job back.                         *)
PollLosesJobKeeps(t) ==
  /\ CanFail({"unreadable"}) /\ env.durable
  /\ ServerFree
  /\ poll[t] \in {"sent", "waiting"}
  /\ pending # << >>
  /\ handed' = Append(handed, Head(pending))
  /\ poll' = [poll EXCEPT ![t] = "none"]
  /\ GiveUp(t)
  /\ UNCHANGED <<submitted, store, job, crediting>>

(* dequeue throws when the deletion of the job is already committed: the   *)
(* ROLLBACK finds no transaction, and the job is gone.                     *)
PollLosesJob(t) ==
  /\ CanFail({"unreadable"}) /\ env.durable
  /\ ServerFree
  /\ poll[t] \in {"sent", "waiting"}
  /\ pending # << >>
  /\ handed' = Append(handed, Head(pending))
  /\ pending' = Tail(pending)
  /\ poll' = [poll EXCEPT ![t] = "none"]
  /\ GiveUp(t)
  /\ UNCHANGED <<submitted, results, accrued, job, crediting>>

(* The request never reaches the server.                                   *)
PollLost(t) ==
  /\ CanFail({"lost"})
  /\ poll[t] = "sent"
  /\ poll' = [poll EXCEPT ![t] = "none"]
  /\ GiveUp(t)
  /\ UNCHANGED <<past, store, job, crediting>>

(* The reply reaches a client that is still waiting: it runs the job.      *)
ReplyArrives(t) ==
  /\ poll[t] = "replied"
  /\ client[t] = "polling"
  /\ client' = [client EXCEPT ![t] = IF job[t] = NoJob THEN "idle" ELSE "running"]
  /\ poll' = [poll EXCEPT ![t] = "none"]
  /\ UNCHANGED <<past, store, job, crediting>>

(* Mutated form: the undelivered job goes back to the queue.               *)
ReplyDroppedRequeues(t) ==
  /\ poll[t] = "replied"
  /\ client[t] # "polling" \/ CanFail({"lost", "crash"})
  /\ pending' = IF job[t] = NoJob THEN pending ELSE Append(pending, job[t])
  /\ poll' = [poll EXCEPT ![t] = "none"]
  /\ job' = [job EXCEPT ![t] = NoJob]
  /\ GiveUp(t)
  /\ UNCHANGED <<past, results, accrued, crediting>>

(* The reply meets a closed connection or is lost, and its job with it.    *)
ReplyDropped(t) ==
  /\ poll[t] = "replied"
  /\ client[t] # "polling" \/ CanFail({"lost", "crash"})
  /\ poll' = [poll EXCEPT ![t] = "none"]
  /\ job' = [job EXCEPT ![t] = NoJob]
  /\ GiveUp(t)
  /\ UNCHANGED <<past, store, crediting>>

(* The client's timer runs out first; the server does not notice.          *)
AbortPoll(t) ==
  /\ CanFail({"abort"})
  /\ client[t] = "polling"
  /\ client' = [client EXCEPT ![t] = "idle"]
  /\ UNCHANGED <<past, store, poll, job, crediting>>

-----------------------------------------------------------------------------
(* The node's worker                                                       *)

(* The model answers: the tick sends its report.  Settling the result on   *)
(* chain first is best effort and changes nothing here (Service).          *)
RunJob(t) ==
  /\ client[t] = "running"
  /\ client' = [client EXCEPT ![t] = "reporting"]
  /\ UNCHANGED <<past, store, poll, job, crediting>>

(* The model fails: handleJob logs it and the tick ends.                   *)
RunJobFails(t) ==
  /\ CanFail({"runtime"})
  /\ client[t] = "running"
  /\ client' = [client EXCEPT ![t] = "idle"]
  /\ job' = [job EXCEPT ![t] = NoJob]
  /\ UNCHANGED <<past, store, poll, crediting>>

-----------------------------------------------------------------------------
(* /report                                                                 *)

EndTick(t) ==
  /\ client' = [client EXCEPT ![t] = "idle"]
  /\ job' = [job EXCEPT ![t] = NoJob]

(* recordResult: first statement of the handler, behind the auth check.    *)
RecordResult(t) ==
  /\ ~env.keyed
  /\ ServerFree
  /\ client[t] = "reporting"
  /\ results' = [results EXCEPT ![job[t]] = t[1]]
  /\ crediting' = t
  /\ UNCHANGED <<past, pending, accrued, ticks>>

(* Mutated form: without the lower bound.                                  *)
WorthUnclamped == Pay

(* What a result is worth: never less than nothing.                        *)
Worth == [j \in Job |-> IF Pay[j] > 0 THEN Pay[j] ELSE 0]

(* What the report is worth to the node that sent it.                      *)
Credit(t) == Worth[job[t]]

(* A result without a wallet address is recorded and not paid for.         *)
CreditReport(t) == IF t[1] \in Wallet THEN CreditRow(t[1], Credit(t)) ELSE UNCHANGED accrued

(* Mutated form: the reply is missed and the report sent again.            *)
CreditEarningsResent(t) ==
  /\ crediting = t
  /\ CreditReport(t)
  /\ crediting' = NoTick
  /\ UNCHANGED <<past, pending, results, ticks>>

(* creditEarnings: second statement of the handler, then the reply.        *)
CreditEarnings(t) ==
  /\ crediting = t
  /\ CreditReport(t)
  /\ crediting' = NoTick
  /\ EndTick(t)
  /\ UNCHANGED <<past, pending, results, poll>>

(* A coordinator with keys answers 401: the node's report carries no       *)
(* token.  Any coordinator answers 400 to a report whose durationMs is     *)
(* negative.  handleJob logs it and the result is gone.                    *)
ReportRefused(t) ==
  /\ env.keyed \/ CanFail({"clock"})
  /\ ServerFree
  /\ client[t] = "reporting"
  /\ EndTick(t)
  /\ UNCHANGED <<past, store, poll, crediting>>

(* Either statement throws; the node logs the 500 and does not retry.      *)
ReportThrows(t) ==
  /\ CanFail({"busy"})
  /\ ~env.keyed
  /\ client[t] = "reporting"
  /\ crediting \in {t, NoTick}
  /\ crediting' = NoTick
  /\ EndTick(t)
  /\ UNCHANGED <<past, store, poll>>

(* The report never reaches the server, and the node does not retry.       *)
ReportLost(t) ==
  /\ CanFail({"lost", "crash", "stop"})
  /\ client[t] = "reporting"
  /\ crediting # t
  /\ EndTick(t)
  /\ UNCHANGED <<past, store, poll, crediting>>

-----------------------------------------------------------------------------
(* Processes ending                                                        *)

(* A node ends (dozzze stop, or a crash): its polls are abandoned, its     *)
(* running jobs are gone, and a report that was sent may still arrive.     *)
StopNode(n) ==
  /\ CanFail({"stop"})
  /\ client' = [t \in Tick |->
                  IF t[1] = n /\ client[t] \in {"polling", "running"} THEN "idle" ELSE client[t]]
  /\ job' = [t \in Tick |-> IF t[1] = n /\ client[t] = "running" THEN NoJob ELSE job[t]]
  /\ UNCHANGED <<past, store, poll, crediting>>

(* The coordinator ends and starts again on the same file.  Polls it had   *)
(* not answered die with it, and so does a handler between its two         *)
(* statements; a store in memory is gone.                                  *)
RestartServer ==
  /\ CanFail({"crash"})
  /\ IF env.durable
     THEN UNCHANGED store
     ELSE /\ pending' = << >>
          /\ results' = [j \in Job |-> NoNode]
          /\ accrued' = [w \in Wallet |-> 0]
  /\ poll' = [t \in Tick |-> IF poll[t] \in {"sent", "waiting"} THEN "none" ELSE poll[t]]
  /\ client' = [t \in Tick |->
                  IF t = crediting \/ (client[t] = "polling" /\ poll[t] \in {"sent", "waiting"})
                  THEN "idle" ELSE client[t]]
  /\ job' = [t \in Tick |-> IF t = crediting THEN NoJob ELSE job[t]]
  /\ crediting' = NoTick
  /\ UNCHANGED past

-----------------------------------------------------------------------------
(* What a tick, its connection and its handlers do without being disturbed.*)
TickStep(t) ==
  \/ StartTick(t)
  \/ PollTakes(t)
  \/ PollWaits(t)
  \/ PollFindsNothing(t)
  \/ ReplyArrives(t)
  \/ ReplyDropped(t)
  \/ RunJob(t)
  \/ RecordResult(t)
  \/ CreditEarnings(t)
  \/ ReportRefused(t)

TickFault(t) ==
  \/ PollThrows(t)
  \/ PollLosesJob(t)
  \/ PollLost(t)
  \/ AbortPoll(t)
  \/ RunJobFails(t)
  \/ ReportThrows(t)
  \/ ReportLost(t)

Next ==
  /\ UNCHANGED env
  /\ \/ \E j \in Job : Submit(j)
     \/ \E t \in Tick : TickStep(t) \/ TickFault(t)
     \/ \E n \in Node : StopNode(n)
     \/ RestartServer

Spec == Init /\ [][Next]_vars

-----------------------------------------------------------------------------
(* Properties                                                              *)

Answered(j) == results[j] # NoNode
Carried(j)  == \E t \in Tick : job[t] = j

(* Jobs leave the queue in the order they came in, none twice, none left   *)
(* out, and a durable queue survives every restart (queue.ts 47, FIFO;     *)
(* store-sqlite.ts 137-152).                                               *)
FirstInFirstOut == env.durable => submitted = handed \o pending

(* A job is in one place at a time: in the queue, or with one tick of one  *)
(* node, or answered.  However ticks overlap, time out and restart, no two *)
(* nodes ever work on the same job and no answered job is worked on again. *)
OneHolder ==
  \A t \in Tick : job[t] # NoJob =>
    /\ \A s \in Tick : job[s] = job[t] => s = t
    /\ job[t] \notin Range(pending)
    /\ Answered(job[t]) => crediting = t

(* Why OneHolder holds.  A tick carries a job exactly while its poll's     *)
(* reply, its model or its report does, and while a report is being        *)
(* handled its result is the recorded one.                                 *)
TickShape ==
  /\ \A t \in Tick :
       /\ client[t] \in {"running", "reporting"} => poll[t] = "none" /\ job[t] # NoJob
       /\ client[t] \in {"idle", "polling"} /\ job[t] # NoJob => poll[t] = "replied"
  /\ crediting # NoTick =>
       /\ client[crediting] = "reporting"
       /\ results[job[crediting]] = crediting[1]

(* A job is queued once, and once it left the queue it does not come back. *)
QueuedOnce ==
  /\ IsInjective(pending)
  /\ Range(pending) \subseteq Range(submitted)
  /\ \A j \in Job : Answered(j) => j \in Range(submitted) /\ j \notin Range(pending)
  /\ \A t \in Tick : job[t] # NoJob => job[t] \in Range(submitted)

(* The ledger pays each job at most once: what a node has accrued is       *)
(* covered by the recorded results of its own jobs (server.ts 133-139).    *)
Earned(n) == Total(Worth, { j \in Job : results[j] = n })
NeverOverCredited == \A n \in Wallet : accrued[n] <= Earned(n)

(* Why NeverOverCredited holds: there is room for the credit under way.    *)
UnderWay(n) ==
  IF crediting # NoTick /\ crediting[1] = n THEN Credit(crediting) ELSE 0
CreditsFit == \A n \in Wallet : accrued[n] + UnderWay(n) <= Earned(n)

(* README.md:269-270: "Accrual is off-chain and atomic".  Whenever no      *)
(* report is being handled, the ledger holds exactly the pay of the        *)
(* recorded results.                                                       *)
AccrualIsAtomic ==
  ServerFree => \A n \in Wallet : accrued[n] = Earned(n)

(* What there is to that claim: unless a statement throws or the process   *)
(* ends between the two statements of /report on a store that survives it, *)
(* results and credits agree to the unit.                                  *)
Uninterrupted == ~CanFail({"busy"}) /\ ~(CanFail({"crash"}) /\ env.durable)
AccrualIsExact == Uninterrupted => AccrualIsAtomic

(* Why AccrualIsExact holds: the credit under way is all that is missing.  *)
CreditsExact ==
  Uninterrupted => \A n \in Wallet : accrued[n] + UnderWay(n) = Earned(n)

BrokerInv == TypeOK /\ TickShape /\ QueuedOnce /\ OneHolder /\ CreditsFit /\ CreditsExact

(* Broker implements JobLifecycle.                                         *)
Status(j) ==
  CASE Answered(j)             -> "done"
    [] j \in Range(pending)    -> "queued"
    [] ~Answered(j) /\ Carried(j) -> "held"
    [] j \notin Range(submitted) -> "new"
    [] OTHER                   -> "lost"

Lifecycle == INSTANCE JobLifecycle WITH
  durable <- env.durable,
  status  <- [j \in Job |-> Status(j)]

(* Under every fault, each step moves jobs along their life cycle and      *)
(* never back: a job that a node gave up on, or that got lost with a       *)
(* reply, is not handed out again.                                         *)
ImplementsLifecycle == Lifecycle!Spec

(* README.md:349: coordinator.apiKey is a "Bearer token sent on every       *)
(* coordinator call".  So keys alone lose no job: where nothing fails, a    *)
(* job is new, queued, held by a node or answered.                         *)
NothingLost ==
  env.faults = {} => \A j \in Job : Status(j) # "lost"

(* No API keys, and nothing fails but what consumers and settlement do.    *)
Gentle == ~env.keyed /\ env.faults \subseteq {"late", "cancel", "rpc", "malformed"}
=============================================================================

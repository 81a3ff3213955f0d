# Verification of DOZZZE

DOZZZE pays people for running local language models while they sleep.
Consumers submit inference jobs to a coordinator, nodes poll the coordinator
for jobs, run them on a local runtime and report the results, and the operator
pays what nodes earned as SPL tokens on Solana. This directory holds TLA+
models of that system, the TLC configurations that check them, and proofs
checked by TLAPS. Paths below are relative to `packages/` unless they start
with `README` or `docs`.

## 1. The system

| Component | State it keeps | Operations |
| --- | --- | --- |
| HTTP broker, `coordinator/src/server.ts` | none of its own; one Hono handler per request | `/submit`, `/poll` (short or long), `/report`, reads |
| Store, `coordinator/src/queue.ts`, `store-sqlite.ts` | FIFO queue, results by job id, one accrual row per wallet (`accrued`, `paid`, `lastTxSig`) | enqueue, dequeue, recordResult, creditEarnings, listUnpaid, markPaid, opening a file with a schema version |
| Settlement, `coordinator/src/commands/distribute.ts`, `settlement-spl.ts` | one pass: a snapshot of unpaid rows, a split, the chunks still to send, a report | plan, send a chunk, confirm, mark each row, report |
| Auth and rate limit, `coordinator/src/auth.ts` | a window counter per API key | admit or refuse a request |
| Node polling and routing, `node/src/coordinator-http.ts`, `router.ts` | overlapping ticks, each with its own request and job | tick, abort, run the job, memo settlement, report |
| Node daemon, `node/src/commands/start.ts`, `stop.ts`, `status.ts`, `pid.ts` | a pidfile shared by processes | start, shut down, stop, status |
| Keystore and configuration, `node/src/wallet.ts`, `config.ts` | two files under `~/.dozzze` | create, import, unlock; load, patch, save |
| Client SDK, `client/src/client.ts`, and its users `node/src/commands/ask.ts` and the Discord example | a deadline, an abort signal | submit, getResult, awaitResult |
| Worker and memo settlement, `node/src/worker.ts`, `settlement.ts` | none; the memo is on chain | run a job on a local runtime, count its tokens; send and confirm a memo |
| Mock coordinator, detector, doctor, CLI, protocol schemas | none that outlives a call | calls to other systems, formatting, validation |

How they interact:

- Nodes and consumers call the broker over HTTP. A node is a client only: it
  polls on an interval and reports. Handlers share one store and one thread, so
  they interleave only at their `await`s; a long poll awaits 250 ms at a time.
- A tick does not wait for the previous one, so one node can run several jobs.
  A tick is aborted after `max(2000, interval)` ms while the server's handler
  goes on waiting: client and server disagree from then on.
- The `distribute` command is another process on the same SQLite file. The
  coordinator keeps crediting rows while a pass reads, pays and marks them.
- Solana decides a broadcast transaction later, whether or not anyone waits.

What is hard here, and what each part must guarantee:

- *Broker, store and nodes*: jobs are handed out in order and to one holder
  however ticks overlap, abort and restart; a durable queue survives a restart;
  no job is paid twice; results and credits agree; every job is answered if
  nothing fails and somebody keeps a node running, and none is stuck if clients only
  give up.
- *Settlement*: the ledger never claims a payment that is not on chain, never
  marks more than was accrued, and its report tells the truth, with crashes
  between confirmation and marking, lost confirmations, failing statements,
  overlapping passes and credits that arrive meanwhile. A pass ends.
- *Rate limit*: windows bound traffic per key, keys do not affect each other,
  refused keys recover.
- *Daemon*: the pidfile tells the truth about the live node, and `stop`
  ends that node and nothing else.
- *Files*: concurrent patches are not lost, an interrupted write loses nothing.
- *Client*: whoever asks is served if nothing fails and a node is kept running; an await with a deadline ends
  whatever happens; what a consumer is told about its job is so.
- *Memo settlement*: at most one memo per job, and the store names a memo exactly
  when it landed, as far as the code can know.

`PROJECT.json` lists the hazards with their lines and the properties that
guard them; the few that no property covers carry a note.

## 2. Modules

| Module | Contents |
| --- | --- |
| `Tally` | sums of token units as the cardinality of a set of units, so that their laws can be proved without recursion |
| `TallyProofs` | the laws: type, empty, add a holder, monotone, congruent, shift, union, scale, and division with rest |
| `Accruals` | the rows that the coordinator writes and the command reads |
| `Payout` | what paying the ledger promises: earn, send, book |
| `Distribute` | the `distribute` command against ledger and chain |
| `DistributeProofs` | its theorems |
| `PayoutProofs` | that it implements `Payout`, and when reruns are safe |
| `Worker` | the token counts of a result, and their price |
| `JobLifecycle` | what the broker promises about a job: new, queued, held, then done or lost |
| `Broker` | broker, store and nodes |
| `BrokerProofs` | its theorems, that it implements `JobLifecycle`, when it loses no job, and that token counts are natural numbers |
| `Payday` | `Broker` and `Distribute` on one ledger |
| `PaydayProofs` | that neither breaks the other, and that work and pay balance |
| `Service` | `Broker` with its consumers at one end and memo settlement at the other |
| `ServiceProofs` | its theorems, and that it implements `Broker` |
| `RateLimiter` | the window counter of `auth.ts` |
| `RateLimiterProofs` | its theorems |
| `NodeHome` | the owner's commands on pidfile, keystore and configuration |
| `NodeHomeProofs` | its theorems |
| `MCDistribute`, `MCBroker`, `MCPayday`, `MCService`, `MCRateLimiter`, `MCNodeHome` | small instances for TLC |

`Broker` and `Distribute` extend `Accruals`, whose `CreditRow` is the upsert of
`store-sqlite.ts`. Each is a specification by itself: `Distribute` takes any
coordinator that only adds to rows (its action `Accrue` may happen at any time), and
`Broker` takes a ledger that nobody else writes. `Payday` extends both and puts
them on one file. That the two keep to their specifications there, so that every
theorem about either carries over, is `EachPartKeepsItsSpec` (theorem
`PartsFitTogether`). `Service` extends `Broker` and conjoins its actions
with what they do at the two ends, so the broker's state changes by `Broker`'s
actions only (theorem `ServiceIsBroker`) and every theorem about `Broker` carries
over. `RateLimiter` is separate: `Service` only knows that a request may be refused
(`Refuse`). The abstract modules are tied to the detailed ones
by `INSTANCE ... WITH` (`Promise` in `Distribute`, `Work` in `Payday`, `Lifecycle` in `Broker`).

Each module but the rate limiter has a variable `env` (`setup` in `Distribute`),
chosen in `Init` and never changed: the options the operator gave and the faults that can occur. One run
therefore covers several deployments, and a property that needs an assumption
states it on `env` (for example `~MayFail("overlap")`) instead of hiding it in a
configuration.

### Distribute

Each process `r \in Run` is one invocation of the command; a rerun is another
one. `pc[r]` follows `distribute()`:

| Action | Code |
| --- | --- |
| `NothingUnpaid`, `Plan`, `DryRun`, `StartFails` | `distribute.ts` 48-105: the snapshot, the split, `new PublicKey` on every recipient, `--dry-run` (which splits, too, and sends nothing), an RPC URL that the connection does not take; before the split, an unreadable store, a treasury key, mint or pool that is no good; `ChunkRefused` and `Chunked` are what `chunkPlans` makes of a `--chunk` below 1 and of one that is not a number |
| `Send`, `SendFails` | 116-122 up to the broadcast: `buildTransferTx`, which throws for a whole chunk if one owner is off the curve, and the RPC |
| `Confirm`, `ConfirmFails` | 122: `sendAndConfirmTransaction` returns or throws; the transaction may land all the same |
| `MarkPaid`, `MarkPaidFails` | 124-140: one step per row; a throw lists the whole chunk as failed |
| `EndPass`, `ExitCode` | the report, and `cli.ts` 129 |
| `Crash` | the process dies at any of these points |
| `MayStart` | nothing in the code: operators run one pass at a time unless `"overlap"` is among the faults |
| `Accrue` | the coordinator process |
| `Land`, `Expire` | Solana: a transaction is atomic and ends one way or the other |

The units a wallet received are computed from the landed transactions
(`Received`), not from anything the command remembers.

### Broker

A tick is a node and a slot. `client[t]` is the node's side of it, `poll[t]` the
server's: after `AbortPoll` they differ, as in the code. `PollTakes` covers both
dequeues of the handler, the first one and those after each 250 ms wait;
`PollFindsNothing` is the reply `{job: null}`. `/report` is two steps,
`RecordResult` and `CreditEarnings`, because a process can die and a statement
can throw between them; no other handler runs in between (`ServerFree`).
`RestartServer` keeps the store when it is durable and empties it otherwise.
With API keys on the coordinator, `ReportRefused` is the 401 that a report gets:
the node sends no token, and `/poll` asks for none. It is also the 400 for a report
whose duration is negative because the node's clock was set back. `PollLosesJob`
is `dequeue` on a payload that does not parse: the deletion is committed by then,
and the `ROLLBACK` fails. What a report is worth (`Pay`) comes from the runtime's
answer through `Worker!Tokens` and the operator's payout formula. `submitted` and `handed` are history variables used by properties and by the
fresh ids of `/submit`.

### Payday

A step is one of the coordinator's side (`CoordinatorStep`: any step of `Broker`,
nodes included) or one of the command's (`PayoutStep`: start, step, crash of a pass,
and Solana). The coordinator has a durable store: without `--db` there is no file
to pay from. Units now mean the same on both sides, so two properties can speak of
what a result is worth and of what landed on chain for it: `PaidForResults` and
`EveryUnitAccountedFor`.

### Service

Each job has one consumer, which submits it once and awaits its result. `up` holds the
nodes whose process runs. The interval of a node is unreferenced, so an idle node may
end (`RunsDry`); only a node in `Supervised` is started again for certain, the others
perhaps.

| Action | Code |
| --- | --- |
| `BootNode`, `NextTick`, `RunsDry`, `EndNode` | `coordinator-http.ts` 47-51: the first tick, the interval, its `unref`; `start.ts` 106-112 and the death of the process |
| `Ask`, `Accept`, `Refuse`, `SubmitFails` | `submit` and the `/submit` handler behind `bearerAuth`; `Refuse` is a 401, a 429, or a 400 for a body that does not parse, with keys or without |
| `BeginAwait`, `Wake`, `DeadlinePasses` | `client.ts` 122-135: the loop condition, at the start and after every sleep |
| `Look`, `LookFails` | `getResult` and `/result`: an answer, a 404, or any other failure |
| `Cancel` | the caller's abort signal, in a sleep or in a request |
| `SendMemo`, `ReportSettled`, `ReportUnsettled` | `router.ts` 57-68 and `settlement.ts` 59-84, between the model's answer and the report |
| `RecordSettled` | `/report`: the recorded result keeps `settlementTx` |
| `Finalize` | Solana decides a memo |
| `Beside` | what every other step of the broker leaves of a settlement |

`urge[j]` says what presses a consumer (its deadline is over, its signal is
aborted); the code looks at it only between sleeps. `memos` and `chain` are what
happened on chain, not what anybody remembers.

### RateLimiter

Time is counted in ticks relative to each bucket. `recent` records, for the
properties, what passed in each of the last `Window` ticks. The limit is chosen in
`Init`: positive, zero, or `NaN`, which nothing exceeds.

### NodeHome

A process is one invocation of `start`, `stop`, `wallet create` (or `import`,
whose control is the same) or `config set`. `pc` follows the code; each file
operation is a step, and `writeFile` is two, because it truncates a file before
it fills it: in between, and for good if the writer dies, the file is `Torn` and
does not parse. `linked` tells which open descriptors belong to the present
pidfile, since a write after an `unlink` goes nowhere. A wallet is named by the
command that made it. A configuration is the set of patches in force, at most one per
key (`Patched`): `env.sets` says which key each `config set` is given, and a key the
schema does not know, as every dotted one, is stripped by the parse in `patchConfig`
while the command says "set ...". `signer` and
`payee` are the wallets `start` read for the settlement key and for the credited
address.

| Action | Code |
| --- | --- |
| `FindConfig`, `LoadConfig`, `CheckWallet`, `DetectAndUnlock` | `start.ts` 20-83 |
| `TruncatePid`, `FillPid`, `SkipPid` | 85-87, `writePid` |
| `PeekAndGoLive`, `PeekFails` | 92-112; until then a signal kills the process |
| `RunsDry` | 115-118: nothing that is referenced is left |
| `Interrupt`, `Shutdown` | 106-112 |
| `ReadPid`, `ProbePid`, `ClearPid`, `SendStop` | `stop.ts` |
| `FindKeystore`, `CreatorGivesUp`, `TruncateKeystore`, `FillKeystore` | `commands/wallet.ts`, `writeKeystore` |
| `LoadAndPatch`, `PatchFails`, `TruncateConfig`, `FillConfig` | `patchConfig`, `saveConfig` |

## 3. Runs

| Run | What it shows | States | Expected |
| --- | --- | --- | --- |
| `DistributeSafe` | the safety properties of settlement and `ImplementsPayout` in eight environments | 2.2 million | pass |
| `Payday` | coordinator and command on one file: each keeps its specification, work and pay balance, every pass ends | 0.6 million | pass |
| `DistributeReruns` | a lost confirmation, then a rerun: a wallet is paid twice | | violation |
| `DistributeBadRow` | one malformed address: nobody is paid | | violation |
| `BrokerSafe` | the safety properties of the broker and `ImplementsLifecycle` in four environments | 0.6 million | pass |
| `BrokerLive` | `Service` in six deployments: consumers, memos, and the liveness properties `NothingStuck`, `ConsumerServed`, `AwaitEnds`, with idle nodes that end | 0.4 million | pass |
| `BrokerAccrual` | recorded but never credited | | violation |
| `BrokerKeys` | API keys on the coordinator: every result is lost | | violation |
| `RateLimiter` | window, burst, isolation of keys, recovery, for limits of 3, 1, 0 and not a number | 11 thousand | pass |
| `NodeHome` | pidfile, wallets, patches and the wallet a node works for in eleven environments, and `StopWorks` | 0.35 million | pass |
| `NodeHomeReuse` | `stop` terminates a program that got the id of a dead node | | violation |
| `NodeHomeRunsDry` | a node nobody signals ends by itself | | violation |

### Bounds

- `DistributeSafe`: two wallets, so that a chunk can be marked half-way, and two
  passes, which is what a rerun or an overlap needs. Credits of 1 and 2 up to 3
  per row give unequal rows and credits between snapshot and mark. Chunks of one
  plan give several transactions per pass, chunks of two several rows per
  transaction; chunks of 0 and `NaN` are what a mistyped `--chunk` gives. The pool
  of 3 leaves dust.
- `Payday`: two jobs of unequal worth on two nodes, so that a credit can meet a pass
  between snapshot and mark, in the row it is about to mark or in the other; one
  wallet is off the curve, so that every build of its chunk throws. Chunks of one
  and of two, two passes one after the other. Four combinations of a coordinator
  and a command, each calm or with processes that die and statements that throw.
- `BrokerSafe`: two jobs are enough for an order, two nodes with two slots each
  for overlap within and between nodes. One job has a negative formula value
  (the code clamps it), one node has no wallet.
- `BrokerLive`: two jobs, each with its consumer, so that jobs wait for one another;
  two nodes of which one settles and is supervised, while the other may never come
  up or end for good. Five deployments without API keys have the faults that
  belong together (clocks and settlement meet where a report would have been
  accepted). The sixth has every fault at once on a coordinator with keys, where the
  consumer without one is refused at once and no report is accepted, which keeps it
  small; the broker's own faults are all together, without keys, in `BrokerSafe`.
- `RateLimiter`: three requests per three ticks let a burst straddle windows. With
  a limit that is not a number nothing bounds the traffic, and `Burst` caps it at
  two requests per tick and key.
- `NodeHome`: two starts and two stops, which is what an overlap, a second start
  or a stale pidfile needs; two wallet commands and two patches for overwriting
  each other, the patches of one key, of two, and one of a key that is stripped; three process ids, one of them a stranger's. The environments
  split the commands so that every pair that shares a file meets.

`MaxAccrued` (ledger rows) and the set `Job` (submissions) are the only bounds
on growing quantities, with `Burst`; a refused request counts as `limit + 1`
whatever its number, because the code compares and never reads the count otherwise. Deadlock
is checked in `Broker` and `RateLimiter`; settlement stops when all passes
ended and `NodeHome` when all commands did, so there it is not.

### Fairness

- `Distribute!DistributeFairSpec` and `Payday!PaydayFairSpec`: a started pass keeps taking steps (it is a straight
  loop of awaited calls), and a broadcast transaction is decided (its blockhash
  expires). Nothing is assumed about credits, starts, crashes, nodes or the coordinator.
- `Service!ServiceFairSpec`: what is under way goes on: the event loop serves each
  connection, `setTimeout` wakes long polls, runtimes answer, a consumer that has
  asked takes its next step (its fetches are answered or fail), clocks pass deadlines,
  a broadcast memo lands or expires. That the interval of an idle node fires again is
  not assumed, because it is unreferenced (`NodeHomeRunsDry`). A node in `Supervised`
  ends when it is idle and is then started again, with a first tick at once, as the
  container of `docker/docker-compose.yml:15` (`restart: unless-stopped`) is; nothing
  is assumed of other nodes. `ConsumerServed` and `NothingStuck` need one such node:
  a consumer whose job arrives after the last unsupervised node ran dry waits for
  somebody to start one. Nobody has to ask, and faults are not fair. `ConsumerServed`
  is about `env.faults = {}` and no keys; `NothingStuck` about faults after which the
  same server still answers (`Unblocking`); `AwaitEnds` holds under every fault as
  long as there is a deadline.
- `RateLimiter!FairSpec`: time passes.
- `NodeHome!FairSpec`: a command that was begun goes on. Whether a node runs dry,
  crashes or is interrupted is left open.

## 4. What does not hold

- **Reruns can pay twice** (`DistributeReruns`). README.md:312-313 says that the
  command flips a row to `paid` only after confirmation and that "Reruns are
  safe". When `sendAndConfirmTransaction` throws although the transaction lands
  (or the process dies before `markPaid`), the row stays unpaid and the next run
  sends the same amount again. What does hold: the ledger never runs ahead of
  the chain, and with dependable confirmations, no crash and no overlap the
  payout is strict (`ImplementsPayout`) and any number of reruns is safe
  (theorem `RerunsAreSafeWhenConfirmed`).
- **One malformed address stops every payout** (`DistributeBadRow`), although
  `distribute.ts:1` promises to pay every row and `sdk/src/protocol.ts:28-31`
  defers the check of addresses to payout time. With no such row due, options that are
  good and a `--chunk` that is a positive number, a pass serves or reports every payable row (theorem
  `PayableRowsAreServed`).
- **Accrual is not atomic** (`BrokerAccrual`), although README.md:269-270 says
  so: a result can be recorded and never credited. `AccrualIsExact` states when
  the claim holds: unless a statement throws or the process ends between the two
  statements on a store that survives it (theorem `AccrualStaysExact`).

- **A coordinator with API keys gets no results** (`BrokerKeys`). README.md:349
  describes `coordinator.apiKey` as the token sent on every coordinator call, but
  the configuration schema drops it and `reportResult` sends none. Jobs leave
  the queue, since `/poll` is open, and their reports are refused. Without keys, and
  where nothing fails but what consumers and memo settlement do, no job is lost
  (theorem `GentleBrokersLoseNothing`). The command that README.md:159 gives for the token is
  acknowledged and saves nothing (see below).

- **`stop` can terminate an unrelated program** (`NodeHomeReuse`).
  docs/architecture.md:127 counts on the check that the process is alive, which
  a reused id passes. Every node that runs dry, crashes or is killed before its
  handlers are installed leaves its pidfile behind. Without reused ids, and unless
  two starts mix their digits in the file, `stop` spares everybody else (theorem
  `StopSignalsOnlyNodes`).
- **A node ends by itself** (`NodeHomeRunsDry`). start.ts:115 means to keep the
  event loop alive with a promise that never resolves; a promise does not, and
  the poll intervals are unreferenced.

The models also show five disagreements between the code and what is written about
it on which no run is spent. Each is a behaviour of the modelled actions, a few steps
long:

- *There is no retry loop.* settlement-spl.ts:3 says that the CLI wraps the builders
  "with a Connection + signer + retry loop". A chunk that could not be built or sent
  is reported as failed at once (`SendFails`), and its rows wait for the next run of
  the command. This is also why every pass is short: each step leaves fewer to take
  (theorem `PassesWindDown`).
- *`config set coordinator.apiKey` sets nothing.* README.md:159 tells users to enter it;
  the parse in `patchConfig` strips the key (`Patched`), and the command acknowledges
  it. Patches of keys that the schema knows stay (theorem `PatchesStay`).
- *An answer in time may be reported as a timeout, and one failed look-up ends the
  wait.* client.ts:119-120 says that `awaitResult` polls "until a Result appears or the
  timeout elapses" and throws 408 or 0. After a sleep it looks at the clock before it
  looks for the result (`Wake`), and it lets any failure but a 404 through
  (`LookFails`). It does end (`AwaitEnds`, theorem `AwaitsWindDown`).
- *A live node may have no pidfile,* although README.md:362 calls it the PID of the
  running node: a second start overwrites the file (`TruncatePid`), and the end of
  either node removes it (`Shutdown`). With one node at a time the file names it
  (theorem `LiveNodeIsFound`).
- *A wallet can be overwritten unasked,* although README.md:370-371 says that `wallet
  create` refuses to: it looks for a keystore before its prompts (`FindKeystore`) and
  writes after them (`TruncateKeystore`), so two of them at once overwrite each other.
  One command at a time asks (theorem `WalletsStay`).

Some limits of the code have no claim against them, and the properties state them
as they are: a pass whose `--chunk` is not a number ends with exit code 0 having
paid nobody, as does a preview (`ExitZeroPaidEveryone`); a limit of 0 lets one request per window
through, and a limit that is not a number refuses nobody (`WindowIsRespected`,
`RefusedOnlyWhenUsedUp`); a pool larger than what is owed makes `paid` overtake
`accrued`; a job whose reply is lost, or whose node ends, is lost (`Drop` in
`JobLifecycle`); a memo may land without the result naming it when the RPC fails, the node
ends or the report is lost (`MemosAgreeWithResults`).

Three claims hold only for commands that do not overlap, and the properties say
so: an existing keystore is not overwritten unasked (`WalletsAreKept`; the check
comes before two prompts, the write after), acknowledged patches stay
(`PatchesAreKept`; read, merge and write are not locked), and a node signs and earns
with the one wallet on file (`NodeEarnsForItsOwner`; `start` reads it twice).

## 5. Theorems

All are for arbitrary finite sets of wallets, passes, jobs and nodes (and any
slots, commands and process ids), and for every environment, under the named `ASSUME` of each module,
which TLC evaluates in the runs.

| Theorem | Statement |
| --- | --- |
| `DistributeProofs!DistributeTypeCorrect` | `[]DistributeTypeOK` |
| `DistributeProofs!BooksInvariant` | `[]BooksInv` |
| `DistributeProofs!PaidNeverAheadOfChain` | `[]PaidIsOnChain` |
| `DistributeProofs!OneOperatorNeverOvermarks` | `[]NeverMarkedBeyondAccrual` |
| `DistributeProofs!StampIsAudited` | `[]LastTxPaysTheRow` |
| `DistributeProofs!FailedCanBePaidAgain` | `[]FailedMeansUnpaid` |
| `DistributeProofs!ExitZeroIsAPromise` | `[]ExitZeroPaidEveryone` |
| `DistributeProofs!LedgerAndChainAgree` | `[]BooksBalance` |
| `DistributeProofs!PoolIsNeverOverspent` | `[]PoolIsRespected` |
| `DistributeProofs!PayableRowsAreServed` | `[]PaysEveryRowUnlessMistyped` |
| `DistributeProofs!PassesWindDown` | `NoPassGoesRound`, which is not among the runs |
| `DistributeProofs!PassesCanGoOn` | `[]NoPassIsStuck` |
| `PayoutProofs!PayoutIsKept` | `ImplementsPayout` |
| `PayoutProofs!RerunsAreSafeWhenConfirmed` | `[]DependableReruns` |
| `PaydayProofs!PartsFitTogether` | `EachPartKeepsItsSpec` |
| `PaydayProofs!NoPayWithoutWork` | `[]PaidForResults` |
| `PaydayProofs!WorkAndPayBalance` | `[]EveryUnitAccountedFor` |
| `PaydayProofs!WorkIsPaid` | `PaysForWork` |
| `BrokerProofs!TypeCorrect` | `[]TypeOK` |
| `BrokerProofs!BrokerInvariant` | `[]BrokerInv` |
| `BrokerProofs!NoJobInTwoHands` | `[]OneHolder` |
| `BrokerProofs!QueueIsFIFO` | `[]FirstInFirstOut` |
| `BrokerProofs!NobodyIsOverCredited` | `[]NeverOverCredited` |
| `BrokerProofs!AccrualStaysExact` | `[]AccrualIsExact` |
| `BrokerProofs!TokensAreCounts` | `Worker!Tokens` yields natural numbers |
| `BrokerProofs!JobsGoForward` | `ImplementsLifecycle` |
| `BrokerProofs!GentleBrokersLoseNothing` | `[]NothingLostWhenGentle` |
| `ServiceProofs!ServiceIsBroker` | `ServiceSpec => Spec` |
| `ServiceProofs!ServiceInvariant` | `[]ServiceInv` |
| `ServiceProofs!NobodySettlesTwice` | `[]OneMemoPerJob` |
| `ServiceProofs!ChainAndStoreAgree` | `[]MemosAgreeWithResults` |
| `ServiceProofs!ConsumersCanTrust` | `[]ConsumersAreToldTheTruth` |
| `ServiceProofs!AwaitsWindDown` | `WaitsWindDown` |
| `RateLimiterProofs!LimiterInvariant` | `[]LimiterInv` |
| `RateLimiterProofs!NoWindowOverrun` | `[]WindowIsRespected` |
| `RateLimiterProofs!BurstsAreBounded` | `[]BurstIsBounded` |
| `RateLimiterProofs!NoUndeservedRefusal` | `[]RefusedOnlyWhenUsedUp` |
| `RateLimiterProofs!ResetsComeNearer` | `NothingPutsOffReset` |
| `NodeHomeProofs!TypeCorrect` | `[]TypeOK` |
| `NodeHomeProofs!NodeInvariant` | `[]NodeInv` |
| `NodeHomeProofs!PidfileIsTruthful` | `[]PidfileNamesANode` |
| `NodeHomeProofs!LiveNodeIsFound` | `[]LiveNodeIsFindable` |
| `NodeHomeProofs!StopSignalsOnlyNodes` | `[]StopSparesStrangers` without reused ids and mixed digits |
| `NodeHomeProofs!FilesInvariant` | `[]FilesInv` |
| `NodeHomeProofs!WalletsStay` | `[]WalletsAreKept` |
| `NodeHomeProofs!EarningsGoToTheOwner` | `[]NodeEarnsForItsOwner` |
| `NodeHomeProofs!PatchesStay` | `[]PatchesAreKept` |

*Settlement.* `PaidIsOnChain` compares two sums, so it is not inductive.
`BooksInv` says why it holds: a row's `paid` is exactly the sum of the shares of
the passes that marked it (`PaidIsWhatWasMarked`), each of them has a landed
transaction for this wallet (`MarkedHasLanded`), and a pass marks a plan once
(`EachPlanOnce`, which ties `todo`, `chunk`, `unmarked` and `succeeded`
together). The sum over the passes that marked is then below the sum over those
that landed. `TypeOK` needs an argument of its own: shares are natural numbers
because the total that `proportionalSplit` divides by is positive whenever a row
is unpaid. `SnapshotsFit` is the part for `NeverMarkedBeyondAccrual`: what a
pass has yet to mark fits between `paid` and `accrued` although it was read at
the start, because nobody else marks and credits only add room.

`ReportInv` is why the report can be believed. `NobodyForgotten` keeps every
planned wallet waiting, marked or failed; `SentOnce` ties each transaction to the
chunk it came from and keeps it apart from what is still to do; `FailedIsGivenUp`
and `SentIsMarked` hold where nothing fails behind the pass's back.
`ExitZeroPaidEveryone` then follows because a pass that is done has nothing
waiting, and `BooksBalance` because the passes that landed for a row are those
that marked it. `PoolIsRespected` is a fact about the operators: each floored
share times the total is at most accrual times pool and misses it by less than
the total (`Division`), and these inequalities are summed row by row with the laws
of `TallyProofs` (`TotalScale`, `TotalPlusOne`, `TotalPointwise`), which are proved by
counting units and need no induction.

`ImplementsPayout` is proved step by step: a credit is `Earn`, a mark is `Book`,
a transaction that lands is `Send`, and no other step can be seen, because a plan
changes only before its pass has sent anything (`ReceivedSame`, `OnlyLandLands`).
`Book` needs `PaidIsOnChain` of the next state. `Send` in a strict payout needs
`StrictlyCovered`, which counts what was broadcast and may still land as if it
had: whatever a wallet was ever sent is marked, or waits to be marked by the one
pass at work, for which `SnapshotsFit` has room. The same fact, `LandedIsCovered`, is
why reruns are safe where only the RPC fails.

A pass shares nothing with the rest of the system but the ledger and the chain, so
every step is its own or leaves it alone (`OwnStepOrAside`). `PassesWindDown` gives a
pass a measure, `StepsLeft`, of at most 3n + 1 for n plans; each step of its own
lowers it (a chunk costs a send, a confirmation, and a mark for each plan), and
cardinalities are all the proof needs to know about sets. `PassesCanGoOn` adds that
`NextChunks` is never empty while plans are left. `PayableRowsAreServed` follows a
plan: it is to do, in the chunk, marked (then it landed) or on the report, and a pass
is aborted after its split only because of a malformed address, an option that is no
good or a `--chunk` below 1 (`HasCause`).

*Payday.* `PartsFitTogether` needs an invariant of the whole, because a step of
one process is not simply a stutter of the other: a credit of the broker must be an
`Accrue` of a positive amount in `Credits` and within `MaxAccrued`. It is, because
`CreditsFit` bounds what the ledger holds together with the credit under way by what
results earned, and `EarnedIsBounded` bounds that by the worth of all jobs. A step of
the command changes no variable of the broker, `accrued` included
(`PassesDoNotAccrue`). Both invariants then hold of the two together
(`PartInvariants`), and the rest combines them row by row: with `NeverOverCredited`,
`NeverMarkedBeyondAccrual` and `LandedIsCovered` nobody is paid for nothing; with
`AccrualIsExact` and `BooksBalance` nothing is missing between a report and a balance.
`WorkIsPaid` composes the two refinements: what `Distribute` promises of `accrued`
(`LandSends`, `MarkBooks`) it keeps for what results are worth, which is never less,
and only a recorded result earns (`OnlyResultsEarn`), so that crediting the ledger is a
step nobody outside can see.

*Broker.* `TypeOK` is inductive only with `TickShape`, which says which phases
of a tick carry a job. `QueuedOnce` keeps the queue free of repetitions and of
jobs that were answered; with it `OneHolder` is inductive. Steps that can only
let go of a job are treated together (`LetsGo`). `CreditsFit` leaves room for
the credit of the report being handled, which makes `NeverOverCredited`
inductive; `RecordResult` needs `OneHolder`, since a result recorded twice for
one job would leave no room. `CreditsExact` says the same with equality where no
handler is interrupted.

For `GentleBrokersLoseNothing`, `NothingFails` lists the steps that are left where no
fault of the broker or its nodes occurs, and `GentleInv` says why they lose nothing: a
poll has a client that still waits for it, and every job accepted is answered, queued
or carried.

For `ImplementsLifecycle` the status of a job is read off where it is: answered,
queued, carried by a tick, or nowhere although known. `BrokerInv` makes these
places exclusive (`Places`), so each action of the broker moves at most the one
job it is about, and the steps in `LetsGo` drop some (`LettingGoDrops`).

*Service.* Consumers and settlement never change the broker's variables but by its
actions, so `ServiceSpec => Spec` and `BrokerInv` holds. `MemoShape` says that a
settlement belongs to a job at work and that a settled job never returns to the
queue, which with `OneHolder` leaves room for one memo; `MemosTold` says who knows of
a memo until the store does; `AskedFirst` that only its consumer submits a job;
`TickersAreUp` that only a running process polls or runs a model. `ConsumersCanTrust`
is about the books as they are, which a store in memory loses with its process:
`NextRemembered` says that whoever was promised something has been submitted, and where
`Gentle` holds, `GentleInv` of `BrokerProofs`, which carries over, finds the job queued,
held or answered.

*Rate limit.* `BucketShape` relates the counter of a bucket to what passed in it and
bounds what passed before it by one window; both bounds are sums over the
ticks of a window, which shift by one as time passes (`TotalShift`).

*Files.* `LiveNodeIsFindable` needs to know who may touch the pidfile:
`OneAtATime` (one command works, one node is up), `WriterHoldsFile` (the file a
start truncated is still the linked one, and torn, when it fills it),
`NamedByFile`, and `StopSeesTheNode` (a `stop` that probes has the id of the node
that is up, so none that is about to clear the file meets one).
`PidfileNamesANode` needs only that foreground nodes never write. `StopSignalsOnlyNodes`
follows ids instead: what the file or a `stop` holds was once given to a node
(`IsOfANode`), and without reuse no other program ever has it. For keystore
and configuration, `AskedWhenFound` and `DraftHasPatches` say that what a command
found is still true when it writes, and that what it writes has of every known key the
patch acknowledged last (`Supersedes`), which `WorkOneByOne` keeps. `SignerIsOnFile` and
`OnlyMadeIsUsed` do the same for the wallet that `start` reads twice.

Only model-checked: the liveness properties and `StopWorks` (fairness and ENABLED
are out of the prover's reach). What needs no fairness in them is proved where there is
such a part: a pass has fewer and fewer steps left and always one to take
(`PassesWindDown`, `PassesCanGoOn`, for `PassEnds`), an await past its deadline has two
at most (`AwaitsWindDown`, for `AwaitEnds`), and nothing puts off a reset
(`ResetsComeNearer`, for `RefusalEnds`). Every invariant the passing runs check, the
action property, the refinements and the compositions (`Service`, `Payday`) are proved;
for five of the six claims that runs refute, a theorem says when they do hold.

## 6. Not modelled, and assumptions

- Validation of request bodies beyond its effects, formatting, logs and the
  endpoints that only inform.
  `Broker` starts from requests that parse and from a node that reports each
  result once, as `reportResult` does; `/report` itself would credit a repeated
  report again.
- Crashes are process crashes: with `synchronous = NORMAL` a power failure may
  lose the last commits of the file.
- Pools that are natural numbers and windows of a positive number of ticks. A
  negative `--pool` leaves no plan with a positive amount; with a `--window` that is not a number
  a bucket is never replaced, and a key that used it up is refused until the coordinator
  restarts.
- `confirmTransaction` and `sendAndConfirmTransaction` return for a transaction
  that landed. (The former also returns for one that was executed with an error,
  which preflight simulation makes unlikely; the models let such a transaction
  land.)
- One pass of `distribute` at a time, except where a run says otherwise: the command
  does not look for another one.
- Fetches without a timeout of their own are answered or fail in the end, and
  `pollMs` is positive. A consumer runs one job.
- Distinct wallets per node, amounts within the range of exact numbers.
- Cryptography, terminal input, probing of runtimes (detector, doctor), the mock
  coordinator, Discord itself, the schema version guard of the store.

## 7. Plan

Done: settlement, broker with store, nodes, worker, consumers and memos, the ledger
between coordinator and command, rate limiter, and the node's files and commands;
every safety invariant, the refinements and the compositions are proved. What is left:

- the safety part of `NothingStuck` and `ConsumerServed`: a tick that carries a job goes
  towards its report;
- the schema version guard of the store, with a coordinator and a `distribute` of
  different releases on one file.

--------------------------- MODULE ServiceProofs ---------------------------
(***************************************************************************)
(* Theorems about Service for every set of jobs, nodes, ticks, settling    *)
(* nodes and key holders, and every environment.                           *)
(***************************************************************************)
EXTENDS Service, BrokerProofs

-----------------------------------------------------------------------------
(* Consumers and settlement move the broker by its own actions             *)

LEMMA StepsAreBrokerSteps == [ServiceNext]_service => [Next]_vars
<1> SUFFICES ASSUME ServiceNext
             PROVE  Next \/ UNCHANGED vars
  BY DEF service
<1> USE DEF vars
<1>0. UNCHANGED env
  BY DEF ServiceNext
<1>1. ASSUME NEW j \in Job, Ask(j) \/ ConsumerStep(j) \/ ConsumerFault(j) \/ DeadlinePasses(j)
      PROVE  Next \/ UNCHANGED vars
  <2>1. CASE Accept(j)
    BY <1>0, <2>1 DEF Accept, Next
  <2> QED
    BY <1>0, <1>1, <2>1 DEF Ask, ConsumerStep, Refuse, BeginAwait, Look, Wake,
       ConsumerFault, SubmitFails, LookFails, Cancel, DeadlinePasses
<1>2. ASSUME NEW t \in Tick, NodeStep(t)
      PROVE  Next \/ UNCHANGED vars
  <2>1. CASE PollGoesOn(t)
    BY <1>0, <2>1 DEF PollGoesOn, Next, TickStep
  <2>2. CASE SendMemo(t)
    BY <1>0, <2>2 DEF SendMemo
  <2>3. CASE RunJob(t) \/ RecordResult(t)
    BY <1>0, <2>3 DEF Next, TickStep
  <2> QED
    BY <1>2, <2>1, <2>2, <2>3 DEF NodeStep, ReportSettled, ReportUnsettled, RecordSettled
<1>3. ASSUME NEW t \in Tick, NodeFault(t)
      PROVE  Next \/ UNCHANGED vars
  BY <1>0, <1>3 DEF NodeFault, Next
<1>4. ASSUME NEW j \in Job, Finalize(j)
      PROVE  Next \/ UNCHANGED vars
  BY <1>0, <1>4 DEF Finalize
<1>5. ASSUME NEW t \in Tick, StartTick(t)
      PROVE  Next
  BY <1>0, <1>5 DEF Next, TickStep
<1>6. CASE (\E n \in Node : StopNode(n)) \/ RestartServer
  BY <1>0, <1>6 DEF Next
<1>7. ASSUME NEW n \in Node, RunsDry(n)
      PROVE  UNCHANGED vars
  BY <1>0, <1>7 DEF RunsDry
<1> QED
  BY <1>1, <1>2, <1>3, <1>4, <1>5, <1>6, <1>7
     DEF ServiceNext, Serve, NextTick, BootNode, EndNode

(* With its consumers and the chain, the broker is still the broker: all   *)
(* that is proved of it holds in the composed system.                      *)
THEOREM ServiceIsBroker == ServiceSpec => Spec
<1>1. ServiceInit => Init
  BY DEF ServiceInit
<1> QED
  BY <1>1, StepsAreBrokerSteps, PTL DEF ServiceSpec, Spec

LEMMA BrokerInvHere == ServiceSpec => []BrokerInv
BY ServiceIsBroker, BrokerInvariant, PTL

-----------------------------------------------------------------------------
(* What the steps of the broker do to a tick at work                       *)

AtWork(t) == client[t] \in {"running", "reporting"}

(* A step that neither queues a job nor is part of settlement.             *)
Plain ==
  \/ \E t \in Tick : StartTick(t)
  \/ \E t \in Tick : PollGoesOn(t)
  \/ \E t \in Tick : TickFault(t) /\ (stage[t] # "none" => ~RunJobFails(t))
  \/ \E n \in Node : StopNode(n)
  \/ RestartServer

(* The queue only shrinks, a tick at work goes on or loses its job, it     *)
(* starts with the job of its poll, and nobody else has a new one but off  *)
(* the queue.                                                              *)
WorkGoesOn ==
  /\ submitted' = submitted /\ Range(pending') \subseteq Range(pending)
  /\ \A t \in Tick :
       /\ job'[t] \in {job[t], NoJob} \cup Range(pending)
       /\ AtWork(t)' => job'[t] = job[t] /\ (AtWork(t) => client'[t] = client[t])
       /\ AtWork(t) /\ ~AtWork(t)' => job'[t] = NoJob
       /\ AtWork(t)' /\ ~AtWork(t) => client'[t] = "running"
  /\ crediting' \in {crediting, NoTick}

LEMMA PlainSteps == TypeOK /\ TickShape /\ Plain => WorkGoesOn
<1> SUFFICES ASSUME TypeOK, TickShape, Plain
             PROVE  WorkGoesOn
  OBVIOUS
<1> USE TickType DEF TypeOK, TickShape, WorkGoesOn, AtWork, store, ticks, past
<1>1. ASSUME NEW t \in Tick,
             \/ StartTick(t) \/ PollWaits(t) \/ PollFindsNothing(t) \/ ReplyArrives(t)
             \/ PollThrows(t) \/ PollLost(t) \/ AbortPoll(t)
      PROVE  WorkGoesOn
  BY <1>1 DEF StartTick, PollWaits, PollFindsNothing, ReplyArrives,
              PollThrows, PollLost, AbortPoll, GiveUp
<1>2. ASSUME NEW t \in Tick, PollTakes(t)
      PROVE  WorkGoesOn
  BY <1>2, LeaveQueue DEF PollTakes
<1>3. ASSUME NEW t \in Tick, PollLosesJob(t)
      PROVE  WorkGoesOn
  BY <1>3, LeaveQueue DEF PollLosesJob, GiveUp
<1>4. ASSUME NEW t \in Tick, ReplyDropped(t)
      PROVE  WorkGoesOn
  BY <1>4 DEF ReplyDropped, GiveUp
<1>5. ASSUME NEW t \in Tick, CreditEarnings(t)
      PROVE  WorkGoesOn
  BY <1>5 DEF CreditEarnings, EndTick
<1>6. ASSUME NEW t \in Tick, RunJobFails(t)
      PROVE  WorkGoesOn
  BY <1>6 DEF RunJobFails
<1>7. ASSUME NEW t \in Tick, ReportThrows(t) \/ ReportLost(t) \/ ReportRefused(t)
      PROVE  WorkGoesOn
  BY <1>7 DEF ReportThrows, ReportLost, ReportRefused, EndTick
<1>8. ASSUME NEW n \in Node, StopNode(n)
      PROVE  WorkGoesOn
  BY <1>8 DEF StopNode
<1>9. ASSUME RestartServer
      PROVE  WorkGoesOn
  <2>1. Range(pending') \subseteq Range(pending)
    BY <1>9 DEF RestartServer, Range
  <2> QED
    BY <1>9, <2>1 DEF RestartServer
<1> QED
  BY <1>1, <1>2, <1>3, <1>4, <1>5, <1>6, <1>7, <1>8, <1>9
     DEF Plain, PollGoesOn, TickFault

(* Results only go with a store in memory.                                 *)
LEMMA PlainKeepsResults ==
  Plain => results' = results \/ (~env.durable /\ CanFail({"crash"}))
<1> USE DEF store
<1>1. ASSUME NEW t \in Tick, StartTick(t) \/ PollGoesOn(t)
      PROVE  results' = results
  BY <1>1 DEF PollGoesOn, StartTick, PollTakes, PollWaits, PollFindsNothing, ReplyArrives,
              ReplyDropped, CreditEarnings, ReportRefused
<1>2. ASSUME NEW t \in Tick, TickFault(t)
      PROVE  results' = results
  BY <1>2 DEF TickFault, PollThrows, PollLosesJob, PollLost, AbortPoll, RunJobFails,
              ReportThrows, ReportLost
<1>3. ASSUME NEW n \in Node, StopNode(n)
      PROVE  results' = results
  BY <1>3 DEF StopNode
<1>4. CASE RestartServer
  BY <1>4 DEF RestartServer
<1> QED
  BY <1>1, <1>2, <1>3, <1>4 DEF Plain

-----------------------------------------------------------------------------
(* Type correctness of what Service adds                                   *)

(* The steps of a consumer that leave broker and settlement alone.         *)
Aside(j) ==
  \/ Ask(j) \/ Refuse(j) \/ SubmitFails(j) \/ BeginAwait(j) \/ Look(j) \/ LookFails(j)
  \/ Wake(j) \/ DeadlinePasses(j) \/ Cancel(j)

LEMMA AsideLeavesAlone ==
  ASSUME NEW j \in Job, Aside(j)
  PROVE  UNCHANGED <<state, memo>>
BY DEF Aside, Ask, Refuse, SubmitFails, BeginAwait, Look, LookFails, Wake, DeadlinePasses, Cancel

(* All that changes in a step in which nodes come, end or do nothing.      *)
Rest == UNCHANGED <<vars, consumers, memo>>

(* Every step of Service is one of these.                                  *)
LEMMA ServiceSteps ==
  ASSUME [ServiceNext]_service
  PROVE  /\ env' = env
         /\ \/ \E j \in Job : Aside(j) \/ Accept(j) \/ Finalize(j)
            \/ \E t \in Tick : \/ SendMemo(t) \/ ReportSettled(t) \/ ReportUnsettled(t)
                               \/ RecordSettled(t)
            \/ Plain /\ Beside
            \/ Rest
<1>0. env' = env
  BY DEF ServiceNext, service, vars
<1>1. CASE Serve
  BY <1>0, <1>1
     DEF Serve, ConsumerStep, ConsumerFault, Aside, NextTick, NodeStep, NodeFault, Plain
<1>2. CASE (\E t \in Tick : BootNode(t)) \/ (\E n \in Node : EndNode(n))
  BY <1>0, <1>2 DEF BootNode, EndNode, Plain
<1>3. CASE \E n \in Node : RunsDry(n)
  BY <1>0, <1>3 DEF RunsDry, Rest, vars
<1>4. CASE UNCHANGED service
  BY <1>0, <1>4 DEF service, Rest
<1> QED
  BY <1>1, <1>2, <1>3, <1>4 DEF ServiceNext

LEMMA NextUp == up \in SUBSET Node /\ [ServiceNext]_service => up' \in SUBSET Node
<1> SUFFICES ASSUME up \in SUBSET Node, [ServiceNext]_service
             PROVE  up' \in SUBSET Node
  OBVIOUS
<1>1. CASE \E t \in Tick : BootNode(t)
  BY <1>1, TickType DEF BootNode
<1>2. CASE \E n \in Node : RunsDry(n) \/ EndNode(n)
  BY <1>2 DEF RunsDry, EndNode
<1>3. CASE UNCHANGED up
  BY <1>3
<1> QED
  BY <1>1, <1>2, <1>3 DEF ServiceNext, service

LEMMA NextServiceTypeOK ==
  ServiceTypeOK /\ TypeOK' /\ TickShape /\ [ServiceNext]_service => ServiceTypeOK'
<1> SUFFICES ASSUME ServiceTypeOK, TypeOK', TickShape, [ServiceNext]_service
             PROVE  ServiceTypeOK'
  OBVIOUS
<1>u. up' \in SUBSET Node
  BY NextUp DEF ServiceTypeOK
<1> USE <1>u DEF ServiceTypeOK, memo, consumers
<1>1. ASSUME NEW j \in Job, Aside(j)
      PROVE  ServiceTypeOK'
  <2>1. UNCHANGED memo
    BY <1>1, AsideLeavesAlone
  <2>2. /\ asker' \in [Job -> {"idle", "submitting", "accepted"} \cup Waiting \cup Over]
        /\ urge' \in [Job -> SUBSET {"late", "aborted"}]
    BY <1>1 DEF Aside, Ask, Refuse, SubmitFails, BeginAwait, Look, LookFails, Wake,
                DeadlinePasses, Cancel, Becomes, Waiting, Over
  <2> QED
    BY <2>1, <2>2
<1>2. ASSUME NEW j \in Job, Accept(j)
      PROVE  ServiceTypeOK'
  BY <1>2 DEF Accept, Becomes
<1>3. ASSUME NEW j \in Job, Finalize(j)
      PROVE  ServiceTypeOK'
  BY <1>3 DEF Finalize
<1>4. ASSUME NEW t \in Tick, SendMemo(t)
      PROVE  ServiceTypeOK'
  <2>1. job[t] \in Job
    BY <1>4 DEF SendMemo, TypeOK, TickShape
  <2> QED
    BY <1>4, <2>1 DEF SendMemo
<1>5. ASSUME NEW t \in Tick, ReportSettled(t) \/ ReportUnsettled(t)
      PROVE  ServiceTypeOK'
  BY <1>5 DEF ReportSettled, ReportUnsettled
<1>6. ASSUME NEW t \in Tick, RecordSettled(t)
      PROVE  ServiceTypeOK'
  BY <1>6 DEF RecordSettled
<1>7. ASSUME Beside
      PROVE  ServiceTypeOK'
  BY <1>7 DEF Beside
<1>8. CASE Rest
  BY <1>8 DEF Rest
<1> QED
  BY <1>1, <1>2, <1>3, <1>4, <1>5, <1>6, <1>7, <1>8, ServiceSteps

-----------------------------------------------------------------------------
(* One memo per job                                                        *)

LEMMA NextMemoShape ==
  ServiceTypeOK /\ BrokerInv /\ MemoShape /\ [ServiceNext]_service => MemoShape'
<1> SUFFICES ASSUME ServiceTypeOK, BrokerInv, MemoShape, [ServiceNext]_service
             PROVE  MemoShape'
  OBVIOUS
<1>t. TypeOK /\ TickShape /\ OneHolder /\ QueuedOnce
  BY DEF BrokerInv
<1> USE <1>t DEF ServiceTypeOK, TypeOK, MemoShape, memo, consumers
<1>1. ASSUME NEW j \in Job, Aside(j)
      PROVE  MemoShape'
  BY <1>1, AsideLeavesAlone DEF state, past, store, ticks
<1>2. ASSUME NEW j \in Job, Accept(j)
      PROVE  MemoShape'
  <2>1. /\ j \notin Range(submitted)
        /\ Range(submitted') = Range(submitted) \cup {j}
        /\ Range(pending') = Range(pending) \cup {j}
        /\ UNCHANGED <<client, job, stage, memos, chain>>
    BY <1>2, JoinQueue DEF Accept, Submit, ticks
  <2> QED
    BY <2>1
<1>3. ASSUME NEW j \in Job, Finalize(j)
      PROVE  MemoShape'
  BY <1>3 DEF Finalize, state, past, store, ticks
<1>4. ASSUME NEW t \in Tick, SendMemo(t)
      PROVE  MemoShape'
  <2>0. client[t] = "running" /\ stage[t] = "none" /\ t[1] \in Settling
    BY <1>4 DEF SendMemo
  <2>1. job[t] \in Job /\ job[t] # NoJob
    BY <2>0, BrokerAssumption DEF TickShape
  <2>m. memos[job[t]] = 0
    <3>1. ~(memos[job[t]] > 0)
      BY <2>0, <2>1
    <3>2. memos[job[t]] \in Nat
      BY <2>1
    <3> QED
      BY <3>1, <3>2
  <2>2. \A s \in Tick : job[s] = job[t] => s = t
    BY <2>1 DEF OneHolder
  <2>3. job[t] \in Range(submitted) /\ job[t] \notin Range(pending)
    BY <2>1 DEF OneHolder, QueuedOnce
  <2> QED
    BY <1>4, <2>0, <2>1, <2>m, <2>2, <2>3 DEF SendMemo, state, past, store, ticks
<1>5. ASSUME NEW t \in Tick, ReportSettled(t) \/ ReportUnsettled(t)
      PROVE  MemoShape'
  <2>1. /\ client[t] = "running" /\ client' = [client EXCEPT ![t] = "reporting"]
        /\ UNCHANGED <<job, submitted, pending, memos, chain>>
    BY <1>5 DEF ReportSettled, ReportUnsettled, RunJob, past, store
  <2>2. CASE ReportSettled(t)
    <3>1. /\ stage[t] = "sent" /\ stage' = [stage EXCEPT ![t] = "confirmed"]
          /\ chain[job[t]] = "landed"
      BY <2>2 DEF ReportSettled
    <3> QED
      BY <2>1, <3>1
  <2>3. CASE ReportUnsettled(t)
    <3>1. stage' = [stage EXCEPT ![t] = "none"]
      BY <2>3 DEF ReportUnsettled
    <3> QED
      BY <2>1, <3>1
  <2> QED
    BY <1>5, <2>2, <2>3
<1>6. ASSUME NEW t \in Tick, RecordSettled(t)
      PROVE  MemoShape'
  BY <1>6 DEF RecordSettled, RecordResult, past, ticks
<1>7. ASSUME Plain, Beside
      PROVE  MemoShape'
  <2>1. WorkGoesOn
    BY <1>7, PlainSteps
  <2>2. \A t \in Tick : stage'[t] # "none" =>
          stage'[t] = stage[t] /\ job'[t] = job[t] /\ client'[t] = client[t] /\ AtWork(t)
    BY <1>7, <2>1 DEF Beside, WorkGoesOn, AtWork
  <2>3. \A j \in Job, t \in Tick : memos[j] > 0 /\ job'[t] = j =>
          job[t] = j /\ AtWork(t) /\ client'[t] = client[t] /\ stage'[t] = stage[t]
    BY <1>7, <2>1, BrokerAssumption DEF Beside, WorkGoesOn, AtWork
  <2> QED
    BY <1>7, <2>1, <2>2, <2>3 DEF Beside, WorkGoesOn, AtWork
<1>8. CASE Rest
  BY <1>8 DEF Rest, vars, state, past, store, ticks
<1> QED
  BY <1>1, <1>2, <1>3, <1>4, <1>5, <1>6, <1>7, <1>8, ServiceSteps

-----------------------------------------------------------------------------
(* Chain and store agree                                                   *)

(* The first two parts of MemosTold, which hold in every environment.      *)
SettledLanded ==
  /\ \A j \in Job : settled[j] => Answered(j) /\ chain[j] = "landed"
  /\ crediting # NoTick /\ stage[crediting] = "confirmed" => settled[job[crediting]]

LEMMA NextSettledLanded ==
  ASSUME ServiceTypeOK, BrokerInv, BrokerInv', MemoShape, SettledLanded,
         [ServiceNext]_service
  PROVE  SettledLanded'
<1>t. TypeOK /\ TypeOK' /\ TickShape /\ TickShape' /\ OneHolder
  BY DEF BrokerInv
<1> USE <1>t, TickType DEF ServiceTypeOK, TypeOK, SettledLanded, Answered, memo
<1>1. ASSUME NEW j \in Job, Aside(j)
      PROVE  SettledLanded'
  BY <1>1, AsideLeavesAlone DEF state, past, store, ticks
<1>2. ASSUME NEW j \in Job, Accept(j)
      PROVE  SettledLanded'
  BY <1>2 DEF Accept, Submit, ticks
<1>3. ASSUME NEW j \in Job, Finalize(j)
      PROVE  SettledLanded'
  BY <1>3 DEF Finalize, state, past, store, ticks
<1>4. ASSUME NEW t \in Tick, SendMemo(t)
      PROVE  SettledLanded'
  <2>1. job[t] \in Job /\ ~Answered(job[t])
    BY <1>4 DEF SendMemo, TickShape, OneHolder
  <2>2. crediting # t
    BY <1>4 DEF SendMemo, TickShape
  <2> QED
    BY <1>4, <2>1, <2>2 DEF SendMemo, state, past, store, ticks
<1>5. ASSUME NEW t \in Tick, ReportSettled(t) \/ ReportUnsettled(t)
      PROVE  SettledLanded'
  <2>1. client[t] = "running" /\ UNCHANGED <<job, results, crediting, chain, settled>>
    BY <1>5 DEF ReportSettled, ReportUnsettled, RunJob, past, store
  <2>2. crediting # t
    BY <2>1 DEF TickShape
  <2> QED
    BY <1>5, <2>1, <2>2 DEF ReportSettled, ReportUnsettled
<1>6. ASSUME NEW t \in Tick, RecordSettled(t)
      PROVE  SettledLanded'
  <2>1. /\ client[t] = "reporting" /\ job[t] \in Job
        /\ results' = [results EXCEPT ![job[t]] = t[1]]
        /\ settled' = [settled EXCEPT ![job[t]] = stage[t] = "confirmed"]
        /\ crediting' = t
        /\ UNCHANGED <<job, stage, chain>>
    BY <1>6 DEF RecordSettled, RecordResult, ticks, TickShape
  <2>2. stage[t] = "confirmed" => chain[job[t]] = "landed"
    BY DEF MemoShape
  <2>3. \A j \in Job : settled'[j] => results'[j] # NoNode /\ chain'[j] = "landed"
    BY <2>1, <2>2, BrokerAssumption
  <2> QED
    BY <2>1, <2>3
<1>7. ASSUME Plain, Beside
      PROVE  SettledLanded'
  <2>1. crediting' # NoTick =>
          crediting' = crediting /\ AtWork(crediting)' /\ job'[crediting] = job[crediting]
    BY <1>7, PlainSteps DEF WorkGoesOn, AtWork, TickShape
  <2>2. crediting' # NoTick => results'[job'[crediting']] # NoNode
    BY BrokerAssumption DEF TickShape
  <2>3. \A j \in Job : settled'[j] = (settled[j] /\ results'[j] # NoNode)
    BY <1>7 DEF Beside
  <2>4. /\ chain' = chain
        /\ \A t \in Tick : stage'[t] \in {stage[t], "none"}
    BY <1>7 DEF Beside
  <2>5. crediting # NoTick => job[crediting] \in Job
    BY DEF TickShape
  <2>6. \A j \in Job : settled'[j] => results'[j] # NoNode /\ chain'[j] = "landed"
    BY <2>3, <2>4
  <2>7. ASSUME crediting' # NoTick, stage'[crediting'] = "confirmed"
        PROVE  settled'[job'[crediting']]
    <3>1. /\ crediting' = crediting /\ crediting # NoTick /\ crediting \in Tick
          /\ job'[crediting'] = job[crediting]
      BY <2>1, <2>7
    <3>2. settled[job[crediting]]
      BY <2>4, <2>7, <3>1
    <3> QED
      BY <2>2, <2>3, <2>5, <2>7, <3>1, <3>2
  <2> QED
    BY <2>6, <2>7
<1>8. CASE Rest
  BY <1>8 DEF Rest, vars, state, past, store, ticks
<1> QED
  BY <1>1, <1>2, <1>3, <1>4, <1>5, <1>6, <1>7, <1>8, ServiceSteps

(* In a calm environment results stay, and a tick that settles a job keeps *)
(* it until its result has been recorded.                                  *)
CalmMove ==
  /\ results' = results
  /\ \A t \in Tick : stage[t] # "none" /\ crediting # t => AtWork(t)' /\ job'[t] = job[t]

LEMMA CalmSteps ==
  ASSUME TypeOK, TickShape, Calm, Plain, \A t \in Tick : stage[t] # "none" => AtWork(t)
  PROVE  CalmMove
<1> USE TickType DEF TypeOK, TickShape, Calm, CalmMove, CanFail, AtWork, store, ticks, past
<1>0. ASSUME NEW s \in Tick, StartTick(s)
      PROVE  CalmMove
  BY <1>0 DEF StartTick
<1>1. ASSUME NEW s \in Tick, PollGoesOn(s)
      PROVE  CalmMove
  <2>1. CASE CreditEarnings(s)
    BY <2>1 DEF CreditEarnings, EndTick
  <2>2. CASE ReplyDropped(s)
    BY <2>2 DEF ReplyDropped, GiveUp
  <2>3. CASE ReportRefused(s)
    BY <2>3 DEF ReportRefused
  <2> QED
    BY <1>1, <2>1, <2>2, <2>3
       DEF PollGoesOn, PollTakes, PollWaits, PollFindsNothing, ReplyArrives
<1>2. ASSUME NEW s \in Tick, TickFault(s), stage[s] # "none" => ~RunJobFails(s)
      PROVE  CalmMove
  <2>1. CASE PollThrows(s) \/ PollLost(s) \/ ReportThrows(s) \/ ReportLost(s)
    BY <2>1 DEF PollThrows, PollLost, ReportThrows, ReportLost
  <2>2. CASE RunJobFails(s)
    BY <1>2, <2>2 DEF RunJobFails
  <2>3. CASE PollLosesJob(s) \/ AbortPoll(s)
    BY <2>3 DEF PollLosesJob, AbortPoll, GiveUp
  <2> QED
    BY <1>2, <2>1, <2>2, <2>3 DEF TickFault
<1>3. ASSUME (\E n \in Node : StopNode(n)) \/ RestartServer
      PROVE  FALSE
  BY <1>3 DEF StopNode, RestartServer
<1> QED
  BY <1>0, <1>1, <1>2, <1>3 DEF Plain

(* The third part of MemosTold.                                            *)
Known(j) ==
  chain[j] \in {"pending", "landed"} =>
    settled[j] \/ \E t \in Tick : job[t] = j /\ stage[t] # "none"

LEMMA NextKnown ==
  ASSUME ServiceTypeOK, BrokerInv, MemoShape, SettledLanded, Calm,
         [ServiceNext]_service, NEW j \in Job, Known(j)
  PROVE  Known(j)'
<1>t. TypeOK /\ TickShape /\ OneHolder
  BY DEF BrokerInv
<1> USE <1>t, TickType DEF ServiceTypeOK, TypeOK, Known, memo
<1>1. ASSUME NEW i \in Job, Aside(i)
      PROVE  Known(j)'
  BY <1>1, AsideLeavesAlone DEF state, past, store, ticks
<1>2. ASSUME NEW i \in Job, Accept(i)
      PROVE  Known(j)'
  BY <1>2 DEF Accept, Submit, ticks
<1>3. ASSUME NEW i \in Job, Finalize(i)
      PROVE  Known(j)'
  BY <1>3 DEF Finalize, state, past, store, ticks
<1>4. ASSUME NEW t \in Tick, SendMemo(t)
      PROVE  Known(j)'
  <2>1. /\ stage[t] = "none" /\ stage' = [stage EXCEPT ![t] = "sent"]
        /\ chain' = [chain EXCEPT ![job[t]] = "pending"]
        /\ UNCHANGED <<job, settled>>
    BY <1>4 DEF SendMemo, state, ticks
  <2> QED
    BY <2>1
<1>5. ASSUME NEW t \in Tick, ReportSettled(t)
      PROVE  Known(j)'
  <2>1. /\ stage' = [stage EXCEPT ![t] = "confirmed"]
        /\ UNCHANGED <<job, chain, settled>>
    BY <1>5 DEF ReportSettled, RunJob
  <2> QED
    BY <2>1
<1>6. ASSUME NEW t \in Tick, ReportUnsettled(t)
      PROVE  Known(j)'
  <2>1. stage[t] = "none" \/ chain[job[t]] = "expired"
    BY <1>6 DEF ReportUnsettled, Calm, CanFail, MemoShape
  <2>2. /\ stage' = [stage EXCEPT ![t] = "none"]
        /\ UNCHANGED <<job, chain, settled>>
    BY <1>6 DEF ReportUnsettled, RunJob
  <2> QED
    BY <2>1, <2>2
<1>7. ASSUME NEW t \in Tick, RecordSettled(t)
      PROVE  Known(j)'
  <2>1. /\ client[t] = "reporting" /\ job[t] \in Job
        /\ settled' = [settled EXCEPT ![job[t]] = stage[t] = "confirmed"]
        /\ UNCHANGED <<job, stage, chain>>
    BY <1>7 DEF RecordSettled, RecordResult, ticks, TickShape
  <2>2. \/ \A i \in Job : settled[i] => settled'[i]
        \/ stage[t] # "confirmed" /\ settled[job[t]]
    BY <2>1
  <2>3. ~Answered(job[t])
    BY <1>7 DEF RecordSettled, RecordResult, ServerFree, OneHolder, TickShape
  <2> QED
    BY <2>1, <2>2, <2>3 DEF SettledLanded
<1>8. ASSUME Plain, Beside
      PROVE  Known(j)'
  <2>1. CalmMove
    BY <1>8, CalmSteps DEF MemoShape, AtWork
  <2>2. settled' = settled /\ chain' = chain
    BY <1>8, <2>1 DEF Beside, SettledLanded, Answered, CalmMove
  <2>3. \A t \in Tick : stage[t] # "none" /\ crediting # t =>
          stage'[t] = stage[t] /\ job'[t] = job[t]
    BY <1>8, <2>1 DEF Beside, AtWork, CalmMove
  <2>4. \A t \in Tick : crediting = t /\ stage[t] # "none" => settled[job[t]]
    BY DEF MemoShape, SettledLanded, TickShape
  <2>5. CASE settled[j] \/ chain[j] \notin {"pending", "landed"}
    BY <2>2, <2>5
  <2>6. ASSUME NEW t \in Tick, job[t] = j, stage[t] # "none"
        PROVE  settled'[j] \/ (job'[t] = j /\ stage'[t] # "none")
    BY <2>2, <2>3, <2>4, <2>6
  <2> QED
    BY <2>5, <2>6
<1>9. CASE Rest
  BY <1>9 DEF Rest, vars, state, ticks
<1> QED
  BY <1>1, <1>2, <1>3, <1>4, <1>5, <1>6, <1>7, <1>8, <1>9, ServiceSteps

LEMMA NextMemosTold ==
  ASSUME ServiceTypeOK, BrokerInv, BrokerInv', MemoShape, MemosTold, [ServiceNext]_service
  PROVE  MemosTold'
<1>1. SettledLanded'
  BY NextSettledLanded DEF MemosTold, SettledLanded
<1>2. env' = env
  BY ServiceSteps
<1>3. ASSUME Calm, NEW j \in Job
      PROVE  Known(j)'
  BY <1>3, NextKnown DEF MemosTold, SettledLanded, Known
<1> QED
  BY <1>1, <1>2, <1>3 DEF MemosTold, SettledLanded, Known, Calm

-----------------------------------------------------------------------------
(* Consumers                                                               *)

LEMMA NextAskedFirst ==
  ASSUME ServiceTypeOK, TickShape, AskedFirst, [ServiceNext]_service
  PROVE  AskedFirst'
<1> USE DEF ServiceTypeOK, TypeOK, AskedFirst, memo, consumers
<1>1. ASSUME NEW j \in Job, Aside(j)
      PROVE  AskedFirst'
  <2>1. submitted' = submitted
    BY <1>1, AsideLeavesAlone DEF state, past
  <2>2. \A i \in Job : asker'[i] \in {"idle", "submitting"} => asker[i] \in {"idle", "submitting"}
    BY <1>1 DEF Aside, Ask, Refuse, SubmitFails, BeginAwait, Look, LookFails, Wake,
                DeadlinePasses, Cancel, Becomes
  <2> QED
    BY <2>1, <2>2
<1>2. ASSUME NEW j \in Job, Accept(j)
      PROVE  AskedFirst'
  <2>1. Range(submitted') = Range(submitted) \cup {j}
    BY <1>2, JoinQueue DEF Accept, Submit
  <2>2. asker' = [asker EXCEPT ![j] = "accepted"]
    BY <1>2 DEF Accept, Becomes
  <2> QED
    BY <2>1, <2>2
<1>3. ASSUME NEW j \in Job, Finalize(j)
      PROVE  AskedFirst'
  BY <1>3 DEF Finalize, state, past
<1>4. ASSUME NEW t \in Tick,
             SendMemo(t) \/ ReportSettled(t) \/ ReportUnsettled(t) \/ RecordSettled(t)
      PROVE  AskedFirst'
  BY <1>4 DEF SendMemo, ReportSettled, ReportUnsettled, RecordSettled, RunJob, RecordResult,
              state, past
<1>5. ASSUME Plain, Beside
      PROVE  AskedFirst'
  BY <1>5, PlainSteps DEF Beside, WorkGoesOn
<1>6. CASE Rest
  BY <1>6 DEF Rest, vars, state, past
<1> QED
  BY <1>1, <1>2, <1>3, <1>4, <1>5, <1>6, ServiceSteps

-----------------------------------------------------------------------------
(* Who ticks is up                                                         *)

Ticking(t) == client[t] \in {"polling", "running"}

(* No step but the start of a tick sets one to work.                       *)
LEMMA PlainTicks ==
  ASSUME TypeOK, NEW s \in Tick, PollGoesOn(s) \/ TickFault(s), NEW t \in Tick, Ticking(t)'
  PROVE  Ticking(t)
<1> USE DEF TypeOK, Ticking, ticks
<1>1. CASE PollGoesOn(s)
  BY <1>1 DEF PollGoesOn, PollTakes, PollWaits, PollFindsNothing, ReplyArrives, ReplyDropped,
              GiveUp, CreditEarnings, ReportRefused, EndTick
<1>2. CASE TickFault(s)
  BY <1>2 DEF TickFault, PollThrows, PollLosesJob, PollLost, AbortPoll, GiveUp, RunJobFails,
              ReportThrows, ReportLost, EndTick
<1> QED
  BY <1>1, <1>2

LEMMA ServeTicks ==
  ASSUME TypeOK, Serve, NEW t \in Tick, Ticking(t)'
  PROVE  Ticking(t) \/ t[1] \in up
<1> USE DEF TypeOK, Ticking, ticks
<1>1. ASSUME NEW j \in Job,
             Ask(j) \/ ConsumerStep(j) \/ ConsumerFault(j) \/ DeadlinePasses(j) \/ Finalize(j)
      PROVE  Ticking(t)
  <2>1. client' = client
    BY <1>1, AsideLeavesAlone
       DEF ConsumerStep, ConsumerFault, Aside, Accept, Submit, Finalize, state
  <2> QED
    BY <2>1
<1>2. ASSUME NEW s \in Tick, NextTick(s)
      PROVE  Ticking(t) \/ t[1] \in up
  BY <1>2 DEF NextTick, StartTick
<1>3. ASSUME NEW s \in Tick, NodeStep(s)
      PROVE  Ticking(t)
  <2>1. CASE PollGoesOn(s)
    BY <2>1, PlainTicks
  <2>2. CASE SendMemo(s) \/ RecordSettled(s)
    BY <2>2 DEF SendMemo, RecordSettled, RecordResult, state
  <2>3. CASE RunJob(s)
    BY <2>3 DEF RunJob
  <2> QED
    BY <1>3, <2>1, <2>2, <2>3 DEF NodeStep, ReportSettled, ReportUnsettled
<1>4. ASSUME NEW s \in Tick, NodeFault(s)
      PROVE  Ticking(t)
  BY <1>4, PlainTicks DEF NodeFault
<1>5. CASE RestartServer
  BY <1>5 DEF RestartServer
<1> QED
  BY <1>1, <1>2, <1>3, <1>4, <1>5 DEF Serve

LEMMA NextTickersAreUp ==
  ASSUME TypeOK, TickersAreUp, [ServiceNext]_service
  PROVE  TickersAreUp'
<1> SUFFICES ASSUME NEW t \in Tick, Ticking(t)'
             PROVE  t[1] \in up'
  BY DEF TickersAreUp, Ticking
<1> USE DEF TypeOK
<1>i. Ticking(t) => t[1] \in up
  BY DEF TickersAreUp, Ticking
<1>1. CASE Serve /\ UNCHANGED up
  BY <1>1, <1>i, ServeTicks
<1>2. ASSUME NEW s \in Tick, BootNode(s)
      PROVE  t[1] \in up'
  <2>1. t = s \/ Ticking(t)
    BY <1>2 DEF BootNode, StartTick, Ticking
  <2> QED
    BY <1>2, <1>i, <2>1 DEF BootNode
<1>3. ASSUME NEW n \in Node, RunsDry(n)
      PROVE  t[1] \in up'
  <2>1. client' = client
    BY <1>3 DEF RunsDry, state, ticks
  <2>2. t[1] # n
    BY <1>3, <2>1 DEF RunsDry, Ticking, Tick
  <2> QED
    BY <1>3, <1>i, <2>1, <2>2 DEF RunsDry, Ticking
<1>4. ASSUME NEW n \in Node, EndNode(n)
      PROVE  t[1] \in up'
  <2>1. Ticking(t) /\ t[1] # n
    BY <1>4 DEF EndNode, StopNode, Ticking
  <2> QED
    BY <1>4, <1>i, <2>1 DEF EndNode
<1>5. CASE UNCHANGED service
  BY <1>5, <1>i DEF service, vars, state, ticks, Ticking
<1> QED
  BY <1>1, <1>2, <1>3, <1>4, <1>5 DEF ServiceNext

-----------------------------------------------------------------------------
LEMMA InitServiceInv == ServiceInit => ServiceInv
<1> SUFFICES ASSUME ServiceInit
             PROVE  ServiceInv
  OBVIOUS
<1>1. TypeOK
  BY InitTypes DEF ServiceInit
<1>2. ServiceTypeOK
  BY <1>1 DEF ServiceInit, ServiceTypeOK
<1>3. MemoShape /\ MemosTold
  BY BrokerAssumption DEF ServiceInit, Init, MemoShape, MemosTold
<1>4. AskedFirst
  BY DEF ServiceInit, Init, AskedFirst, Range
<1>5. TickersAreUp
  BY DEF ServiceInit, Init, TickersAreUp
<1> QED
  BY <1>2, <1>3, <1>4, <1>5 DEF ServiceInv

(* The inductive invariant of the composed system: types, what a memo      *)
(* under way says of its tick and its job, and where it is known.          *)
THEOREM ServiceInvariant == ServiceSpec => []ServiceInv
<1>1. ServiceInv /\ BrokerInv /\ BrokerInv' /\ [ServiceNext]_service => ServiceInv'
  BY NextServiceTypeOK, NextMemoShape, NextMemosTold, NextAskedFirst, NextTickersAreUp
     DEF ServiceInv, BrokerInv
<1> QED
  BY <1>1, InitServiceInv, BrokerInvHere, PTL DEF ServiceSpec

(* However many nodes settle, whatever fails and wherever they end, nobody *)
(* broadcasts a second memo for a job.                                     *)
THEOREM NobodySettlesTwice == ServiceSpec => []OneMemoPerJob
<1>1. ServiceInv => OneMemoPerJob
  <2> SUFFICES ASSUME ServiceInv, NEW j \in Job
               PROVE  memos[j] <= 1
    BY DEF OneMemoPerJob
  <2>1. memos[j] \in Nat /\ (memos[j] > 0 => memos[j] = 1)
    BY DEF ServiceInv, ServiceTypeOK, MemoShape
  <2> QED
    BY <2>1
<1> QED
  BY <1>1, ServiceInvariant, PTL

(* A result never names a transaction that did not land, and in a calm     *)
(* environment none that landed is missing from its result.                *)
THEOREM ChainAndStoreAgree == ServiceSpec => []MemosAgreeWithResults
<1>1. ServiceInv => MemosAgreeWithResults
  BY DEF ServiceInv, MemosTold, MemosAgreeWithResults, Carried
<1> QED
  BY <1>1, ServiceInvariant, PTL

-----------------------------------------------------------------------------
(* What consumers are told, in terms of what was ever submitted.           *)
Remembered ==
  \A j \in Job :
    /\ asker[j] \in Promised => j \in Range(submitted)
    /\ asker[j] = "answered" /\ (env.durable \/ ~CanFail({"crash"})) => Answered(j)
    /\ asker[j] = "refused" /\ ~CanFail({"lost", "crash"}) => j \notin Range(submitted)

LEMMA NextRemembered ==
  ASSUME ServiceInv, BrokerInv, Remembered, [ServiceNext]_service
  PROVE  Remembered'
<1>t. ServiceTypeOK /\ TypeOK /\ TickShape /\ AskedFirst
  BY DEF ServiceInv, BrokerInv
<1>e. env' = env
  BY ServiceSteps
<1> USE <1>t, <1>e DEF ServiceTypeOK, TypeOK, Remembered, Answered, CanFail,
                       Promised, Waiting, Over, consumers
<1>1. ASSUME NEW j \in Job, Aside(j)
      PROVE  Remembered'
  <2>1. submitted' = submitted /\ results' = results
    BY <1>1, AsideLeavesAlone DEF state, past, store
  <2>2. \A i \in Job \ {j} : asker'[i] = asker[i]
    BY <1>1 DEF Aside, Ask, Refuse, SubmitFails, BeginAwait, Look, LookFails, Wake,
                DeadlinePasses, Cancel, Becomes
  <2>3. \/ asker'[j] \in {asker[j], "submitting"}
        \/ /\ asker'[j] \in {"timedout", "failed", "aborted", "looking", "asleep"}
           /\ j \in Range(submitted)
        \/ asker'[j] = "answered" /\ j \in Range(submitted) /\ Answered(j)
        \/ asker'[j] = "refused" /\ j \notin Range(submitted)
        \/ asker'[j] = "refused" /\ CanFail({"lost", "crash"})
    BY <1>1 DEF Aside, Ask, Refuse, SubmitFails, BeginAwait, Look, LookFails, Wake,
                DeadlinePasses, Cancel, Becomes, AskedFirst
  <2> QED
    BY <2>1, <2>2, <2>3
<1>2. ASSUME NEW j \in Job, Accept(j)
      PROVE  Remembered'
  <2>1. Range(submitted') = Range(submitted) \cup {j}
    BY <1>2, JoinQueue DEF Accept, Submit
  <2>2. asker[j] = "submitting" /\ asker' = [asker EXCEPT ![j] = "accepted"]
    BY <1>2 DEF Accept, Becomes
  <2>3. results' = results
    BY <1>2 DEF Accept, Submit
  <2> QED
    BY <2>1, <2>2, <2>3
<1>3. ASSUME NEW j \in Job, Finalize(j)
      PROVE  Remembered'
  BY <1>3 DEF Finalize, state, past, store
<1>4. ASSUME NEW t \in Tick, SendMemo(t) \/ ReportSettled(t) \/ ReportUnsettled(t)
      PROVE  Remembered'
  BY <1>4 DEF SendMemo, ReportSettled, ReportUnsettled, RunJob, state, past, store
<1>5. ASSUME NEW t \in Tick, RecordSettled(t)
      PROVE  Remembered'
  <2>1. /\ results' = [results EXCEPT ![job[t]] = t[1]]
        /\ UNCHANGED <<submitted, asker>>
    BY <1>5 DEF RecordSettled, RecordResult, past
  <2> QED
    BY <2>1, TickType, BrokerAssumption
<1>6. ASSUME Plain, Beside
      PROVE  Remembered'
  <2>1. submitted' = submitted /\ asker' = asker
    BY <1>6, PlainSteps DEF Beside, WorkGoesOn
  <2>2. results' = results \/ (~env.durable /\ CanFail({"crash"}))
    BY <1>6, PlainKeepsResults
  <2> QED
    BY <2>1, <2>2
<1>7. CASE Rest
  BY <1>7 DEF Rest, vars, state, past, store
<1> QED
  BY <1>1, <1>2, <1>3, <1>4, <1>5, <1>6, <1>7, ServiceSteps

LEMMA GentleHere == ServiceSpec => []NothingLostWhenGentle
BY ServiceIsBroker, GentleBrokersLoseNothing, PTL

(* In the books of the coordinator: who waits where nothing loses jobs has *)
(* one that is queued, with a node or answered, who was answered can ask   *)
(* again, and who was refused has none, unless a reply can get lost.       *)
THEOREM ConsumersCanTrust == ServiceSpec => []ConsumersAreToldTheTruth
<1>1. ServiceInit => Remembered
  BY DEF ServiceInit, Remembered, Promised, Waiting, Over
<1>2. ASSUME Remembered, BrokerInv, NothingLostWhenGentle
      PROVE  ConsumersAreToldTheTruth
  <2> SUFFICES ASSUME NEW j \in Job
               PROVE
    /\ asker[j] \in Promised /\ Gentle => Status(j) \in {"queued", "held", "done"}
    /\ asker[j] = "answered" /\ (env.durable \/ ~CanFail({"crash"})) => Answered(j)
    /\ asker[j] = "refused" /\ ~CanFail({"lost", "crash"}) => Status(j) = "new"
    BY DEF ConsumersAreToldTheTruth
  <2>1. /\ Status(j) = IF Answered(j) THEN "done"
                       ELSE IF Queued(j) THEN "queued"
                       ELSE IF Carried(j) THEN "held"
                       ELSE IF IsKnown(j) THEN "lost" ELSE "new"
        /\ Answered(j) \/ Queued(j) \/ Carried(j) => IsKnown(j)
    BY <1>2, OnePlace DEF Places
  <2>2. Gentle => Status(j) # "lost"
    BY <1>2 DEF NothingLostWhenGentle
  <2>3. IsKnown(j) <=> j \in Range(submitted)
    BY DEF IsKnown
  <2> HIDE DEF Status, Answered, Queued, Carried, IsKnown, Gentle, CanFail
  <2> QED
    BY <1>2, <2>1, <2>2, <2>3 DEF Remembered
<1> QED
  BY <1>1, <1>2, NextRemembered, GentleHere, ServiceInvariant, BrokerInvHere, PTL
     DEF ServiceSpec

-----------------------------------------------------------------------------
(* Consumers do not wait in circles                                        *)

(* An outcome is final, a wait only ends in one, and past its deadline a   *)
(* consumer looks at most once more before it sleeps for the last time     *)
(* (client.ts 122-135).                                                    *)
WindsDown(j) ==
  /\ asker[j] \in Over => asker'[j] = asker[j]
  /\ asker[j] \in Waiting => asker'[j] \in Waiting \cup Over
  /\ asker[j] \in Waiting /\ "late" \in urge[j] =>
       \/ asker'[j] \in Over
       \/ "late" \in urge'[j] /\ asker'[j] \in {asker[j], "asleep"}

WaitsWindDown == [][\A j \in Job : WindsDown(j)]_service

LEMMA ConsumerWindsDown ==
  ASSUME ServiceTypeOK, NEW i \in Job, NEW j \in Job,
         Ask(i) \/ ConsumerStep(i) \/ ConsumerFault(i) \/ DeadlinePasses(i)
  PROVE  WindsDown(j)
<1> USE DEF ServiceTypeOK, WindsDown, Becomes, Waiting, Over
<1>1. CASE Ask(i) \/ Accept(i) \/ Refuse(i) \/ SubmitFails(i) \/ BeginAwait(i)
  BY <1>1 DEF Ask, Accept, Refuse, SubmitFails, BeginAwait
<1>2. CASE Look(i) \/ LookFails(i)
  BY <1>2 DEF Look, LookFails
<1>3. CASE Wake(i)
  BY <1>3 DEF Wake
<1>4. CASE DeadlinePasses(i) \/ Cancel(i)
  BY <1>4 DEF DeadlinePasses, Cancel
<1> QED
  BY <1>1, <1>2, <1>3, <1>4 DEF ConsumerStep, ConsumerFault

(* The part of AwaitEnds that needs no fairness: whatever happens to the   *)
(* coordinator, the nodes and the job, an await with a deadline that has   *)
(* passed has two steps left at most.                                      *)
THEOREM AwaitsWindDown == ServiceSpec => WaitsWindDown
<1>1. ASSUME ServiceTypeOK, ServiceNext, NEW j \in Job
      PROVE  WindsDown(j)
  <2>1. ASSUME NEW i \in Job,
               Ask(i) \/ ConsumerStep(i) \/ ConsumerFault(i) \/ DeadlinePasses(i)
        PROVE  WindsDown(j)
    BY <1>1, <2>1, ConsumerWindsDown
  <2>2. CASE UNCHANGED consumers
    BY <2>2 DEF consumers, WindsDown
  <2>3. CASE ~\E i \in Job :
                 Ask(i) \/ ConsumerStep(i) \/ ConsumerFault(i) \/ DeadlinePasses(i)
    <3>1. UNCHANGED consumers
      BY <1>1, <2>3 DEF ServiceNext, Serve, NextTick, NodeStep, NodeFault, Beside, SendMemo,
         ReportSettled, ReportUnsettled, RecordSettled, Finalize, BootNode, RunsDry, EndNode
    <3> QED
      BY <2>2, <3>1
  <2> QED
    BY <2>1, <2>3
<1>2. ServiceInv /\ [ServiceNext]_service => [\A j \in Job : WindsDown(j)]_service
  BY <1>1 DEF ServiceInv
<1> QED
  BY <1>2, ServiceInvariant, PTL DEF ServiceSpec, WaitsWindDown
=============================================================================

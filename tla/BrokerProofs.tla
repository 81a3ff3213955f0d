---------------------------- MODULE BrokerProofs ----------------------------
(***************************************************************************)
(* Theorems about Broker for every set of jobs, nodes and ticks, payout    *)
(* and environment: its invariants, what they say of jobs and credits, and *)
(* that it implements JobLifecycle.                                        *)
(***************************************************************************)
EXTENDS Broker, TallyProofs, SequenceTheorems

LEMMA WorthType == Worth \in [Job -> Nat]
<1>1. Pay \in [Job -> Int]
  BY BrokerAssumption DEF Pay
<1> QED
  BY <1>1 DEF Worth

LEMMA TickType == \A t \in Tick : t[1] \in Node /\ t # NoTick
BY BrokerAssumption DEF Tick

LEMMA EnvConstant == [Next]_vars => env' = env
BY DEF Next, vars

(* What a report under way is worth.                                       *)
LEMMA CreditType ==
  ASSUME NEW t \in Tick, job[t] \in Job
  PROVE  Credit(t) \in Nat /\ Credit(t) <= Worth[job[t]]
BY WorthType DEF Credit

-----------------------------------------------------------------------------
(* Type correctness and the shape of a tick                                *)

LEMMA InitTypes == Init => TypeOK /\ TickShape
BY TickType, EmptySeq DEF Init, TypeOK, TickShape

LEMMA NextTypeOK == TypeOK /\ TickShape /\ [Next]_vars => TypeOK'
<1> SUFFICES ASSUME TypeOK, TickShape, [Next]_vars
             PROVE  TypeOK'
  OBVIOUS
<1> USE EnvConstant DEF TypeOK, store, ticks, past
<1>1. ASSUME NEW j \in Job, Submit(j)
      PROVE  TypeOK'
  BY <1>1, AppendProperties DEF Submit
<1>2. ASSUME NEW t \in Tick, StartTick(t)
      PROVE  TypeOK'
  BY <1>2 DEF StartTick
<1>3. ASSUME NEW t \in Tick, PollTakes(t)
      PROVE  TypeOK'
  <2>1. Head(pending) \in Job /\ Tail(pending) \in Seq(Job)
    BY <1>3, HeadTailProperties DEF PollTakes
  <2> QED
    BY <1>3, <2>1, AppendProperties DEF PollTakes
<1>4. ASSUME NEW t \in Tick, PollWaits(t)
      PROVE  TypeOK'
  BY <1>4 DEF PollWaits
<1>5. ASSUME NEW t \in Tick, PollFindsNothing(t)
      PROVE  TypeOK'
  BY <1>5 DEF PollFindsNothing
<1>6. ASSUME NEW t \in Tick, ReplyArrives(t)
      PROVE  TypeOK'
  BY <1>6 DEF ReplyArrives
<1>7. ASSUME NEW t \in Tick, ReplyDropped(t)
      PROVE  TypeOK'
  BY <1>7 DEF ReplyDropped, GiveUp
<1>8. ASSUME NEW t \in Tick, RunJob(t)
      PROVE  TypeOK'
  BY <1>8 DEF RunJob
<1>9. ASSUME NEW t \in Tick, RecordResult(t)
      PROVE  TypeOK'
  BY <1>9, TickType DEF RecordResult
<1>10. ASSUME NEW t \in Tick, CreditEarnings(t)
       PROVE  TypeOK'
  <2>1. crediting # NoTick
    BY <1>10, TickType DEF CreditEarnings
  <2>2. job[t] \in Job
    BY <1>10, <2>1 DEF CreditEarnings, TickShape
  <2>3. Credit(t) \in Nat
    BY <2>2, CreditType
  <2>4. accrued' = IF t[1] \in Wallet THEN [accrued EXCEPT ![t[1]] = @ + Credit(t)]
                   ELSE accrued
    BY <1>10 DEF CreditEarnings, CreditReport, CreditRow
  <2>5. accrued' \in [Wallet -> Nat]
    BY <2>3, <2>4
  <2> QED
    BY <1>10, <2>5 DEF CreditEarnings, EndTick
<1>u. ASSUME NEW t \in Tick, PollLosesJob(t)
      PROVE  TypeOK'
  <2>1. Head(pending) \in Job /\ Tail(pending) \in Seq(Job)
    BY <1>u, HeadTailProperties DEF PollLosesJob
  <2> QED
    BY <1>u, <2>1, AppendProperties DEF PollLosesJob, GiveUp
<1>11. ASSUME NEW t \in Tick, PollThrows(t)
       PROVE  TypeOK'
  BY <1>11 DEF PollThrows, GiveUp
<1>12. ASSUME NEW t \in Tick, PollLost(t)
       PROVE  TypeOK'
  BY <1>12 DEF PollLost, GiveUp
<1>13. ASSUME NEW t \in Tick, AbortPoll(t)
       PROVE  TypeOK'
  BY <1>13 DEF AbortPoll
<1>14. ASSUME NEW t \in Tick, RunJobFails(t)
       PROVE  TypeOK'
  BY <1>14 DEF RunJobFails
<1>15. ASSUME NEW t \in Tick, ReportThrows(t)
       PROVE  TypeOK'
  BY <1>15 DEF ReportThrows, EndTick
<1>16. ASSUME NEW t \in Tick, ReportLost(t)
       PROVE  TypeOK'
  BY <1>16 DEF ReportLost, EndTick
<1>r. ASSUME NEW t \in Tick, ReportRefused(t)
       PROVE  TypeOK'
  BY <1>r DEF ReportRefused, EndTick
<1>17. ASSUME NEW n \in Node, StopNode(n)
       PROVE  TypeOK'
  BY <1>17 DEF StopNode
<1>18. ASSUME RestartServer
       PROVE  TypeOK'
  <2>0. UNCHANGED past /\ crediting' = NoTick
    BY <1>18 DEF RestartServer
  <2>1. /\ pending' \in Seq(Job)
        /\ results' \in [Job -> Node \cup {NoNode}]
        /\ accrued' \in [Wallet -> Nat]
    <3>1. CASE env.durable
      BY <1>18, <3>1 DEF RestartServer
    <3>2. CASE ~env.durable
      <4>1. /\ pending' = << >>
            /\ results' = [j \in Job |-> NoNode]
            /\ accrued' = [w \in Wallet |-> 0]
        BY <1>18, <3>2 DEF RestartServer
      <4> QED
        BY <4>1, EmptySeq
    <3> QED
      BY <3>1, <3>2
  <2>2. client' \in [Tick -> {"idle", "polling", "running", "reporting"}]
    BY <1>18 DEF RestartServer
  <2>3. poll' \in [Tick -> {"none", "sent", "waiting", "replied"}]
    BY <1>18 DEF RestartServer
  <2>4. job' \in [Tick -> Job \cup {NoJob}]
    BY <1>18 DEF RestartServer
  <2> QED
    BY <2>0, <2>1, <2>2, <2>3, <2>4
<1>19. CASE UNCHANGED vars
  BY <1>19 DEF vars, state
<1> QED
  BY <1>1, <1>2, <1>3, <1>4, <1>5, <1>6, <1>7, <1>8, <1>9, <1>10, <1>11, <1>12,
     <1>13, <1>14, <1>15, <1>16, <1>17, <1>18, <1>19, <1>r, <1>u
     DEF Next, TickStep, TickFault

LEMMA NextTickShape == TypeOK /\ TickShape /\ [Next]_vars => TickShape'
<1> SUFFICES ASSUME TypeOK, TickShape, [Next]_vars
             PROVE  TickShape'
  OBVIOUS
<1> USE TickType DEF TypeOK, TickShape, store, ticks, past
<1>1. ASSUME NEW j \in Job, Submit(j)
      PROVE  TickShape'
  BY <1>1 DEF Submit
<1>2. ASSUME NEW t \in Tick, StartTick(t)
      PROVE  TickShape'
  BY <1>2 DEF StartTick
<1>3. ASSUME NEW t \in Tick, PollTakes(t)
      PROVE  TickShape'
  BY <1>3 DEF PollTakes, ServerFree
<1>4. ASSUME NEW t \in Tick, PollWaits(t)
      PROVE  TickShape'
  BY <1>4 DEF PollWaits, ServerFree
<1>5. ASSUME NEW t \in Tick, PollFindsNothing(t)
      PROVE  TickShape'
  BY <1>5 DEF PollFindsNothing, ServerFree
<1>6. ASSUME NEW t \in Tick, ReplyArrives(t)
      PROVE  TickShape'
  BY <1>6 DEF ReplyArrives
<1>7. ASSUME NEW t \in Tick, ReplyDropped(t)
      PROVE  TickShape'
  BY <1>7 DEF ReplyDropped, GiveUp
<1>8. ASSUME NEW t \in Tick, RunJob(t)
      PROVE  TickShape'
  BY <1>8 DEF RunJob
<1>9. ASSUME NEW t \in Tick, RecordResult(t)
      PROVE  TickShape'
  <2>1. job[t] \in Job
    BY <1>9 DEF RecordResult
  <2> QED
    BY <1>9, <2>1 DEF RecordResult
<1>10. ASSUME NEW t \in Tick, CreditEarnings(t)
       PROVE  TickShape'
  BY <1>10 DEF CreditEarnings, EndTick
<1>u. ASSUME NEW t \in Tick, PollLosesJob(t)
      PROVE  TickShape'
  BY <1>u DEF PollLosesJob, ServerFree, GiveUp
<1>11. ASSUME NEW t \in Tick, PollThrows(t)
       PROVE  TickShape'
  BY <1>11 DEF PollThrows, GiveUp
<1>12. ASSUME NEW t \in Tick, PollLost(t)
       PROVE  TickShape'
  BY <1>12 DEF PollLost, GiveUp
<1>13. ASSUME NEW t \in Tick, AbortPoll(t)
       PROVE  TickShape'
  BY <1>13 DEF AbortPoll
<1>14. ASSUME NEW t \in Tick, RunJobFails(t)
       PROVE  TickShape'
  BY <1>14 DEF RunJobFails
<1>15. ASSUME NEW t \in Tick, ReportThrows(t)
       PROVE  TickShape'
  BY <1>15 DEF ReportThrows, EndTick
<1>16. ASSUME NEW t \in Tick, ReportLost(t)
       PROVE  TickShape'
  BY <1>16 DEF ReportLost, EndTick
<1>r. ASSUME NEW t \in Tick, ReportRefused(t)
       PROVE  TickShape'
  BY <1>r DEF ReportRefused, ServerFree, EndTick
<1>17. ASSUME NEW n \in Node, StopNode(n)
       PROVE  TickShape'
  BY <1>17 DEF StopNode
<1>18. ASSUME RestartServer
       PROVE  TickShape'
  BY <1>18 DEF RestartServer
<1>19. CASE UNCHANGED vars
  BY <1>19 DEF vars, state
<1> QED
  BY <1>1, <1>2, <1>3, <1>4, <1>5, <1>6, <1>7, <1>8, <1>9, <1>10, <1>11, <1>12,
     <1>13, <1>14, <1>15, <1>16, <1>17, <1>18, <1>19, <1>r, <1>u
     DEF Next, TickStep, TickFault

(* Every variable keeps its type.  What a report is worth is a natural     *)
(* number because a tick that reports carries a job.                       *)
THEOREM TypeCorrect == Spec => []TypeOK
<1>1. Init => TypeOK /\ TickShape
  BY InitTypes
<1>2. TypeOK /\ TickShape /\ [Next]_vars => (TypeOK /\ TickShape)'
  BY NextTypeOK, NextTickShape
<1> QED
  BY <1>1, <1>2, PTL DEF Spec

-----------------------------------------------------------------------------
(* One holder per job                                                      *)

(* Most steps only let go of jobs: the queue and the results stay, and a   *)
(* tick keeps its job or drops it.                                         *)
LetsGo ==
  /\ UNCHANGED <<submitted, pending, results>>
  /\ \A t \in Tick : job'[t] \in {job[t], NoJob}
  /\ \/ crediting' = crediting
     \/ crediting' = NoTick /\ (crediting # NoTick => job'[crediting] = NoJob)

(* All steps let go, except those that queue a job, take one, record a     *)
(* result, or empty a store in memory.                                     *)
LEMMA OtherStepsLetGo ==
  ASSUME TypeOK, TickShape, [Next]_vars,
         ~(\E j \in Job : Submit(j)),
         ~(\E t \in Tick : PollTakes(t) \/ PollLosesJob(t) \/ RecordResult(t)),
         ~RestartServer \/ env.durable
  PROVE  LetsGo
<1> USE TickType DEF TypeOK, TickShape, LetsGo, store, ticks, past
<1>1. ASSUME NEW t \in Tick,
             \/ StartTick(t) \/ PollWaits(t) \/ PollFindsNothing(t) \/ ReplyArrives(t)
             \/ RunJob(t) \/ PollThrows(t) \/ PollLost(t) \/ AbortPoll(t)
      PROVE  LetsGo
  BY <1>1 DEF StartTick, PollWaits, PollFindsNothing, ReplyArrives, RunJob,
              PollThrows, PollLost, AbortPoll
<1>2. ASSUME NEW t \in Tick, ReplyDropped(t)
      PROVE  LetsGo
  BY <1>2 DEF ReplyDropped
<1>3. ASSUME NEW t \in Tick, CreditEarnings(t)
      PROVE  LetsGo
  BY <1>3 DEF CreditEarnings, EndTick
<1>4. ASSUME NEW t \in Tick, RunJobFails(t)
      PROVE  LetsGo
  BY <1>4 DEF RunJobFails
<1>5. ASSUME NEW t \in Tick, ReportThrows(t)
      PROVE  LetsGo
  BY <1>5 DEF ReportThrows, EndTick
<1>6. ASSUME NEW t \in Tick, ReportLost(t)
      PROVE  LetsGo
  BY <1>6 DEF ReportLost, EndTick
<1>r. ASSUME NEW t \in Tick, ReportRefused(t)
      PROVE  LetsGo
  BY <1>r DEF ReportRefused, EndTick
<1>7. ASSUME NEW n \in Node, StopNode(n)
      PROVE  LetsGo
  BY <1>7 DEF StopNode
<1>8. ASSUME RestartServer
      PROVE  LetsGo
  BY <1>8 DEF RestartServer
<1>9. CASE UNCHANGED vars
  BY <1>9 DEF vars, state
<1> QED
  BY <1>1, <1>2, <1>3, <1>4, <1>5, <1>6, <1>7, <1>8, <1>9, <1>r
     DEF Next, TickStep, TickFault

(* What a queue holds after a job joins or leaves it.                      *)
LEMMA JoinQueue ==
  ASSUME NEW q \in Seq(Job), NEW j \in Job
  PROVE  /\ Range(Append(q, j)) = Range(q) \cup {j}
         /\ IsInjective(q) /\ j \notin Range(q) => IsInjective(Append(q, j))
<1>1. Len(q) \in Nat /\ DOMAIN q = 1 .. Len(q)
  BY LenProperties
<1>2. /\ Append(q, j) \in Seq(Job)
      /\ Len(Append(q, j)) = Len(q) + 1
      /\ \A i \in 1 .. Len(q) : Append(q, j)[i] = q[i]
      /\ Append(q, j)[Len(q) + 1] = j
  BY AppendProperties
<1>3. DOMAIN Append(q, j) = 1 .. (Len(q) + 1)
  BY <1>2, LenProperties
<1> DEFINE a == Append(q, j)
<1> HIDE DEF a
<1>4. Range(a) = Range(q) \cup {j}
  BY <1>1, <1>2, <1>3 DEF Range, a
<1>5. IsInjective(q) /\ j \notin Range(q) => IsInjective(a)
  BY <1>1, <1>2, <1>3 DEF IsInjective, Range, a
<1> QED
  BY <1>4, <1>5 DEF a

LEMMA LeaveQueue ==
  ASSUME NEW q \in Seq(Job), q # << >>
  PROVE  /\ Head(q) \in Range(q)
         /\ Range(Tail(q)) \subseteq Range(q)
         /\ IsInjective(q) => IsInjective(Tail(q)) /\ Head(q) \notin Range(Tail(q))
<1>1. Len(q) \in Nat \ {0} /\ DOMAIN q = 1 .. Len(q) /\ Head(q) = q[1]
  BY LenProperties, EmptySeq
<1> DEFINE r == Tail(q)
<1>2. /\ r \in Seq(Job)
      /\ Len(r) = Len(q) - 1
      /\ \A i \in 1 .. Len(r) : r[i] = q[i + 1]
  BY HeadTailProperties
<1>3. DOMAIN r = 1 .. (Len(q) - 1)
  BY <1>2, LenProperties
<1> HIDE DEF r
<1>4. Head(q) \in Range(q)
  BY <1>1 DEF Range
<1>5. Range(r) \subseteq Range(q)
  BY <1>1, <1>2, <1>3 DEF Range
<1>6. ASSUME IsInjective(q)
      PROVE  IsInjective(r)
  <2> SUFFICES ASSUME NEW a \in 1 .. (Len(q) - 1), NEW b \in 1 .. (Len(q) - 1),
                      r[a] = r[b]
               PROVE  a = b
    BY <1>3 DEF IsInjective
  <2>1. q[a + 1] = q[b + 1]
    BY <1>1, <1>2
  <2>2. a + 1 \in DOMAIN q /\ b + 1 \in DOMAIN q
    BY <1>1
  <2>3. a + 1 = b + 1
    BY <1>6, <2>1, <2>2 DEF IsInjective
  <2> QED
    BY <1>1, <2>3
<1>7. ASSUME IsInjective(q), Head(q) \in Range(r)
      PROVE  FALSE
  <2>1. PICK i \in 1 .. (Len(q) - 1) : r[i] = q[1]
    BY <1>1, <1>3, <1>7 DEF Range
  <2>2. q[i + 1] = q[1]
    BY <1>1, <1>2, <2>1
  <2>3. i + 1 \in DOMAIN q /\ 1 \in DOMAIN q /\ i + 1 # 1
    BY <1>1, <2>1
  <2> QED
    BY <1>7, <2>2, <2>3 DEF IsInjective
<1> QED
  BY <1>4, <1>5, <1>6, <1>7 DEF r

(* The part of BrokerInv about who has a job.                              *)
Holders == QueuedOnce /\ OneHolder

LEMMA InitHolders == Init => QueuedOnce /\ OneHolder
BY BrokerAssumption DEF Init, QueuedOnce, OneHolder, IsInjective, Range, Answered

LEMMA NextHolders ==
  TypeOK /\ TickShape /\ Holders /\ [Next]_vars => Holders'
<1> SUFFICES ASSUME TypeOK, TickShape, Holders, [Next]_vars
             PROVE  Holders'
  OBVIOUS
<1> USE BrokerAssumption, TickType
<1>1. ASSUME NEW j \in Job, Submit(j)
      PROVE  Holders'
  <2>1. j \notin Range(submitted) /\ j \notin Range(pending)
    BY <1>1 DEF Submit, Holders, QueuedOnce
  <2>2. /\ Range(submitted)' = Range(submitted) \cup {j}
        /\ Range(pending)' = Range(pending) \cup {j}
        /\ IsInjective(pending)'
    BY <1>1, <2>1, JoinQueue DEF Submit, Holders, QueuedOnce, TypeOK
  <2>3. UNCHANGED <<results, job, crediting>>
    BY <1>1 DEF Submit, ticks
  <2> QED
    BY <2>1, <2>2, <2>3 DEF Holders, QueuedOnce, OneHolder, Answered, TypeOK
<1>2. ASSUME NEW t \in Tick, PollTakes(t)
      PROVE  Holders'
  <2> DEFINE j == Head(pending)
  <2>1. /\ pending # << >>
        /\ job' = [job EXCEPT ![t] = j]
        /\ pending' = Tail(pending)
        /\ UNCHANGED <<submitted, results, crediting>>
    BY <1>2 DEF PollTakes
  <2>2. /\ j \in Range(pending)
        /\ Range(pending)' \subseteq Range(pending)
        /\ IsInjective(pending)'
        /\ j \notin Range(pending)'
    BY <2>1, LeaveQueue DEF Holders, QueuedOnce, TypeOK
  <2>3. j \in Job
    BY <2>1, HeadTailProperties DEF TypeOK
  <2> HIDE DEF j
  <2>4. QueuedOnce'
    BY <2>1, <2>2, <2>3 DEF Holders, QueuedOnce, Answered, TypeOK
  <2>5. OneHolder'
    BY <2>1, <2>2, <2>3 DEF Holders, QueuedOnce, OneHolder, Answered, TypeOK
  <2> QED
    BY <2>4, <2>5 DEF Holders
<1>u. ASSUME NEW t \in Tick, PollLosesJob(t)
      PROVE  Holders'
  <2>1. /\ pending # << >> /\ pending' = Tail(pending)
        /\ UNCHANGED <<submitted, results, job, crediting>>
    BY <1>u DEF PollLosesJob
  <2>2. Range(pending)' \subseteq Range(pending) /\ IsInjective(pending)'
    BY <2>1, LeaveQueue DEF Holders, QueuedOnce, TypeOK
  <2> QED
    BY <2>1, <2>2 DEF Holders, QueuedOnce, OneHolder, Answered, TypeOK
<1>3. ASSUME NEW t \in Tick, RecordResult(t)
      PROVE  Holders'
  <2>1. /\ results' = [results EXCEPT ![job[t]] = t[1]]
        /\ crediting = NoTick /\ crediting' = t
        /\ UNCHANGED <<submitted, pending, job>>
    BY <1>3 DEF RecordResult, ServerFree, past, ticks
  <2>2. job[t] \in Job /\ job[t] # NoJob
    BY <1>3 DEF RecordResult, TickShape, TypeOK
  <2>3. job[t] \in Range(submitted) /\ job[t] \notin Range(pending)
    BY <2>2 DEF Holders, QueuedOnce, OneHolder
  <2>4. \A j \in Job : Answered(j)' => Answered(j) \/ j = job[t]
    BY <2>1, <2>2 DEF Answered, TypeOK
  <2>5. QueuedOnce'
    BY <2>1, <2>3, <2>4 DEF Holders, QueuedOnce
  <2>6. OneHolder'
    BY <2>1, <2>2, <2>4 DEF Holders, OneHolder, TypeOK
  <2> QED
    BY <2>5, <2>6 DEF Holders
<1>4. CASE RestartServer /\ ~env.durable
  <2>1. /\ pending' = << >>
        /\ \A j \in Job : ~Answered(j)'
        /\ \A t \in Tick : job'[t] \in {job[t], NoJob}
        /\ UNCHANGED submitted
    BY <1>4 DEF RestartServer, Answered, past, TypeOK
  <2>2. IsInjective(pending)' /\ Range(pending)' = {}
    BY <2>1 DEF IsInjective, Range
  <2> QED
    BY <2>1, <2>2 DEF Holders, QueuedOnce, OneHolder, TypeOK
<1>5. CASE LetsGo
  BY <1>5 DEF LetsGo, Holders, QueuedOnce, OneHolder, Answered, TypeOK
<1> QED
  BY <1>1, <1>2, <1>u, <1>3, <1>4, <1>5, OtherStepsLetGo

-----------------------------------------------------------------------------
(* First in, first out                                                     *)

LEMMA InitFIFO == Init => FirstInFirstOut
BY ConcatEmptySeq, EmptySeq DEF Init, FirstInFirstOut

LEMMA NextFIFO == TypeOK /\ FirstInFirstOut /\ [Next]_vars => FirstInFirstOut'
<1> SUFFICES ASSUME TypeOK, FirstInFirstOut, [Next]_vars, env.durable
             PROVE  submitted' = handed' \o pending'
  BY EnvConstant DEF FirstInFirstOut
<1>0. submitted = handed \o pending
  BY DEF FirstInFirstOut
<1>1. ASSUME NEW j \in Job, Submit(j)
      PROVE  submitted' = handed' \o pending'
  <2>1. /\ submitted' = Append(submitted, j)
        /\ pending' = Append(pending, j)
        /\ handed' = handed
    BY <1>1 DEF Submit
  <2>2. <<j>> \in Seq(Job)
    OBVIOUS
  <2>3. (handed \o pending) \o <<j>> = handed \o (pending \o <<j>>)
    BY <2>2, ConcatAssociative DEF TypeOK
  <2> QED
    BY <1>0, <2>1, <2>3, AppendIsConcat DEF TypeOK
<1>2. ASSUME NEW t \in Tick, PollTakes(t) \/ PollLosesJob(t)
      PROVE  submitted' = handed' \o pending'
  <2> DEFINE h == Head(pending)
             r == Tail(pending)
  <2>1. /\ pending # << >>
        /\ handed' = Append(handed, h)
        /\ pending' = r
        /\ submitted' = submitted
    BY <1>2 DEF PollTakes, PollLosesJob
  <2>2. h \in Job /\ r \in Seq(Job) /\ pending = <<h>> \o r
    BY <2>1, HeadTailProperties DEF TypeOK
  <2> HIDE DEF h, r
  <2>3. <<h>> \in Seq(Job)
    BY <2>2
  <2>4. (handed \o <<h>>) \o r = handed \o (<<h>> \o r)
    BY <2>2, <2>3, ConcatAssociative DEF TypeOK
  <2> QED
    BY <1>0, <2>1, <2>2, <2>4, AppendIsConcat DEF TypeOK
<1>3. CASE /\ ~(\E j \in Job : Submit(j))
           /\ ~(\E t \in Tick : PollTakes(t) \/ PollLosesJob(t))
  <2>1. UNCHANGED <<submitted, handed, pending>>
    BY <1>3 DEF Next, TickStep, TickFault, vars, state, store, ticks, past,
         StartTick, PollWaits, PollFindsNothing, ReplyArrives, ReplyDropped, RunJob,
         RecordResult, CreditEarnings, PollThrows, PollLost, AbortPoll, RunJobFails,
         ReportThrows, ReportLost, ReportRefused, StopNode, RestartServer
  <2> QED
    BY <1>0, <2>1
<1> QED
  BY <1>1, <1>2, <1>3

(* On a durable store, for any number of nodes, overlapping ticks and      *)
(* restarts, what was submitted is what was handed out followed by what is *)
(* queued.                                                                 *)
THEOREM QueueIsFIFO == Spec => []FirstInFirstOut
<1>1. Init => TypeOK /\ TickShape /\ FirstInFirstOut
  BY InitTypes, InitFIFO
<1>2. TypeOK /\ TickShape /\ FirstInFirstOut /\ [Next]_vars
        => (TypeOK /\ TickShape /\ FirstInFirstOut)'
  BY NextTypeOK, NextTickShape, NextFIFO
<1> QED
  BY <1>1, <1>2, PTL DEF Spec

-----------------------------------------------------------------------------
(* Each job is paid at most once                                           *)

LEMMA EarnedType ==
  ASSUME NEW n
  PROVE  Earned(n) \in Nat /\ IsFiniteSet({ j \in Job : results[j] = n })
<1> DEFINE mine == { j \in Job : results[j] = n }
<1>1. IsFiniteSet(mine) /\ mine \subseteq Job
  BY BrokerAssumption, FS_Subset
<1>2. \A j \in mine : Worth[j] \in Nat
  BY <1>1, WorthType
<1> HIDE DEF mine
<1>3. Total(Worth, mine) \in Nat
  BY <1>1, <1>2, TotalNat
<1> QED
  BY <1>1, <1>3 DEF Earned, mine

(* A job recorded for the first time adds its worth to one node's pay.     *)
LEMMA EarnedGrows ==
  ASSUME TypeOK, NEW j \in Job, NEW n \in Node, results[j] = NoNode,
         results' = [results EXCEPT ![j] = n], NEW m \in Node
  PROVE  Earned(m)' = Earned(m) + (IF m = n THEN Worth[j] ELSE 0)
<1> DEFINE before == { i \in Job : results[i] = m }
           after  == { i \in Job : results'[i] = m }
<1>0. IsFiniteSet(before) /\ Earned(m) \in Nat
  BY EarnedType
<1>1. CASE m = n
  <2>1. after = before \cup {j} /\ j \notin before
    BY <1>1, BrokerAssumption DEF TypeOK
  <2>2. \A i \in before \cup {j} : Worth[i] \in Nat
    BY WorthType
  <2> HIDE DEF before, after
  <2>3. Total(Worth, before \cup {j}) = Total(Worth, before) + Worth[j]
    BY <1>0, <2>1, <2>2, TotalAdd
  <2>4. Earned(m) = Total(Worth, before)
    BY DEF Earned, before
  <2>5. Earned(m)' = Total(Worth, after)
    BY DEF Earned, after, Worth
  <2> QED
    BY <1>1, <2>1, <2>3, <2>4, <2>5
<1>2. CASE m # n
  <2>1. after = before
    BY <1>2, BrokerAssumption DEF TypeOK
  <2>2. Earned(m)' = Total(Worth, after)
    BY DEF Earned, Worth
  <2>3. Earned(m) = Total(Worth, before)
    BY DEF Earned
  <2> QED
    BY <1>0, <1>2, <2>1, <2>2, <2>3
<1> QED
  BY <1>1, <1>2

LEMMA EarnedSame ==
  ASSUME UNCHANGED results, NEW n
  PROVE  Earned(n)' = Earned(n)
BY DEF Earned, Worth

LEMMA UnderWayType ==
  ASSUME TypeOK, TickShape, NEW n
  PROVE  UnderWay(n) \in Nat
<1>1. CASE crediting # NoTick
  <2>1. job[crediting] \in Job
    BY <1>1 DEF TypeOK, TickShape
  <2> QED
    BY <1>1, <2>1, CreditType DEF UnderWay, TypeOK
<1>2. CASE crediting = NoTick
  BY <1>2 DEF UnderWay
<1> QED
  BY <1>1, <1>2

LEMMA InitCreditsFit == Init => CreditsFit
<1> SUFFICES ASSUME Init, NEW n \in Wallet
             PROVE  accrued[n] + UnderWay(n) <= Earned(n)
  BY DEF CreditsFit
<1>1. accrued[n] = 0 /\ UnderWay(n) = 0
  BY DEF Init, UnderWay
<1>2. Earned(n) \in Nat
  BY EarnedType
<1> QED
  BY <1>1, <1>2

(* Most steps leave the ledger and the report being handled alone.         *)
LEMMA OtherStepsDoNotCredit ==
  ASSUME TypeOK, TickShape, [Next]_vars, ~RestartServer,
         ~(\E t \in Tick : RecordResult(t) \/ CreditEarnings(t) \/ ReportThrows(t))
  PROVE  /\ UNCHANGED <<results, accrued, crediting>>
         /\ crediting # NoTick => job'[crediting] = job[crediting]
<1> DEFINE Harmless ==
      /\ UNCHANGED <<results, accrued, crediting>>
      /\ crediting # NoTick => job'[crediting] = job[crediting]
<1> SUFFICES Harmless
  OBVIOUS
<1> USE TickType DEF TypeOK, TickShape, store, ticks, past
<1>1. ASSUME NEW j \in Job, Submit(j)
      PROVE  Harmless
  BY <1>1 DEF Submit
<1>2. ASSUME NEW t \in Tick,
             \/ StartTick(t) \/ PollWaits(t) \/ PollFindsNothing(t) \/ ReplyArrives(t)
             \/ RunJob(t) \/ PollThrows(t) \/ PollLost(t) \/ AbortPoll(t)
      PROVE  Harmless
  BY <1>2 DEF StartTick, PollWaits, PollFindsNothing, ReplyArrives, RunJob,
              PollThrows, PollLost, AbortPoll
<1>3. ASSUME NEW t \in Tick, PollTakes(t) \/ PollLosesJob(t)
      PROVE  Harmless
  BY <1>3 DEF PollTakes, PollLosesJob, ServerFree
<1>4. ASSUME NEW t \in Tick, ReplyDropped(t)
      PROVE  Harmless
  <2>1. /\ poll[t] = "replied"
        /\ job' = [job EXCEPT ![t] = NoJob]
        /\ UNCHANGED <<results, accrued, crediting>>
    BY <1>4 DEF ReplyDropped
  <2> QED
    BY <2>1
<1>5. ASSUME NEW t \in Tick, RunJobFails(t)
      PROVE  Harmless
  BY <1>5 DEF RunJobFails
<1>6. ASSUME NEW t \in Tick, ReportLost(t)
      PROVE  Harmless
  BY <1>6 DEF ReportLost, EndTick
<1>7. ASSUME NEW t \in Tick, ReportRefused(t)
      PROVE  Harmless
  BY <1>7 DEF ReportRefused, ServerFree, EndTick
<1>8. ASSUME NEW n \in Node, StopNode(n)
      PROVE  Harmless
  BY <1>8 DEF StopNode
<1>9. CASE UNCHANGED vars
  BY <1>9 DEF vars, state
<1> HIDE DEF Harmless
<1> QED
  BY <1>1, <1>2, <1>3, <1>4, <1>5, <1>6, <1>7, <1>8, <1>9
     DEF Next, TickStep, TickFault

(* What a recorded result adds to the pay its node has earned and to the   *)
(* credit under way.                                                       *)
LEMMA RecordingMakesRoom ==
  ASSUME TypeOK, TickShape, OneHolder, NEW t \in Tick, RecordResult(t), NEW n \in Node
  PROVE  /\ Earned(n)' = Earned(n) + (IF n = t[1] THEN Worth[job[t]] ELSE 0)
         /\ UnderWay(n) = 0
         /\ UnderWay(n)' = IF n = t[1] THEN Credit(t) ELSE 0
         /\ accrued' = accrued
         /\ job[t] \in Job
<1>1. /\ results' = [results EXCEPT ![job[t]] = t[1]]
      /\ crediting = NoTick /\ crediting' = t
      /\ UNCHANGED <<accrued, job>>
  BY DEF RecordResult, ServerFree, past, ticks
<1>2. job[t] \in Job /\ job[t] # NoJob
  BY DEF RecordResult, TickShape, TypeOK
<1>3. results[job[t]] = NoNode
  BY <1>1, <1>2, TickType DEF OneHolder, Answered
<1>4. t[1] \in Node /\ t # NoTick
  BY TickType
<1>5. Earned(n)' = Earned(n) + (IF n = t[1] THEN Worth[job[t]] ELSE 0)
  BY <1>1, <1>2, <1>3, <1>4, EarnedGrows
<1>6. Credit(t)' = Credit(t)
  BY <1>1 DEF Credit, Worth, Pay
<1>7. UnderWay(n)' = IF n = t[1] THEN Credit(t) ELSE 0
  BY <1>1, <1>4, <1>6 DEF UnderWay, Credit, Worth, Pay
<1> QED
  BY <1>1, <1>2, <1>5, <1>7 DEF UnderWay

(* A credit moves from being under way to the ledger.                      *)
LEMMA CreditingKeepsSum ==
  ASSUME TypeOK, TickShape, NEW t \in Tick, CreditEarnings(t), NEW n \in Wallet
  PROVE  /\ accrued'[n] = accrued[n] + UnderWay(n)
         /\ UnderWay(n)' = 0
         /\ Earned(n)' = Earned(n)
<1>1. /\ crediting = t /\ crediting' = NoTick
      /\ accrued' = IF t[1] \in Wallet THEN [accrued EXCEPT ![t[1]] = @ + Credit(t)]
                    ELSE accrued
      /\ UNCHANGED results
  BY DEF CreditEarnings, CreditReport, CreditRow
<1>2. t # NoTick
  BY TickType
<1>3. UnderWay(n) = IF n = t[1] THEN Credit(t) ELSE 0
  BY <1>1, <1>2 DEF UnderWay
<1>4. accrued[n] \in Nat /\ UnderWay(n) \in Nat
  BY UnderWayType DEF TypeOK
<1> QED
  BY <1>1, <1>2, <1>3, <1>4, EarnedSame DEF UnderWay, TypeOK

(* A store in memory starts from nothing.                                  *)
LEMMA NothingAfterRestart ==
  ASSUME TypeOK, RestartServer, ~env.durable, NEW n \in Wallet
  PROVE  accrued'[n] = 0 /\ UnderWay(n)' = 0 /\ Earned(n)' = 0
<1>1. /\ results' = [j \in Job |-> NoNode]
      /\ accrued'[n] = 0 /\ UnderWay(n)' = 0
  BY DEF RestartServer, UnderWay
<1>2. { j \in Job : results'[j] = n } = {}
  BY <1>1, BrokerAssumption
<1>3. Earned(n)' = Total(Worth', { j \in Job : results'[j] = n })
  BY DEF Earned
<1> QED
  BY <1>1, <1>2, <1>3, TotalEmpty

LEMMA NextCreditsFit ==
  TypeOK /\ TickShape /\ OneHolder /\ CreditsFit /\ [Next]_vars => CreditsFit'
<1> SUFFICES ASSUME TypeOK, TickShape, OneHolder, CreditsFit, [Next]_vars,
                    NEW n \in Wallet
             PROVE  accrued'[n] + UnderWay(n)' <= Earned(n)'
  BY DEF CreditsFit
<1>0. /\ accrued[n] + UnderWay(n) <= Earned(n)
      /\ accrued[n] \in Nat /\ UnderWay(n) \in Nat /\ Earned(n) \in Nat
      /\ n \in Node
  BY UnderWayType, EarnedType, BrokerAssumption DEF CreditsFit, TypeOK
<1>1. ASSUME NEW t \in Tick, RecordResult(t)
      PROVE  accrued'[n] + UnderWay(n)' <= Earned(n)'
  <2>1. job[t] \in Job
    BY <1>0, <1>1, RecordingMakesRoom
  <2>2. Worth[job[t]] \in Nat /\ Credit(t) \in Nat /\ Credit(t) <= Worth[job[t]]
    BY <2>1, WorthType, CreditType
  <2> QED
    BY <1>0, <1>1, <2>2, RecordingMakesRoom
<1>2. ASSUME NEW t \in Tick, CreditEarnings(t)
      PROVE  accrued'[n] + UnderWay(n)' <= Earned(n)'
  BY <1>0, <1>2, CreditingKeepsSum
<1>3. ASSUME \/ \E t \in Tick : ReportThrows(t)
             \/ RestartServer /\ env.durable
      PROVE  accrued'[n] + UnderWay(n)' <= Earned(n)'
  <2>1. UNCHANGED <<results, accrued>> /\ crediting' = NoTick
    BY <1>3 DEF ReportThrows, RestartServer, store
  <2> QED
    BY <1>0, <2>1, EarnedSame DEF UnderWay
<1>4. CASE RestartServer /\ ~env.durable
  BY <1>4, NothingAfterRestart
<1>5. CASE /\ ~RestartServer
           /\ ~(\E t \in Tick : RecordResult(t) \/ CreditEarnings(t) \/ ReportThrows(t))
  <2>1. UNCHANGED accrued /\ Earned(n)' = Earned(n) /\ UnderWay(n)' = UnderWay(n)
    BY <1>5, OtherStepsDoNotCredit, EarnedSame DEF UnderWay, Credit, Worth, Pay
  <2> QED
    BY <1>0, <2>1
<1> QED
  BY <1>1, <1>2, <1>3, <1>4, <1>5

-----------------------------------------------------------------------------
(* Results and credits agree where nothing interrupts a report             *)

LEMMA InitCreditsExact == Init => CreditsExact
<1> SUFFICES ASSUME Init, NEW n \in Wallet
             PROVE  accrued[n] + UnderWay(n) = Earned(n)
  BY DEF CreditsExact
<1>1. accrued[n] = 0 /\ UnderWay(n) = 0
  BY BrokerAssumption DEF Init, UnderWay
<1>2. { j \in Job : results[j] = n } = {}
  BY BrokerAssumption DEF Init
<1> QED
  BY <1>1, <1>2, TotalEmpty DEF Earned

LEMMA NextCreditsExact ==
  TypeOK /\ TickShape /\ OneHolder /\ CreditsExact /\ [Next]_vars => CreditsExact'
<1> SUFFICES ASSUME TypeOK, TickShape, OneHolder, CreditsExact, [Next]_vars,
                    Uninterrupted', NEW n \in Wallet
             PROVE  accrued'[n] + UnderWay(n)' = Earned(n)'
  BY DEF CreditsExact
<1>a. Uninterrupted /\ n \in Node
  BY EnvConstant, BrokerAssumption DEF Uninterrupted, CanFail
<1>0. /\ accrued[n] + UnderWay(n) = Earned(n)
      /\ accrued[n] \in Nat /\ UnderWay(n) \in Nat /\ Earned(n) \in Nat
  BY <1>a, UnderWayType, EarnedType DEF CreditsExact, TypeOK
<1>1. ASSUME NEW t \in Tick, RecordResult(t)
      PROVE  accrued'[n] + UnderWay(n)' = Earned(n)'
  <2>1. job[t] \in Job
    BY <1>1, <1>a, RecordingMakesRoom
  <2>2. Worth[job[t]] \in Nat /\ (n = t[1] => Credit(t) = Worth[job[t]])
    BY <2>1, WorthType DEF Credit
  <2> QED
    BY <1>0, <1>1, <1>a, <2>2, RecordingMakesRoom
<1>2. ASSUME NEW t \in Tick, CreditEarnings(t)
      PROVE  accrued'[n] + UnderWay(n)' = Earned(n)'
  BY <1>0, <1>2, <1>a, CreditingKeepsSum
<1>3. CASE RestartServer
  <2>1. ~env.durable
    BY <1>3, <1>a DEF RestartServer, Uninterrupted
  <2> QED
    BY <1>3, <1>a, <2>1, NothingAfterRestart
<1>4. CASE /\ ~RestartServer
           /\ ~(\E t \in Tick : RecordResult(t) \/ CreditEarnings(t))
  <2>1. ~(\E t \in Tick : ReportThrows(t))
    BY <1>a DEF ReportThrows, Uninterrupted
  <2>2. UNCHANGED accrued /\ Earned(n)' = Earned(n) /\ UnderWay(n)' = UnderWay(n)
    BY <1>4, <2>1, OtherStepsDoNotCredit, EarnedSame DEF UnderWay, Credit, Worth, Pay
  <2> QED
    BY <1>0, <2>2
<1> QED
  BY <1>1, <1>2, <1>3, <1>4

-----------------------------------------------------------------------------
(* The inductive invariant behind OneHolder, NeverOverCredited and         *)
(* AccrualIsExact holds in every state, whatever times out, gets lost,     *)
(* throws or restarts.                                                     *)
THEOREM BrokerInvariant == Spec => []BrokerInv
<1>1. Init => BrokerInv
  BY InitTypes, InitHolders, InitCreditsFit, InitCreditsExact DEF BrokerInv
<1>2. BrokerInv /\ [Next]_vars => BrokerInv'
  BY NextTypeOK, NextTickShape, NextHolders, NextCreditsFit, NextCreditsExact
     DEF BrokerInv, Holders
<1> QED
  BY <1>1, <1>2, PTL DEF Spec

(* For any number of jobs, nodes and overlapping ticks, no job is ever in  *)
(* two hands, nor handed out after it was answered.                        *)
THEOREM NoJobInTwoHands == Spec => []OneHolder
<1>1. BrokerInv => OneHolder
  BY DEF BrokerInv
<1> QED
  BY <1>1, BrokerInvariant, PTL

(* The ledger never credits a node with more than the worth of the results *)
(* recorded for it.                                                        *)
THEOREM NobodyIsOverCredited == Spec => []NeverOverCredited
<1>1. BrokerInv => NeverOverCredited
  <2> SUFFICES ASSUME BrokerInv, NEW n \in Wallet
               PROVE  accrued[n] <= Earned(n)
    BY DEF NeverOverCredited
  <2>1. /\ accrued[n] + UnderWay(n) <= Earned(n)
        /\ accrued[n] \in Nat
    BY DEF BrokerInv, CreditsFit, TypeOK
  <2>2. UnderWay(n) \in Nat /\ Earned(n) \in Nat
    BY UnderWayType, EarnedType DEF BrokerInv
  <2> QED
    BY <2>1, <2>2
<1> QED
  BY <1>1, BrokerInvariant, PTL

(* Where no statement throws and the process does not end on a store that  *)
(* survives it, the ledger holds exactly the pay of the recorded results,  *)
(* for any number of jobs, nodes and overlapping reports.                  *)
THEOREM AccrualStaysExact == Spec => []AccrualIsExact
<1>1. BrokerInv => AccrualIsExact
  <2> SUFFICES ASSUME BrokerInv, Uninterrupted, ServerFree, NEW n \in Wallet
               PROVE  accrued[n] = Earned(n)
    BY DEF AccrualIsExact, AccrualIsAtomic
  <2>1. accrued[n] + UnderWay(n) = Earned(n) /\ UnderWay(n) = 0
    BY DEF BrokerInv, CreditsExact, ServerFree, UnderWay
  <2>2. accrued[n] \in Nat
    BY BrokerAssumption DEF BrokerInv, TypeOK
  <2> QED
    BY <2>1, <2>2
<1> QED
  BY <1>1, BrokerInvariant, PTL

-----------------------------------------------------------------------------
(* What the worker counts                                                  *)

(* Whatever fields a runtime's answer lacks, the counts of a result are    *)
(* natural numbers, as ResultSchema demands: no report is refused for them.*)
THEOREM TokensAreCounts ==
  ASSUME NEW prompt \in Nat,
         NEW answer \in OllamaAnswer(Nat) \cup LmStudioAnswer(Nat)
  PROVE  Tokens(prompt, answer) \in [tokensIn : Nat, tokensOut : Nat]
<1>1. \A n \in Nat : EstimateTokens(n) \in Nat
  <2> TAKE n \in Nat
  <2>1. \A m \in Nat : m \div 4 \in Nat
    OBVIOUS
  <2> QED
    BY <2>1 DEF EstimateTokens
<1>2. CASE answer \in OllamaAnswer(Nat)
  BY <1>1, <1>2, WorkerAssumption DEF OllamaAnswer, Tokens, RunJobOllama, Or
<1>3. CASE answer \in LmStudioAnswer(Nat)
  <2> DEFINE output == Or(answer.content, Or(answer.text, 0))
  <2>1. output \in Nat
    BY <1>3, WorkerAssumption DEF LmStudioAnswer, Or
  <2>2. EstimateTokens(output) \in Nat /\ EstimateTokens(prompt) \in Nat
    BY <1>1, <2>1
  <2>3. /\ answer.runtime = "lm-studio"
        /\ answer.prompt_tokens \in Nat \cup {Absent}
        /\ answer.completion_tokens \in Nat \cup {Absent}
    BY <1>3 DEF LmStudioAnswer
  <2>4. Tokens(prompt, answer) =
          [ tokensIn  |-> Or(answer.prompt_tokens, EstimateTokens(prompt)),
            tokensOut |-> Or(answer.completion_tokens, EstimateTokens(output)) ]
    BY <2>3 DEF Tokens, RunJobLmStudio
  <2> HIDE DEF output
  <2> QED
    BY <2>2, <2>3, <2>4, WorkerAssumption DEF Or
<1> QED
  BY <1>2, <1>3

-----------------------------------------------------------------------------
(* Broker implements JobLifecycle: each step of the broker moves jobs      *)
(* along their life cycle or leaves them where they are.                   *)

Queued(j) == j \in Range(pending)
IsKnown(j)  == j \in Range(submitted)

(* Where a job is decides its status, and only one place is possible.      *)
Places ==
  \A j \in Job :
    /\ Status(j) = IF Answered(j) THEN "done"
                   ELSE IF Queued(j) THEN "queued"
                   ELSE IF Carried(j) THEN "held"
                   ELSE IF IsKnown(j) THEN "lost" ELSE "new"
    /\ Answered(j) \/ Queued(j) \/ Carried(j) => IsKnown(j)
    /\ ~(Answered(j) /\ Queued(j))
    /\ ~(Queued(j) /\ Carried(j))
    /\ \A t \in Tick : Answered(j) /\ job[t] = j => crediting = t

LEMMA OnePlace == BrokerInv => Places
<1> SUFFICES ASSUME BrokerInv, NEW j \in Job
             PROVE
    /\ Status(j) = IF Answered(j) THEN "done"
                   ELSE IF Queued(j) THEN "queued"
                   ELSE IF Carried(j) THEN "held"
                   ELSE IF IsKnown(j) THEN "lost" ELSE "new"
    /\ Answered(j) \/ Queued(j) \/ Carried(j) => IsKnown(j)
    /\ ~(Answered(j) /\ Queued(j))
    /\ ~(Queued(j) /\ Carried(j))
    /\ \A t \in Tick : Answered(j) /\ job[t] = j => crediting = t
  BY DEF Places
<1>1. /\ Answered(j) \/ Queued(j) \/ Carried(j) => IsKnown(j)
      /\ ~(Answered(j) /\ Queued(j))
  BY BrokerAssumption DEF BrokerInv, QueuedOnce, Queued, IsKnown, Carried
<1>2. /\ ~(Queued(j) /\ Carried(j))
      /\ \A t \in Tick : Answered(j) /\ job[t] = j => crediting = t
  BY BrokerAssumption DEF BrokerInv, OneHolder, Queued, Carried
<1> HIDE DEF Answered, Carried
<1>3. Status(j) = IF Answered(j) THEN "done"
                  ELSE IF Queued(j) THEN "queued"
                  ELSE IF Carried(j) THEN "held"
                  ELSE IF IsKnown(j) THEN "lost" ELSE "new"
  BY <1>1, <1>2 DEF Status, Queued, IsKnown
<1> QED
  BY <1>1, <1>2, <1>3

-----------------------------------------------------------------------------
(* Steps                                                                   *)

(* The status of every job, as the life cycle sees it.                     *)
St == [j \in Job |-> Status(j)]

(* A job that is let go of is dropped.                                     *)
LEMMA LettingGoDrops ==
  ASSUME Places, Places', LetsGo
  PROVE  Lifecycle!Drop
<1> DEFINE S == { j \in Job : St[j] = "held" /\ Status(j)' = "lost" }
<1>1. \A j \in Job : /\ Answered(j)' = Answered(j)
                     /\ Queued(j)' = Queued(j)
                     /\ IsKnown(j)' = IsKnown(j)
  BY DEF LetsGo, Answered, Queued, IsKnown
<1>2. \A j \in Job : Carried(j)' => Carried(j)
  BY BrokerAssumption DEF LetsGo, Carried
<1>3. \A j \in Job : Status(j)' = IF j \in S THEN "lost" ELSE Status(j)
  <2> TAKE j \in Job
  <2> HIDE DEF Status, Answered, Queued, IsKnown, Carried
  <2> QED
    BY <1>1, <1>2 DEF Places, St
<1>4. S \in SUBSET { j \in Job : St[j] = "held" }
  OBVIOUS
<1>5. [j \in Job |-> Status(j)]' = [j \in Job |-> IF j \in S THEN "lost" ELSE St[j]]
  BY <1>3 DEF St
<1> HIDE DEF S
<1> QED
  BY <1>4, <1>5 DEF Lifecycle!Drop, Lifecycle!Move, St

(* One job changes its place, and with it its status.                      *)
LEMMA OneMoves ==
  ASSUME Places, Places', NEW j \in Job,
         \A i \in Job \ {j} : /\ Answered(i)' = Answered(i) /\ Queued(i)' = Queued(i)
                              /\ Carried(i)' = Carried(i) /\ IsKnown(i)' = IsKnown(i)
  PROVE  [i \in Job |-> Status(i)]' = [St EXCEPT ![j] = Status(j)']
<1>1. \A i \in Job \ {j} : Status(i)' = Status(i)
  <2> TAKE i \in Job \ {j}
  <2> HIDE DEF Status, Answered, Queued, IsKnown, Carried
  <2> QED
    BY DEF Places
<1> QED
  BY <1>1 DEF St

LEMMA SubmitQueues ==
  ASSUME BrokerInv, Places, Places', NEW j \in Job, Submit(j)
  PROVE  Lifecycle!Submit
<1>1. /\ Range(pending') = Range(pending) \cup {j}
      /\ Range(submitted') = Range(submitted) \cup {j}
      /\ UNCHANGED <<results, job>>
      /\ ~IsKnown(j)
  BY JoinQueue DEF Submit, BrokerInv, TypeOK, ticks, IsKnown
<1>2. \A i \in Job \ {j} :
        /\ Answered(i)' = Answered(i) /\ Queued(i)' = Queued(i)
        /\ Carried(i)' = Carried(i) /\ IsKnown(i)' = IsKnown(i)
  BY <1>1 DEF Answered, Queued, Carried, IsKnown
<1>3. Queued(j)' /\ Answered(j)' = Answered(j)
  BY <1>1 DEF Queued, Answered
<1>4. Status(j) = "new" /\ Status(j)' = "queued"
  <2> HIDE DEF Status, Answered, Queued, IsKnown, Carried
  <2> QED
    BY <1>1, <1>3 DEF Places
<1>5. [i \in Job |-> Status(i)]' = [St EXCEPT ![j] = "queued"]
  BY <1>2, <1>4, OneMoves
<1> QED
  BY <1>4, <1>5 DEF Lifecycle!Submit, Lifecycle!MoveOne, St

(* What taking the first job off the queue does to its place.              *)
LEMMA FirstLeaves ==
  ASSUME BrokerInv, pending # << >>, pending' = Tail(pending),
         NEW j, j = Head(pending)
  PROVE  /\ j \in Job
         /\ Queued(j) /\ ~Queued(j)'
         /\ \A i \in Job \ {j} : Queued(i)' = Queued(i)
<1>1. pending \in Seq(Job) /\ IsInjective(pending)
  BY DEF BrokerInv, TypeOK, QueuedOnce
<1>2. /\ Head(pending) \in Range(pending)
      /\ Range(Tail(pending)) \subseteq Range(pending)
      /\ Head(pending) \notin Range(Tail(pending))
  BY <1>1, LeaveQueue
<1>3. Head(pending) \in Job
  BY <1>1, HeadTailProperties
<1>4. Range(pending) \subseteq Range(Tail(pending)) \cup {Head(pending)}
  <2>1. /\ Len(pending) \in Nat \ {0} /\ DOMAIN pending = 1 .. Len(pending)
        /\ Head(pending) = pending[1]
    BY <1>1, LenProperties, EmptySeq
  <2> DEFINE r == Tail(pending)
  <2>2. /\ r \in Seq(Job)
        /\ Len(r) = Len(pending) - 1
        /\ \A i \in 1 .. Len(r) : r[i] = pending[i + 1]
    BY <1>1, HeadTailProperties
  <2>3. DOMAIN r = 1 .. (Len(pending) - 1)
    BY <2>2, LenProperties
  <2> HIDE DEF r
  <2>4. ASSUME NEW i \in 1 .. Len(pending), i # 1
        PROVE  pending[i] \in Range(r)
    <3>1. i - 1 \in 1 .. Len(r) /\ r[i - 1] = pending[i]
      BY <2>1, <2>2, <2>4
    <3> QED
      BY <2>1, <2>2, <2>3, <3>1 DEF Range
  <2>5. Range(pending) \subseteq Range(r) \cup {Head(pending)}
    BY <2>1, <2>4 DEF Range
  <2> QED
    BY <2>5 DEF r
<1> QED
  BY <1>2, <1>3, <1>4 DEF Queued

LEMMA TakingHandsOut ==
  ASSUME BrokerInv, Places, Places', NEW t \in Tick, PollTakes(t)
  PROVE  Lifecycle!HandOut
<1>0. PICK j : j = Head(pending)
  OBVIOUS
<1>1. /\ j \in Job /\ Queued(j) /\ ~Queued(j)'
      /\ \A i \in Job \ {j} : Queued(i)' = Queued(i)
  BY <1>0, FirstLeaves DEF PollTakes
<1>2. /\ job[t] = NoJob
      /\ job' = [job EXCEPT ![t] = j]
      /\ job \in [Tick -> Job \cup {NoJob}]
      /\ UNCHANGED <<submitted, results>>
  BY <1>0 DEF PollTakes, BrokerInv, TypeOK, TickShape
<1>3. \A i \in Job \ {j} :
        /\ Answered(i)' = Answered(i) /\ Queued(i)' = Queued(i)
        /\ Carried(i)' = Carried(i) /\ IsKnown(i)' = IsKnown(i)
  BY <1>1, <1>2, BrokerAssumption DEF Answered, Carried, IsKnown
<1>4. Carried(j)' /\ Answered(j)' = Answered(j)
  BY <1>2 DEF Carried, Answered
<1>5. Status(j) = "queued" /\ Status(j)' = "held"
  <2> HIDE DEF Status, Answered, Queued, IsKnown, Carried
  <2> QED
    BY <1>1, <1>4 DEF Places
<1>6. [i \in Job |-> Status(i)]' = [St EXCEPT ![j] = "held"]
  BY <1>1, <1>3, <1>5, OneMoves
<1> QED
  BY <1>1, <1>5, <1>6 DEF Lifecycle!HandOut, Lifecycle!MoveOne, St

LEMMA LosingSpoils ==
  ASSUME BrokerInv, Places, Places', NEW t \in Tick, PollLosesJob(t)
  PROVE  Lifecycle!Spoil
<1>0. PICK j : j = Head(pending)
  OBVIOUS
<1>1. /\ j \in Job /\ Queued(j) /\ ~Queued(j)'
      /\ \A i \in Job \ {j} : Queued(i)' = Queued(i)
  BY <1>0, FirstLeaves DEF PollLosesJob
<1>2. UNCHANGED <<submitted, results, job>>
  BY DEF PollLosesJob
<1>3. \A i \in Job :
        /\ Answered(i)' = Answered(i) /\ Carried(i)' = Carried(i)
        /\ IsKnown(i)' = IsKnown(i)
  BY <1>2 DEF Answered, Carried, IsKnown
<1>4. Status(j) = "queued" /\ Status(j)' = "lost"
  <2> HIDE DEF Status, Answered, Queued, IsKnown, Carried
  <2> QED
    BY <1>1, <1>3 DEF Places
<1>5. [i \in Job |-> Status(i)]' = [St EXCEPT ![j] = "lost"]
  BY <1>1, <1>3, <1>4, OneMoves
<1> QED
  BY <1>1, <1>4, <1>5 DEF Lifecycle!Spoil, Lifecycle!MoveOne, St

LEMMA RecordingAnswers ==
  ASSUME BrokerInv, Places, Places', NEW t \in Tick, RecordResult(t)
  PROVE  Lifecycle!Finish
<1>0. PICK j : j = job[t]
  OBVIOUS
<1>1. /\ j \in Job /\ crediting = NoTick
      /\ t[1] \in Node /\ t # NoTick
      /\ results \in [Job -> Node \cup {NoNode}]
      /\ results' = [results EXCEPT ![j] = t[1]]
      /\ UNCHANGED <<submitted, pending, job>>
  BY <1>0, TickType DEF RecordResult, ServerFree, BrokerInv, TypeOK, TickShape, past, ticks
<1>2. Carried(j)
  BY <1>0 DEF Carried
<1>3. \A i \in Job \ {j} :
        /\ Answered(i)' = Answered(i) /\ Queued(i)' = Queued(i)
        /\ Carried(i)' = Carried(i) /\ IsKnown(i)' = IsKnown(i)
  BY <1>1 DEF Answered, Queued, Carried, IsKnown
<1>4. ~Answered(j) /\ Answered(j)'
  <2>1. ~Answered(j)
    BY <1>0, <1>1, TickType DEF Places
  <2> QED
    BY <1>1, <2>1, BrokerAssumption DEF Answered
<1>5. Status(j) = "held" /\ Status(j)' = "done"
  <2> HIDE DEF Status, Answered, Queued, IsKnown, Carried
  <2> QED
    BY <1>1, <1>2, <1>4 DEF Places
<1>6. [i \in Job |-> Status(i)]' = [St EXCEPT ![j] = "done"]
  BY <1>1, <1>3, <1>5, OneMoves
<1> QED
  BY <1>1, <1>5, <1>6 DEF Lifecycle!Finish, Lifecycle!MoveOne, St

LEMMA RestartingForgets ==
  ASSUME BrokerInv, Places, Places', RestartServer, ~env.durable
  PROVE  Lifecycle!Forget
<1>1. /\ pending' = << >>
      /\ results' = [j \in Job |-> NoNode]
      /\ job' = [t \in Tick |-> IF t = crediting THEN NoJob ELSE job[t]]
      /\ UNCHANGED submitted
  BY DEF RestartServer, past
<1>2. ASSUME NEW j \in Job
      PROVE  /\ ~Answered(j)' /\ ~Queued(j)' /\ IsKnown(j)' = IsKnown(j)
             /\ Carried(j)' => Carried(j)
             /\ ~Answered(j) /\ Carried(j) => Carried(j)'
             /\ Answered(j) => ~Carried(j)'
  <2>1. ~Answered(j)' /\ IsKnown(j)' = IsKnown(j)
    BY <1>1 DEF Answered, IsKnown
  <2>2. ~Queued(j)'
    BY <1>1, EmptySeq DEF Queued, Range
  <2>3. Carried(j)' => Carried(j)
    BY <1>1, BrokerAssumption DEF Carried
  <2>4. ASSUME ~Answered(j), Carried(j)
        PROVE  Carried(j)'
    <3>1. PICK t \in Tick : job[t] = j
      BY <2>4 DEF Carried
    <3>2. t # crediting
      BY <2>4, <3>1, TickType, BrokerAssumption
         DEF BrokerInv, TypeOK, TickShape, Answered
    <3> QED
      BY <1>1, <3>1, <3>2 DEF Carried
  <2>5. Answered(j) => ~Carried(j)'
    BY <1>1, BrokerAssumption DEF Carried, Places
  <2> QED
    BY <2>1, <2>2, <2>3, <2>4, <2>5
<1>3. \A j \in Job :
        Status(j)' = IF Status(j) \in {"queued", "done"} THEN "lost" ELSE Status(j)
  <2> TAKE j \in Job
  <2> HIDE DEF Status, Answered, Queued, IsKnown, Carried
  <2> QED
    BY <1>2 DEF Places
<1> QED
  BY <1>3 DEF Lifecycle!Forget

-----------------------------------------------------------------------------
(* Refinement                                                              *)

LEMMA NextImplements ==
  ASSUME BrokerInv, BrokerInv', [Next]_vars
  PROVE  Lifecycle!Next
<1>1. Places /\ Places'
  BY OnePlace, PTL
<1>2. UNCHANGED env.durable
  BY EnvConstant
<1>3. CASE \E j \in Job : Submit(j)
  BY <1>1, <1>2, <1>3, SubmitQueues DEF Lifecycle!Next
<1>4. CASE \E t \in Tick : PollTakes(t)
  BY <1>1, <1>2, <1>4, TakingHandsOut DEF Lifecycle!Next
<1>5. CASE \E t \in Tick : PollLosesJob(t)
  BY <1>1, <1>2, <1>5, LosingSpoils DEF Lifecycle!Next
<1>6. CASE \E t \in Tick : RecordResult(t)
  BY <1>1, <1>2, <1>6, RecordingAnswers DEF Lifecycle!Next
<1>7. CASE RestartServer /\ ~env.durable
  BY <1>1, <1>2, <1>7, RestartingForgets DEF Lifecycle!Next
<1>8. CASE /\ ~\E j \in Job : Submit(j)
           /\ ~\E t \in Tick : PollTakes(t) \/ PollLosesJob(t) \/ RecordResult(t)
           /\ ~RestartServer \/ env.durable
  <2>1. LetsGo
    BY <1>8, OtherStepsLetGo DEF BrokerInv
  <2> QED
    BY <1>1, <1>2, <2>1, LettingGoDrops DEF Lifecycle!Next
<1> QED
  BY <1>3, <1>4, <1>5, <1>6, <1>7, <1>8

(* For any jobs, nodes and overlapping ticks, on either store and under    *)
(* every fault, jobs only go forward: queued once, handed to one node or   *)
(* spoilt, then answered or lost, and never handed out again (server.ts    *)
(* 82-142, store-sqlite.ts 137-152).                                       *)
THEOREM JobsGoForward == Spec => ImplementsLifecycle
<1>1. Init => Lifecycle!Init
  <2> SUFFICES ASSUME Init
               PROVE  Lifecycle!Init
    OBVIOUS
  <2>1. env.durable \in BOOLEAN
    BY BrokerAssumption DEF Init, Environment
  <2>2. \A j \in Job : ~Answered(j) /\ ~Queued(j) /\ ~Carried(j) /\ ~IsKnown(j)
    BY BrokerAssumption, EmptySeq DEF Init, Answered, Queued, Carried, IsKnown, Range
  <2>3. \A j \in Job : Status(j) = "new"
    <3> HIDE DEF Answered, Carried
    <3> QED
      BY <2>2 DEF Status, Queued, IsKnown
  <2> QED
    BY <2>1, <2>3 DEF Lifecycle!Init
<1>2. BrokerInv /\ BrokerInv' /\ [Next]_vars
        => [Lifecycle!Next]_<<env.durable, [j \in Job |-> Status(j)]>>
  BY NextImplements
<1> QED
  BY <1>1, <1>2, BrokerInvariant, PTL DEF Spec, ImplementsLifecycle, Lifecycle!Spec
-----------------------------------------------------------------------------
(* When no job is lost                                                     *)

NothingLostWhenGentle ==
  /\ Gentle => \A j \in Job : Status(j) # "lost"
  /\ ~env.keyed => NothingLost

(* Why: a poll on the server has a client that waits for its reply, and a  *)
(* job the coordinator accepted is answered, queued or carried.            *)
ClientsWait == \A t \in Tick : poll[t] # "none" => client[t] = "polling"
JobsAreSomewhere ==
  \A j \in Job : IsKnown(j) => Answered(j) \/ Queued(j) \/ Carried(j)

GentleInv == Gentle => ClientsWait /\ JobsAreSomewhere

(* The steps a gentle environment leaves.                                  *)
GentleStep(t) ==
  \/ StartTick(t) \/ PollTakes(t) \/ PollWaits(t) \/ PollFindsNothing(t)
  \/ ReplyArrives(t) \/ RunJob(t) \/ RecordResult(t) \/ CreditEarnings(t)

LEMMA NothingFails ==
  ASSUME TypeOK, Gentle, ClientsWait, [Next]_vars
  PROVE  \/ \E j \in Job : Submit(j)
         \/ \E t \in Tick : GentleStep(t)
         \/ UNCHANGED vars
<1>1. \A fs : fs \subseteq {"busy", "unreadable", "lost", "abort", "runtime", "crash",
                            "clock", "stop"} => ~CanFail(fs)
  BY DEF Gentle, CanFail
<1>2. /\ ~CanFail({"busy"}) /\ ~CanFail({"unreadable"}) /\ ~CanFail({"lost"})
      /\ ~CanFail({"abort"}) /\ ~CanFail({"runtime"}) /\ ~CanFail({"lost", "crash"})
      /\ ~CanFail({"clock"}) /\ ~CanFail({"lost", "crash", "stop"})
      /\ ~CanFail({"stop"}) /\ ~CanFail({"crash"})
  BY <1>1
<1>3. ~RestartServer /\ \A n \in Node : ~StopNode(n)
  BY <1>2 DEF RestartServer, StopNode
<1>4. ASSUME NEW t \in Tick
      PROVE  ~TickFault(t) /\ ~ReportRefused(t) /\ ~ReplyDropped(t)
  <2>1. ~TickFault(t)
    BY <1>2 DEF TickFault, PollThrows, PollLosesJob, PollLost, AbortPoll, RunJobFails,
         ReportThrows, ReportLost
  <2>2. ~ReportRefused(t) /\ ~ReplyDropped(t)
    BY <1>2 DEF ReportRefused, ReplyDropped, Gentle, ClientsWait
  <2> QED
    BY <2>1, <2>2
<1> QED
  BY <1>3, <1>4 DEF Next, TickStep, GentleStep

LEMMA NextClientsWait ==
  ASSUME TypeOK, TickShape, Gentle, ClientsWait, [Next]_vars
  PROVE  ClientsWait'
<1> USE DEF TypeOK, TickShape, ClientsWait, past, store, ticks
<1>1. CASE \E j \in Job : Submit(j)
  BY <1>1 DEF Submit
<1>2. ASSUME NEW t \in Tick, StartTick(t) \/ PollTakes(t) \/ PollWaits(t) \/ PollFindsNothing(t)
      PROVE  ClientsWait'
  BY <1>2 DEF StartTick, PollTakes, PollWaits, PollFindsNothing
<1>3. ASSUME NEW t \in Tick, ReplyArrives(t) \/ RunJob(t)
      PROVE  ClientsWait'
  BY <1>3 DEF ReplyArrives, RunJob
<1>4. ASSUME NEW t \in Tick, RecordResult(t)
      PROVE  ClientsWait'
  BY <1>4 DEF RecordResult
<1>5. ASSUME NEW t \in Tick, CreditEarnings(t)
      PROVE  ClientsWait'
  <2>1. client[t] = "reporting" /\ client' = [client EXCEPT ![t] = "idle"] /\ UNCHANGED poll
    BY <1>5, TickType DEF CreditEarnings, EndTick
  <2> QED
    BY <2>1
<1>6. CASE UNCHANGED vars
  BY <1>6 DEF vars, state
<1> QED
  BY <1>1, <1>2, <1>3, <1>4, <1>5, <1>6, NothingFails DEF GentleStep

(* Who is in a queue is its head or in its rest.                           *)
LEMMA RestOfQueue ==
  ASSUME NEW q \in Seq(Job), q # << >>, NEW i \in Range(q)
  PROVE  i = Head(q) \/ i \in Range(Tail(q))
<1>1. Len(q) \in Nat \ {0} /\ DOMAIN q = 1 .. Len(q) /\ Head(q) = q[1]
  BY LenProperties, EmptySeq
<1> DEFINE r == Tail(q)
<1>2. /\ r \in Seq(Job)
      /\ Len(r) = Len(q) - 1
      /\ \A k \in 1 .. Len(r) : r[k] = q[k + 1]
  BY HeadTailProperties
<1>3. DOMAIN r = 1 .. (Len(q) - 1)
  BY <1>2, LenProperties
<1> HIDE DEF r
<1>4. PICK k \in 1 .. Len(q) : q[k] = i
  BY <1>1 DEF Range
<1>5. CASE k = 1
  BY <1>1, <1>4, <1>5
<1>6. CASE k # 1
  <2>1. k - 1 \in 1 .. (Len(q) - 1)
    BY <1>1, <1>4, <1>6
  <2>2. r[k - 1] = q[k]
    BY <1>1, <1>2, <1>4, <2>1
  <2> QED
    BY <1>3, <1>4, <2>1, <2>2 DEF Range, r
<1> QED
  BY <1>5, <1>6

LEMMA NextJobsAreSomewhere ==
  ASSUME BrokerInv, Gentle, ClientsWait, JobsAreSomewhere, [Next]_vars
  PROVE  JobsAreSomewhere'
<1>0. TypeOK /\ TickShape /\ OneHolder /\ Places
  BY OnePlace DEF BrokerInv
<1> USE <1>0 DEF TypeOK, past, store, ticks
<1> SUFFICES ASSUME NEW j \in Job, IsKnown(j)'
             PROVE  (Answered(j) \/ Queued(j) \/ Carried(j))'
  BY DEF JobsAreSomewhere
<1>1. ASSUME NEW i \in Job, Submit(i)
      PROVE  (Answered(j) \/ Queued(j) \/ Carried(j))'
  <2>1. /\ Range(pending') = Range(pending) \cup {i}
        /\ Range(submitted') = Range(submitted) \cup {i}
        /\ UNCHANGED <<results, job>>
    BY <1>1, JoinQueue DEF Submit
  <2>2. j = i \/ IsKnown(j)
    BY <2>1 DEF IsKnown
  <2> QED
    BY <2>1, <2>2 DEF JobsAreSomewhere, IsKnown, Answered, Queued, Carried
<1>2. ASSUME NEW t \in Tick, PollTakes(t)
      PROVE  (Answered(j) \/ Queued(j) \/ Carried(j))'
  <2>1. /\ pending # << >> /\ pending' = Tail(pending)
        /\ job' = [job EXCEPT ![t] = Head(pending)]
        /\ client[t] = "polling" /\ poll[t] # "replied"
        /\ UNCHANGED <<results, submitted>>
    BY <1>2 DEF PollTakes, ClientsWait
  <2>2. job[t] = NoJob
    BY <2>1 DEF TickShape
  <2>3. \A i \in Range(pending) : i = Head(pending) \/ i \in Range(Tail(pending))
    BY RestOfQueue, <2>1
  <2>4. Answered(j) \/ Queued(j) \/ Carried(j)
    BY <2>1 DEF JobsAreSomewhere, IsKnown
  <2>5. Carried(j) => Carried(j)'
    BY <2>1, <2>2, BrokerAssumption DEF Carried
  <2>6. Queued(j) => (Queued(j) \/ Carried(j))'
    BY <2>1, <2>3 DEF Carried, Queued
  <2> QED
    BY <2>1, <2>4, <2>5, <2>6 DEF Answered
<1>3. ASSUME NEW t \in Tick,
             StartTick(t) \/ PollWaits(t) \/ PollFindsNothing(t) \/ ReplyArrives(t) \/ RunJob(t)
      PROVE  (Answered(j) \/ Queued(j) \/ Carried(j))'
  <2>1. UNCHANGED <<submitted, pending, results, job>>
    BY <1>3 DEF StartTick, PollWaits, PollFindsNothing, ReplyArrives, RunJob
  <2> QED
    BY <2>1 DEF JobsAreSomewhere, IsKnown, Answered, Queued, Carried
<1>4. ASSUME NEW t \in Tick, RecordResult(t)
      PROVE  (Answered(j) \/ Queued(j) \/ Carried(j))'
  <2>1. /\ results' = [results EXCEPT ![job[t]] = t[1]]
        /\ UNCHANGED <<submitted, pending, job>>
    BY <1>4 DEF RecordResult
  <2>2. t[1] # NoNode
    BY TickType, BrokerAssumption
  <2> QED
    BY <2>1, <2>2 DEF JobsAreSomewhere, IsKnown, Answered, Queued, Carried
<1>5. ASSUME NEW t \in Tick, CreditEarnings(t)
      PROVE  (Answered(j) \/ Queued(j) \/ Carried(j))'
  <2>1. /\ crediting = t /\ job' = [job EXCEPT ![t] = NoJob]
        /\ UNCHANGED <<submitted, pending, results>>
    BY <1>5 DEF CreditEarnings, EndTick
  <2>2. results[job[t]] = t[1] /\ t[1] # NoNode
    BY <2>1, TickType, BrokerAssumption DEF TickShape
  <2> QED
    BY <2>1, <2>2 DEF JobsAreSomewhere, IsKnown, Answered, Queued, Carried
<1>6. CASE UNCHANGED vars
  BY <1>6 DEF vars, state, JobsAreSomewhere, IsKnown, Answered, Queued, Carried
<1> QED
  BY <1>1, <1>2, <1>3, <1>4, <1>5, <1>6, NothingFails DEF GentleStep

(* NothingLost fails because of the keys and of nothing else: without them *)
(* a broker whose clients keep waiting and whose nodes keep running loses  *)
(* no job, whatever consumers and memo settlement do.                      *)
THEOREM GentleBrokersLoseNothing == Spec => []NothingLostWhenGentle
<1>1. Init => GentleInv
  <2> SUFFICES ASSUME Init
               PROVE  ClientsWait /\ JobsAreSomewhere
    BY DEF GentleInv
  <2>1. \A j \in Job : ~IsKnown(j)
    BY EmptySeq DEF Init, IsKnown, Range
  <2> QED
    BY <2>1 DEF Init, ClientsWait, JobsAreSomewhere
<1>2. BrokerInv /\ GentleInv /\ [Next]_vars => GentleInv'
  <2> SUFFICES ASSUME BrokerInv, GentleInv, [Next]_vars, Gentle'
               PROVE  ClientsWait' /\ JobsAreSomewhere'
    BY DEF GentleInv
  <2>1. Gentle
    BY EnvConstant DEF Gentle
  <2> QED
    BY <2>1, NextClientsWait, NextJobsAreSomewhere DEF GentleInv, BrokerInv
<1>3. BrokerInv /\ GentleInv => NothingLostWhenGentle
  <2>1. ASSUME BrokerInv, GentleInv, Gentle, NEW j \in Job
        PROVE  Status(j) # "lost"
    BY <2>1, OnePlace DEF Places, GentleInv, JobsAreSomewhere
  <2>2. ~env.keyed /\ env.faults = {} => Gentle
    BY DEF Gentle
  <2> QED
    BY <2>1, <2>2 DEF NothingLostWhenGentle, NothingLost
<1> QED
  BY <1>1, <1>2, <1>3, BrokerInvariant, PTL DEF Spec
=============================================================================

--------------------------- MODULE NodeHomeProofs ---------------------------
(***************************************************************************)
(* Theorems about NodeHome for any commands, process ids and environment.  *)
(***************************************************************************)
EXTENDS NodeHome, TLAPS

LEMMA InitTypes == Init => TypeOK
BY NodeHomeAssumption DEF Init, TypeOK, Environment, Wallet, Command

LEMMA NextTypeOK == TypeOK /\ StartedHasPid /\ [Next]_vars => TypeOK'
<1> SUFFICES ASSUME TypeOK, StartedHasPid, [Next]_vars
             PROVE  TypeOK'
  OBVIOUS
<1>0. env' = env
  BY DEF Next, vars
<1> USE <1>0 DEF TypeOK, GoTo, MayBegin, Command, Wallet, Working, Serving, Ended,
                 processes, pidfiles, memory, accounts
<1>1. ASSUME NEW s \in Starter, StartNode(s)
      PROVE  TypeOK'
  BY <1>1 DEF StartNode, FreePids
<1>2. ASSUME NEW s \in Starter, FindConfig(s)
      PROVE  TypeOK'
  BY <1>2 DEF FindConfig
<1>3. ASSUME NEW c \in Setter, LoadAndPatch(c)
      PROVE  TypeOK'
  <2>1. Patched(IF config = NoFile THEN {} ELSE config, c) \in SUBSET Setter
    BY <1>3 DEF LoadAndPatch, Patched
  <2> QED
    BY <1>3, <2>1 DEF LoadAndPatch
<1>4. ASSUME NEW c \in Setter, PatchFails(c)
      PROVE  TypeOK'
  BY <1>4 DEF PatchFails
<1>5. ASSUME NEW c \in Starter \cup Setter, TruncateConfig(c)
      PROVE  TypeOK'
  BY <1>5 DEF TruncateConfig
<1>6. ASSUME NEW c \in Starter \cup Setter, FillConfig(c)
      PROVE  TypeOK'
  BY <1>6 DEF FillConfig, Filled
<1>7. ASSUME NEW c \in Creator, FindKeystore(c)
      PROVE  TypeOK'
  BY <1>7 DEF FindKeystore
<1>8. ASSUME NEW c \in Creator, CreatorGivesUp(c)
      PROVE  TypeOK'
  BY <1>8 DEF CreatorGivesUp
<1>9. ASSUME NEW c \in Creator, TruncateKeystore(c)
      PROVE  TypeOK'
  BY <1>9 DEF TruncateKeystore
<1>10. ASSUME NEW c \in Creator, FillKeystore(c)
      PROVE  TypeOK'
  BY <1>10 DEF FillKeystore, Filled
<1>11. ASSUME NEW s \in Starter, LoadConfig(s)
      PROVE  TypeOK'
  BY <1>11 DEF LoadConfig
<1>12. ASSUME NEW s \in Starter, CheckWallet(s)
      PROVE  TypeOK'
  BY <1>12 DEF CheckWallet
<1>13. ASSUME NEW s \in Starter, DetectAndUnlock(s)
      PROVE  TypeOK'
  BY <1>13 DEF DetectAndUnlock
<1>14. ASSUME NEW s \in Starter, TruncatePid(s)
      PROVE  TypeOK'
  BY <1>14 DEF TruncatePid
<1>15. ASSUME NEW s \in Starter, SkipPid(s)
      PROVE  TypeOK'
  BY <1>15 DEF SkipPid
<1>16. ASSUME NEW s \in Starter, FillPid(s)
      PROVE  TypeOK'
  BY <1>16 DEF FillPid, Filled, StartedHasPid
<1>17. ASSUME NEW s \in Starter, PeekAndGoLive(s)
      PROVE  TypeOK'
  BY <1>17 DEF PeekAndGoLive
<1>18. ASSUME NEW s \in Starter, PeekFails(s)
      PROVE  TypeOK'
  BY <1>18 DEF PeekFails
<1>19. ASSUME NEW s \in Starter, RunsDry(s)
      PROVE  TypeOK'
  BY <1>19 DEF RunsDry
<1>20. ASSUME NEW s \in Starter, Shutdown(s)
      PROVE  TypeOK'
  BY <1>20 DEF Shutdown
<1>21. ASSUME NEW s \in Starter, Interrupt(s)
      PROVE  TypeOK'
  BY <1>21 DEF Interrupt, Signalled, Killed
<1>22. ASSUME NEW c \in Command, Crash(c)
      PROVE  TypeOK'
  BY <1>22 DEF Crash, Killed
<1>23. ASSUME NEW t \in Stopper, BeginCommand(t, "read")
      PROVE  TypeOK'
  BY <1>23 DEF BeginCommand
<1>24. ASSUME NEW t \in Stopper, ReadPid(t)
      PROVE  TypeOK'
  BY <1>24 DEF ReadPid
<1>25. ASSUME NEW t \in Stopper, ProbePid(t)
      PROVE  TypeOK'
  BY <1>25 DEF ProbePid
<1>26. ASSUME NEW t \in Stopper, ClearPid(t)
      PROVE  TypeOK'
  BY <1>26 DEF ClearPid
<1>27. ASSUME NEW t \in Stopper, SendStop(t)
      PROVE  TypeOK'
  BY <1>27 DEF SendStop, Signalled, Killed
<1>28. ASSUME NEW c \in Creator, BeginCommand(c, "ask")
      PROVE  TypeOK'
  BY <1>28 DEF BeginCommand
<1>29. ASSUME NEW c \in Setter, BeginCommand(c, "read")
      PROVE  TypeOK'
  BY <1>29 DEF BeginCommand
<1>30. ASSUME NEW p \in Pid, StrangerStarts(p)
      PROVE  TypeOK'
  BY <1>30 DEF StrangerStarts
<1>31. CASE UNCHANGED vars
  BY <1>31 DEF vars
<1> QED
  BY <1>1, <1>2, <1>3, <1>4, <1>5, <1>6, <1>7, <1>8, <1>9, <1>10, <1>11, <1>12, <1>13, <1>14, <1>15, <1>16, <1>17, <1>18, <1>19, <1>20, <1>21, <1>22, <1>23, <1>24, <1>25, <1>26, <1>27, <1>28, <1>29, <1>30, <1>31 DEF Next, StartStep, StopStep, WalletStep, ConfigStep

-----------------------------------------------------------------------------
(* Ids and names                                                           *)

LEMMA NextStarted ==
  TypeOK /\ StartedHasPid /\ OnlyBackgroundNames /\ [Next]_vars
    => StartedHasPid' /\ OnlyBackgroundNames'
<1> SUFFICES ASSUME TypeOK, StartedHasPid, OnlyBackgroundNames, [Next]_vars
             PROVE  StartedHasPid' /\ OnlyBackgroundNames'
  OBVIOUS
<1>0. env' = env
  BY DEF Next, vars
<1> USE <1>0, NodeHomeAssumption
    DEF TypeOK, StartedHasPid, OnlyBackgroundNames, GoTo, MayBegin, Command,
        Working, Serving, IsUp, NodeAt, processes, pidfiles, memory, accounts
<1>1. ASSUME NEW s \in Starter, StartNode(s)
      PROVE  StartedHasPid' /\ OnlyBackgroundNames'
  BY <1>1 DEF StartNode, FreePids
<1>2. ASSUME NEW s \in Starter, FindConfig(s)
      PROVE  StartedHasPid' /\ OnlyBackgroundNames'
  BY <1>2 DEF FindConfig
<1>3. ASSUME NEW c \in Setter, LoadAndPatch(c)
      PROVE  StartedHasPid' /\ OnlyBackgroundNames'
  BY <1>3 DEF LoadAndPatch
<1>4. ASSUME NEW c \in Setter, PatchFails(c)
      PROVE  StartedHasPid' /\ OnlyBackgroundNames'
  BY <1>4 DEF PatchFails
<1>5. ASSUME NEW c \in Starter \cup Setter, TruncateConfig(c)
      PROVE  StartedHasPid' /\ OnlyBackgroundNames'
  BY <1>5 DEF TruncateConfig
<1>6. ASSUME NEW c \in Starter \cup Setter, FillConfig(c)
      PROVE  StartedHasPid' /\ OnlyBackgroundNames'
  BY <1>6 DEF FillConfig, Filled
<1>7. ASSUME NEW c \in Creator, FindKeystore(c)
      PROVE  StartedHasPid' /\ OnlyBackgroundNames'
  BY <1>7 DEF FindKeystore
<1>8. ASSUME NEW c \in Creator, CreatorGivesUp(c)
      PROVE  StartedHasPid' /\ OnlyBackgroundNames'
  BY <1>8 DEF CreatorGivesUp
<1>9. ASSUME NEW c \in Creator, TruncateKeystore(c)
      PROVE  StartedHasPid' /\ OnlyBackgroundNames'
  BY <1>9 DEF TruncateKeystore
<1>10. ASSUME NEW c \in Creator, FillKeystore(c)
      PROVE  StartedHasPid' /\ OnlyBackgroundNames'
  BY <1>10 DEF FillKeystore, Filled
<1>11. ASSUME NEW s \in Starter, LoadConfig(s)
      PROVE  StartedHasPid' /\ OnlyBackgroundNames'
  BY <1>11 DEF LoadConfig
<1>12. ASSUME NEW s \in Starter, CheckWallet(s)
      PROVE  StartedHasPid' /\ OnlyBackgroundNames'
  BY <1>12 DEF CheckWallet
<1>13. ASSUME NEW s \in Starter, DetectAndUnlock(s)
      PROVE  StartedHasPid' /\ OnlyBackgroundNames'
  BY <1>13 DEF DetectAndUnlock
<1>14. ASSUME NEW s \in Starter, TruncatePid(s)
      PROVE  StartedHasPid' /\ OnlyBackgroundNames'
  BY <1>14 DEF TruncatePid
<1>15. ASSUME NEW s \in Starter, SkipPid(s)
      PROVE  StartedHasPid' /\ OnlyBackgroundNames'
  BY <1>15 DEF SkipPid
<1>16. ASSUME NEW s \in Starter, FillPid(s)
      PROVE  StartedHasPid' /\ OnlyBackgroundNames'
  BY <1>16 DEF FillPid, Filled
<1>17. ASSUME NEW s \in Starter, PeekAndGoLive(s)
      PROVE  StartedHasPid' /\ OnlyBackgroundNames'
  BY <1>17 DEF PeekAndGoLive
<1>18. ASSUME NEW s \in Starter, PeekFails(s)
      PROVE  StartedHasPid' /\ OnlyBackgroundNames'
  BY <1>18 DEF PeekFails
<1>19. ASSUME NEW s \in Starter, RunsDry(s)
      PROVE  StartedHasPid' /\ OnlyBackgroundNames'
  BY <1>19 DEF RunsDry
<1>20. ASSUME NEW s \in Starter, Shutdown(s)
      PROVE  StartedHasPid' /\ OnlyBackgroundNames'
  BY <1>20 DEF Shutdown
<1>21. ASSUME NEW s \in Starter, Interrupt(s)
      PROVE  StartedHasPid' /\ OnlyBackgroundNames'
  BY <1>21 DEF Interrupt, Signalled, Killed
<1>22. ASSUME NEW c \in Command, Crash(c)
      PROVE  StartedHasPid' /\ OnlyBackgroundNames'
  BY <1>22 DEF Crash, Killed
<1>23. ASSUME NEW t \in Stopper, BeginCommand(t, "read")
      PROVE  StartedHasPid' /\ OnlyBackgroundNames'
  BY <1>23 DEF BeginCommand
<1>24. ASSUME NEW t \in Stopper, ReadPid(t)
      PROVE  StartedHasPid' /\ OnlyBackgroundNames'
  BY <1>24 DEF ReadPid
<1>25. ASSUME NEW t \in Stopper, ProbePid(t)
      PROVE  StartedHasPid' /\ OnlyBackgroundNames'
  BY <1>25 DEF ProbePid
<1>26. ASSUME NEW t \in Stopper, ClearPid(t)
      PROVE  StartedHasPid' /\ OnlyBackgroundNames'
  BY <1>26 DEF ClearPid
<1>27. ASSUME NEW t \in Stopper, SendStop(t)
      PROVE  StartedHasPid' /\ OnlyBackgroundNames'
  BY <1>27 DEF SendStop, Signalled, Killed
<1>28. ASSUME NEW c \in Creator, BeginCommand(c, "ask")
      PROVE  StartedHasPid' /\ OnlyBackgroundNames'
  BY <1>28 DEF BeginCommand
<1>29. ASSUME NEW c \in Setter, BeginCommand(c, "read")
      PROVE  StartedHasPid' /\ OnlyBackgroundNames'
  BY <1>29 DEF BeginCommand
<1>30. ASSUME NEW p \in Pid, StrangerStarts(p)
      PROVE  StartedHasPid' /\ OnlyBackgroundNames'
  BY <1>30 DEF StrangerStarts
<1>31. CASE UNCHANGED vars
  BY <1>31 DEF vars
<1> QED
  BY <1>1, <1>2, <1>3, <1>4, <1>5, <1>6, <1>7, <1>8, <1>9, <1>10, <1>11, <1>12, <1>13, <1>14, <1>15, <1>16, <1>17, <1>18, <1>19, <1>20, <1>21, <1>22, <1>23, <1>24, <1>25, <1>26, <1>27, <1>28, <1>29, <1>30, <1>31 DEF Next, StartStep, StopStep, WalletStep, ConfigStep

LEMMA NextNames ==
  TypeOK /\ StartedHasPid /\ OnlyBackgroundNames /\ PidfileNamesANode /\ [Next]_vars
    => PidfileNamesANode'
<1> SUFFICES ASSUME TypeOK, StartedHasPid, OnlyBackgroundNames, PidfileNamesANode,
                    [Next]_vars
             PROVE  PidfileNamesANode'
  OBVIOUS
<1>0. env' = env
  BY DEF Next, vars
<1> USE <1>0, NodeHomeAssumption
    DEF TypeOK, PidfileNamesANode, CanFail, GoTo, MayBegin, Command,
        Working, Serving, IsUp, NodeAt, processes, pidfiles, memory, accounts
<1>1. ASSUME NEW s \in Starter, StartNode(s)
      PROVE  PidfileNamesANode'
  BY <1>1 DEF StartNode, FreePids
<1>2. ASSUME NEW s \in Starter, FindConfig(s)
      PROVE  PidfileNamesANode'
  BY <1>2 DEF FindConfig
<1>3. ASSUME NEW c \in Setter, LoadAndPatch(c)
      PROVE  PidfileNamesANode'
  BY <1>3 DEF LoadAndPatch
<1>4. ASSUME NEW c \in Setter, PatchFails(c)
      PROVE  PidfileNamesANode'
  BY <1>4 DEF PatchFails
<1>5. ASSUME NEW c \in Starter \cup Setter, TruncateConfig(c)
      PROVE  PidfileNamesANode'
  BY <1>5 DEF TruncateConfig
<1>6. ASSUME NEW c \in Starter \cup Setter, FillConfig(c)
      PROVE  PidfileNamesANode'
  BY <1>6 DEF FillConfig, Filled
<1>7. ASSUME NEW c \in Creator, FindKeystore(c)
      PROVE  PidfileNamesANode'
  BY <1>7 DEF FindKeystore
<1>8. ASSUME NEW c \in Creator, CreatorGivesUp(c)
      PROVE  PidfileNamesANode'
  BY <1>8 DEF CreatorGivesUp
<1>9. ASSUME NEW c \in Creator, TruncateKeystore(c)
      PROVE  PidfileNamesANode'
  BY <1>9 DEF TruncateKeystore
<1>10. ASSUME NEW c \in Creator, FillKeystore(c)
      PROVE  PidfileNamesANode'
  BY <1>10 DEF FillKeystore, Filled
<1>11. ASSUME NEW s \in Starter, LoadConfig(s)
      PROVE  PidfileNamesANode'
  BY <1>11 DEF LoadConfig
<1>12. ASSUME NEW s \in Starter, CheckWallet(s)
      PROVE  PidfileNamesANode'
  BY <1>12 DEF CheckWallet
<1>13. ASSUME NEW s \in Starter, DetectAndUnlock(s)
      PROVE  PidfileNamesANode'
  BY <1>13 DEF DetectAndUnlock
<1>14. ASSUME NEW s \in Starter, TruncatePid(s)
      PROVE  PidfileNamesANode'
  BY <1>14 DEF TruncatePid
<1>15. ASSUME NEW s \in Starter, SkipPid(s)
      PROVE  PidfileNamesANode'
  BY <1>15 DEF SkipPid
<1>16. ASSUME NEW s \in Starter, FillPid(s)
      PROVE  PidfileNamesANode'
  BY <1>16 DEF FillPid, Filled, StartedHasPid, OnlyBackgroundNames
<1>17. ASSUME NEW s \in Starter, PeekAndGoLive(s)
      PROVE  PidfileNamesANode'
  BY <1>17 DEF PeekAndGoLive
<1>18. ASSUME NEW s \in Starter, PeekFails(s)
      PROVE  PidfileNamesANode'
  BY <1>18 DEF PeekFails
<1>19. ASSUME NEW s \in Starter, RunsDry(s)
      PROVE  PidfileNamesANode'
  BY <1>19 DEF RunsDry
<1>20. ASSUME NEW s \in Starter, Shutdown(s)
      PROVE  PidfileNamesANode'
  BY <1>20 DEF Shutdown
<1>21. ASSUME NEW s \in Starter, Interrupt(s)
      PROVE  PidfileNamesANode'
  BY <1>21 DEF Interrupt, Signalled, Killed
<1>22. ASSUME NEW c \in Command, Crash(c)
      PROVE  PidfileNamesANode'
  BY <1>22 DEF Crash, Killed
<1>23. ASSUME NEW t \in Stopper, BeginCommand(t, "read")
      PROVE  PidfileNamesANode'
  BY <1>23 DEF BeginCommand
<1>24. ASSUME NEW t \in Stopper, ReadPid(t)
      PROVE  PidfileNamesANode'
  BY <1>24 DEF ReadPid
<1>25. ASSUME NEW t \in Stopper, ProbePid(t)
      PROVE  PidfileNamesANode'
  BY <1>25 DEF ProbePid
<1>26. ASSUME NEW t \in Stopper, ClearPid(t)
      PROVE  PidfileNamesANode'
  BY <1>26 DEF ClearPid
<1>27. ASSUME NEW t \in Stopper, SendStop(t)
      PROVE  PidfileNamesANode'
  BY <1>27 DEF SendStop, Signalled, Killed
<1>28. ASSUME NEW c \in Creator, BeginCommand(c, "ask")
      PROVE  PidfileNamesANode'
  BY <1>28 DEF BeginCommand
<1>29. ASSUME NEW c \in Setter, BeginCommand(c, "read")
      PROVE  PidfileNamesANode'
  BY <1>29 DEF BeginCommand
<1>30. ASSUME NEW p \in Pid, StrangerStarts(p)
      PROVE  PidfileNamesANode'
  BY <1>30 DEF StrangerStarts
<1>31. CASE UNCHANGED vars
  BY <1>31 DEF vars
<1> QED
  BY <1>1, <1>2, <1>3, <1>4, <1>5, <1>6, <1>7, <1>8, <1>9, <1>10, <1>11, <1>12, <1>13, <1>14, <1>15, <1>16, <1>17, <1>18, <1>19, <1>20, <1>21, <1>22, <1>23, <1>24, <1>25, <1>26, <1>27, <1>28, <1>29, <1>30, <1>31 DEF Next, StartStep, StopStep, WalletStep, ConfigStep

-----------------------------------------------------------------------------
(* A patient owner                                                         *)

LEMMA NextPatient ==
  TypeOK /\ Patient /\ PidfileIsRight /\ [Next]_vars
    => PidfileIsRight'
<1> SUFFICES ASSUME TypeOK, Patient, PidfileIsRight, [Next]_vars
             PROVE  PidfileIsRight'
  OBVIOUS
<1> USE NodeHomeAssumption
    DEF TypeOK, Patient, PidfileIsRight, OneAtATime, WorkOneByOne, WriterHoldsFile,
        NamedByFile, StopSeesTheNode,
        CanFail, GoTo, MayBegin, Command, Working, Serving, IsUp, NodeAt, IsAlive,
        processes, pidfiles, memory, accounts
<1>1. ASSUME NEW s \in Starter, StartNode(s)
      PROVE  PidfileIsRight'
  BY <1>1 DEF StartNode, FreePids
<1>2. ASSUME NEW s \in Starter, FindConfig(s)
      PROVE  PidfileIsRight'
  BY <1>2 DEF FindConfig
<1>3. ASSUME NEW c \in Setter, LoadAndPatch(c)
      PROVE  PidfileIsRight'
  BY <1>3 DEF LoadAndPatch
<1>4. ASSUME NEW c \in Setter, PatchFails(c)
      PROVE  PidfileIsRight'
  BY <1>4 DEF PatchFails
<1>5. ASSUME NEW c \in Starter \cup Setter, TruncateConfig(c)
      PROVE  PidfileIsRight'
  BY <1>5 DEF TruncateConfig
<1>6. ASSUME NEW c \in Starter \cup Setter, FillConfig(c)
      PROVE  PidfileIsRight'
  BY <1>6 DEF FillConfig, Filled
<1>7. ASSUME NEW c \in Creator, FindKeystore(c)
      PROVE  PidfileIsRight'
  BY <1>7 DEF FindKeystore
<1>8. ASSUME NEW c \in Creator, CreatorGivesUp(c)
      PROVE  PidfileIsRight'
  BY <1>8 DEF CreatorGivesUp
<1>9. ASSUME NEW c \in Creator, TruncateKeystore(c)
      PROVE  PidfileIsRight'
  BY <1>9 DEF TruncateKeystore
<1>10. ASSUME NEW c \in Creator, FillKeystore(c)
      PROVE  PidfileIsRight'
  BY <1>10 DEF FillKeystore, Filled
<1>11. ASSUME NEW s \in Starter, LoadConfig(s)
      PROVE  PidfileIsRight'
  BY <1>11 DEF LoadConfig
<1>12. ASSUME NEW s \in Starter, CheckWallet(s)
      PROVE  PidfileIsRight'
  BY <1>12 DEF CheckWallet
<1>13. ASSUME NEW s \in Starter, DetectAndUnlock(s)
      PROVE  PidfileIsRight'
  BY <1>13 DEF DetectAndUnlock
<1>14. ASSUME NEW s \in Starter, TruncatePid(s)
      PROVE  PidfileIsRight'
  BY <1>14 DEF TruncatePid
<1>15. ASSUME NEW s \in Starter, SkipPid(s)
      PROVE  PidfileIsRight'
  BY <1>15 DEF SkipPid
<1>16. ASSUME NEW s \in Starter, FillPid(s)
      PROVE  PidfileIsRight'
  BY <1>16 DEF FillPid, Filled
<1>17. ASSUME NEW s \in Starter, PeekAndGoLive(s)
      PROVE  PidfileIsRight'
  BY <1>17 DEF PeekAndGoLive
<1>18. ASSUME NEW s \in Starter, PeekFails(s)
      PROVE  PidfileIsRight'
  BY <1>18 DEF PeekFails
<1>19. ASSUME NEW s \in Starter, RunsDry(s)
      PROVE  PidfileIsRight'
  BY <1>19 DEF RunsDry
<1>20. ASSUME NEW s \in Starter, Shutdown(s)
      PROVE  PidfileIsRight'
  BY <1>20 DEF Shutdown
<1>21. ASSUME NEW s \in Starter, Interrupt(s)
      PROVE  PidfileIsRight'
  BY <1>21 DEF Interrupt, Signalled, Killed
<1>22. ASSUME NEW c \in Command, Crash(c)
      PROVE  PidfileIsRight'
  BY <1>22 DEF Crash, Killed
<1>23. ASSUME NEW t \in Stopper, BeginCommand(t, "read")
      PROVE  PidfileIsRight'
  BY <1>23 DEF BeginCommand
<1>24. ASSUME NEW t \in Stopper, ReadPid(t)
      PROVE  PidfileIsRight'
  BY <1>24 DEF ReadPid
<1>25. ASSUME NEW t \in Stopper, ProbePid(t)
      PROVE  PidfileIsRight'
  BY <1>25 DEF ProbePid
<1>26. ASSUME NEW t \in Stopper, ClearPid(t)
      PROVE  PidfileIsRight'
  BY <1>26 DEF ClearPid
<1>27. ASSUME NEW t \in Stopper, SendStop(t)
      PROVE  PidfileIsRight'
  BY <1>27 DEF SendStop, Signalled, Killed
<1>28. ASSUME NEW c \in Creator, BeginCommand(c, "ask")
      PROVE  PidfileIsRight'
  BY <1>28 DEF BeginCommand
<1>29. ASSUME NEW c \in Setter, BeginCommand(c, "read")
      PROVE  PidfileIsRight'
  BY <1>29 DEF BeginCommand
<1>30. ASSUME NEW p \in Pid, StrangerStarts(p)
      PROVE  PidfileIsRight'
  BY <1>30 DEF StrangerStarts
<1>31. CASE UNCHANGED vars
  BY <1>31 DEF vars
<1> QED
  BY <1>1, <1>2, <1>3, <1>4, <1>5, <1>6, <1>7, <1>8, <1>9, <1>10, <1>11, <1>12, <1>13, <1>14, <1>15, <1>16, <1>17, <1>18, <1>19, <1>20, <1>21, <1>22, <1>23, <1>24, <1>25, <1>26, <1>27, <1>28, <1>29, <1>30, <1>31 DEF Next, StartStep, StopStep, WalletStep, ConfigStep

-----------------------------------------------------------------------------
(* Keystore and configuration                                              *)

(* No command begins while another one works.                             *)
LEMMA NextWork ==
  TypeOK /\ ~CanFail({"overlap"}) /\ WorkOneByOne /\ [Next]_vars
    => WorkOneByOne'
<1> SUFFICES ASSUME TypeOK, ~CanFail({"overlap"}), WorkOneByOne, [Next]_vars
             PROVE  WorkOneByOne'
  OBVIOUS
<1>0. env' = env
  BY DEF Next, vars
<1> USE <1>0, NodeHomeAssumption
    DEF TypeOK, WorkOneByOne,
        CanFail, GoTo, MayBegin, Command, Working, Serving, IsUp, NodeAt, IsAlive,
        processes, pidfiles, memory, accounts
<1>1. ASSUME NEW s \in Starter, StartNode(s)
      PROVE  WorkOneByOne'
  BY <1>1 DEF StartNode, FreePids
<1>2. ASSUME NEW s \in Starter, FindConfig(s)
      PROVE  WorkOneByOne'
  BY <1>2 DEF FindConfig
<1>3. ASSUME NEW c \in Setter, LoadAndPatch(c)
      PROVE  WorkOneByOne'
  BY <1>3 DEF LoadAndPatch
<1>4. ASSUME NEW c \in Setter, PatchFails(c)
      PROVE  WorkOneByOne'
  BY <1>4 DEF PatchFails
<1>5. ASSUME NEW c \in Starter \cup Setter, TruncateConfig(c)
      PROVE  WorkOneByOne'
  BY <1>5 DEF TruncateConfig
<1>6. ASSUME NEW c \in Starter \cup Setter, FillConfig(c)
      PROVE  WorkOneByOne'
  BY <1>6 DEF FillConfig, Filled
<1>7. ASSUME NEW c \in Creator, FindKeystore(c)
      PROVE  WorkOneByOne'
  BY <1>7 DEF FindKeystore
<1>8. ASSUME NEW c \in Creator, CreatorGivesUp(c)
      PROVE  WorkOneByOne'
  BY <1>8 DEF CreatorGivesUp
<1>9. ASSUME NEW c \in Creator, TruncateKeystore(c)
      PROVE  WorkOneByOne'
  BY <1>9 DEF TruncateKeystore
<1>10. ASSUME NEW c \in Creator, FillKeystore(c)
      PROVE  WorkOneByOne'
  BY <1>10 DEF FillKeystore, Filled
<1>11. ASSUME NEW s \in Starter, LoadConfig(s)
      PROVE  WorkOneByOne'
  BY <1>11 DEF LoadConfig
<1>12. ASSUME NEW s \in Starter, CheckWallet(s)
      PROVE  WorkOneByOne'
  BY <1>12 DEF CheckWallet
<1>13. ASSUME NEW s \in Starter, DetectAndUnlock(s)
      PROVE  WorkOneByOne'
  BY <1>13 DEF DetectAndUnlock
<1>14. ASSUME NEW s \in Starter, TruncatePid(s)
      PROVE  WorkOneByOne'
  BY <1>14 DEF TruncatePid
<1>15. ASSUME NEW s \in Starter, SkipPid(s)
      PROVE  WorkOneByOne'
  BY <1>15 DEF SkipPid
<1>16. ASSUME NEW s \in Starter, FillPid(s)
      PROVE  WorkOneByOne'
  BY <1>16 DEF FillPid, Filled
<1>17. ASSUME NEW s \in Starter, PeekAndGoLive(s)
      PROVE  WorkOneByOne'
  BY <1>17 DEF PeekAndGoLive
<1>18. ASSUME NEW s \in Starter, PeekFails(s)
      PROVE  WorkOneByOne'
  BY <1>18 DEF PeekFails
<1>19. ASSUME NEW s \in Starter, RunsDry(s)
      PROVE  WorkOneByOne'
  BY <1>19 DEF RunsDry
<1>20. ASSUME NEW s \in Starter, Shutdown(s)
      PROVE  WorkOneByOne'
  BY <1>20 DEF Shutdown
<1>21. ASSUME NEW s \in Starter, Interrupt(s)
      PROVE  WorkOneByOne'
  BY <1>21 DEF Interrupt, Signalled, Killed
<1>22. ASSUME NEW c \in Command, Crash(c)
      PROVE  WorkOneByOne'
  BY <1>22 DEF Crash, Killed
<1>23. ASSUME NEW t \in Stopper, BeginCommand(t, "read")
      PROVE  WorkOneByOne'
  BY <1>23 DEF BeginCommand
<1>24. ASSUME NEW t \in Stopper, ReadPid(t)
      PROVE  WorkOneByOne'
  BY <1>24 DEF ReadPid
<1>25. ASSUME NEW t \in Stopper, ProbePid(t)
      PROVE  WorkOneByOne'
  BY <1>25 DEF ProbePid
<1>26. ASSUME NEW t \in Stopper, ClearPid(t)
      PROVE  WorkOneByOne'
  BY <1>26 DEF ClearPid
<1>27. ASSUME NEW t \in Stopper, SendStop(t)
      PROVE  WorkOneByOne'
  BY <1>27 DEF SendStop, Signalled, Killed
<1>28. ASSUME NEW c \in Creator, BeginCommand(c, "ask")
      PROVE  WorkOneByOne'
  BY <1>28 DEF BeginCommand
<1>29. ASSUME NEW c \in Setter, BeginCommand(c, "read")
      PROVE  WorkOneByOne'
  BY <1>29 DEF BeginCommand
<1>30. ASSUME NEW p \in Pid, StrangerStarts(p)
      PROVE  WorkOneByOne'
  BY <1>30 DEF StrangerStarts
<1>31. CASE UNCHANGED vars
  BY <1>31 DEF vars
<1> QED
  BY <1>1, <1>2, <1>3, <1>4, <1>5, <1>6, <1>7, <1>8, <1>9, <1>10, <1>11, <1>12, <1>13, <1>14, <1>15, <1>16, <1>17, <1>18, <1>19, <1>20, <1>21, <1>22, <1>23, <1>24, <1>25, <1>26, <1>27, <1>28, <1>29, <1>30, <1>31 DEF Next, StartStep, StopStep, WalletStep, ConfigStep

(* The keystore.                                                            *)
LEMMA NextWallets ==
  TypeOK /\ ~CanFail({"overlap"}) /\ WorkOneByOne /\ AskedWhenFound /\ WalletsAreKept /\ [Next]_vars
    => AskedWhenFound' /\ WalletsAreKept'
<1> SUFFICES ASSUME TypeOK, ~CanFail({"overlap"}), WorkOneByOne, AskedWhenFound, WalletsAreKept, [Next]_vars
             PROVE  AskedWhenFound' /\ WalletsAreKept'
  OBVIOUS
<1>0. env' = env
  BY DEF Next, vars
<1> USE <1>0, NodeHomeAssumption
    DEF TypeOK, WorkOneByOne, AskedWhenFound, WalletsAreKept, MadeWallets, Wallet,
        CanFail, GoTo, MayBegin, Command, Working, Serving, IsUp, NodeAt, IsAlive,
        processes, pidfiles, memory, accounts
<1>1. ASSUME NEW s \in Starter, StartNode(s)
      PROVE  AskedWhenFound' /\ WalletsAreKept'
  BY <1>1 DEF StartNode, FreePids
<1>2. ASSUME NEW s \in Starter, FindConfig(s)
      PROVE  AskedWhenFound' /\ WalletsAreKept'
  BY <1>2 DEF FindConfig
<1>3. ASSUME NEW c \in Setter, LoadAndPatch(c)
      PROVE  AskedWhenFound' /\ WalletsAreKept'
  BY <1>3 DEF LoadAndPatch
<1>4. ASSUME NEW c \in Setter, PatchFails(c)
      PROVE  AskedWhenFound' /\ WalletsAreKept'
  BY <1>4 DEF PatchFails
<1>5. ASSUME NEW c \in Starter \cup Setter, TruncateConfig(c)
      PROVE  AskedWhenFound' /\ WalletsAreKept'
  BY <1>5 DEF TruncateConfig
<1>6. ASSUME NEW c \in Starter \cup Setter, FillConfig(c)
      PROVE  AskedWhenFound' /\ WalletsAreKept'
  BY <1>6 DEF FillConfig, Filled
<1>7. ASSUME NEW c \in Creator, FindKeystore(c)
      PROVE  AskedWhenFound' /\ WalletsAreKept'
  BY <1>7 DEF FindKeystore
<1>8. ASSUME NEW c \in Creator, CreatorGivesUp(c)
      PROVE  AskedWhenFound' /\ WalletsAreKept'
  BY <1>8 DEF CreatorGivesUp
<1>9. ASSUME NEW c \in Creator, TruncateKeystore(c)
      PROVE  AskedWhenFound' /\ WalletsAreKept'
  BY <1>9 DEF TruncateKeystore
<1>10. ASSUME NEW c \in Creator, FillKeystore(c)
      PROVE  AskedWhenFound' /\ WalletsAreKept'
  BY <1>10 DEF FillKeystore, Filled
<1>11. ASSUME NEW s \in Starter, LoadConfig(s)
      PROVE  AskedWhenFound' /\ WalletsAreKept'
  BY <1>11 DEF LoadConfig
<1>12. ASSUME NEW s \in Starter, CheckWallet(s)
      PROVE  AskedWhenFound' /\ WalletsAreKept'
  BY <1>12 DEF CheckWallet
<1>13. ASSUME NEW s \in Starter, DetectAndUnlock(s)
      PROVE  AskedWhenFound' /\ WalletsAreKept'
  BY <1>13 DEF DetectAndUnlock
<1>14. ASSUME NEW s \in Starter, TruncatePid(s)
      PROVE  AskedWhenFound' /\ WalletsAreKept'
  BY <1>14 DEF TruncatePid
<1>15. ASSUME NEW s \in Starter, SkipPid(s)
      PROVE  AskedWhenFound' /\ WalletsAreKept'
  BY <1>15 DEF SkipPid
<1>16. ASSUME NEW s \in Starter, FillPid(s)
      PROVE  AskedWhenFound' /\ WalletsAreKept'
  BY <1>16 DEF FillPid, Filled
<1>17. ASSUME NEW s \in Starter, PeekAndGoLive(s)
      PROVE  AskedWhenFound' /\ WalletsAreKept'
  BY <1>17 DEF PeekAndGoLive
<1>18. ASSUME NEW s \in Starter, PeekFails(s)
      PROVE  AskedWhenFound' /\ WalletsAreKept'
  BY <1>18 DEF PeekFails
<1>19. ASSUME NEW s \in Starter, RunsDry(s)
      PROVE  AskedWhenFound' /\ WalletsAreKept'
  BY <1>19 DEF RunsDry
<1>20. ASSUME NEW s \in Starter, Shutdown(s)
      PROVE  AskedWhenFound' /\ WalletsAreKept'
  BY <1>20 DEF Shutdown
<1>21. ASSUME NEW s \in Starter, Interrupt(s)
      PROVE  AskedWhenFound' /\ WalletsAreKept'
  BY <1>21 DEF Interrupt, Signalled, Killed
<1>22. ASSUME NEW c \in Command, Crash(c)
      PROVE  AskedWhenFound' /\ WalletsAreKept'
  BY <1>22 DEF Crash, Killed
<1>23. ASSUME NEW t \in Stopper, BeginCommand(t, "read")
      PROVE  AskedWhenFound' /\ WalletsAreKept'
  BY <1>23 DEF BeginCommand
<1>24. ASSUME NEW t \in Stopper, ReadPid(t)
      PROVE  AskedWhenFound' /\ WalletsAreKept'
  BY <1>24 DEF ReadPid
<1>25. ASSUME NEW t \in Stopper, ProbePid(t)
      PROVE  AskedWhenFound' /\ WalletsAreKept'
  BY <1>25 DEF ProbePid
<1>26. ASSUME NEW t \in Stopper, ClearPid(t)
      PROVE  AskedWhenFound' /\ WalletsAreKept'
  BY <1>26 DEF ClearPid
<1>27. ASSUME NEW t \in Stopper, SendStop(t)
      PROVE  AskedWhenFound' /\ WalletsAreKept'
  BY <1>27 DEF SendStop, Signalled, Killed
<1>28. ASSUME NEW c \in Creator, BeginCommand(c, "ask")
      PROVE  AskedWhenFound' /\ WalletsAreKept'
  BY <1>28 DEF BeginCommand
<1>29. ASSUME NEW c \in Setter, BeginCommand(c, "read")
      PROVE  AskedWhenFound' /\ WalletsAreKept'
  BY <1>29 DEF BeginCommand
<1>30. ASSUME NEW p \in Pid, StrangerStarts(p)
      PROVE  AskedWhenFound' /\ WalletsAreKept'
  BY <1>30 DEF StrangerStarts
<1>31. CASE UNCHANGED vars
  BY <1>31 DEF vars
<1> QED
  BY <1>1, <1>2, <1>3, <1>4, <1>5, <1>6, <1>7, <1>8, <1>9, <1>10, <1>11, <1>12, <1>13, <1>14, <1>15, <1>16, <1>17, <1>18, <1>19, <1>20, <1>21, <1>22, <1>23, <1>24, <1>25, <1>26, <1>27, <1>28, <1>29, <1>30, <1>31 DEF Next, StartStep, StopStep, WalletStep, ConfigStep

(* The configuration.                                                       *)
PatchesInv == DraftHasPatches /\ OnFileIsPatched /\ PatchedIsOnFile /\ PatchesAreKept

(* What no command that writes no configuration disturbs.                  *)
PatchFrame ==
  /\ UNCHANGED <<env, draft, config>>
  /\ \A c \in Setter : pc'[c] = "done" <=> pc[c] = "done"
  /\ \A c \in Starter \cup Setter : pc'[c] \in {"open", "fill"} => pc'[c] = pc[c]

LEMMA FrameKeepsPatches ==
  ASSUME TypeOK, PatchesInv, PatchFrame
  PROVE  PatchesInv'
<1> USE DEF TypeOK, PatchesInv, PatchFrame
<1>1. DraftHasPatches'
  <2>1. \A c \in Starter \cup Setter : \A d \in draft[c] : d \in Setter
    OBVIOUS
  <2>2. \A d, e : Supersedes(d, e)' <=> Supersedes(d, e)
    BY DEF Supersedes
  <2> QED
    BY <2>1, <2>2 DEF DraftHasPatches
<1>2. OnFileIsPatched'
  BY DEF OnFileIsPatched
<1>3. PatchedIsOnFile'
  BY DEF PatchedIsOnFile
<1>4. PatchesAreKept'
  <2>1. SUFFICES ASSUME ~CanFail({"overlap"}), config # Torn, NEW c \in Setter, pc[c] = "done",
                        env.sets[c] # NoKey
                 PROVE  \E d \in config : pc'[d] = "done" /\ Supersedes(d, c)'
    BY DEF PatchesAreKept, CanFail
  <2>2. config \in SUBSET Setter
    BY <2>1 DEF PatchedIsOnFile
  <2>3. PICK d \in config : pc[d] = "done" /\ Supersedes(d, c)
    BY <2>1 DEF PatchesAreKept
  <2> QED
    BY <2>2, <2>3 DEF Supersedes
<1> QED
  BY <1>1, <1>2, <1>3, <1>4

LEMMA NextPatches ==
  TypeOK /\ ~CanFail({"overlap"}) /\ WorkOneByOne /\ PatchesInv /\ [Next]_vars
    => PatchesInv'
<1> SUFFICES ASSUME TypeOK, ~CanFail({"overlap"}), WorkOneByOne, PatchesInv, [Next]_vars
             PROVE  PatchesInv'
  OBVIOUS
<1>0. env' = env
  BY DEF Next, vars
<1>f. PatchFrame => PatchesInv'
  BY FrameKeepsPatches
<1> USE <1>0, NodeHomeAssumption
    DEF TypeOK, PatchFrame, GoTo, MayBegin, Command, processes, pidfiles, memory, accounts
<1>1. ASSUME NEW s \in Starter, StartNode(s)
      PROVE  PatchesInv'
  BY <1>1, <1>f DEF StartNode, FreePids
<1>2. ASSUME NEW s \in Starter, FindConfig(s)
      PROVE  PatchesInv'
  <2>1. (config = NoFile /\ pc'[s] = "open") \/ pc'[s] = "load"
    BY <1>2 DEF FindConfig
  <2>2. /\ config' = config /\ draft' = [draft EXCEPT ![s] = {}]
        /\ \A c \in Setter : pc'[c] = pc[c]
        /\ \A c \in (Starter \cup Setter) \ {s} : pc'[c] = pc[c] /\ draft'[c] = draft[c]
        /\ draft'[s] = {} /\ pc'[s] # "fill" /\ s \notin Setter
    BY <1>2 DEF FindConfig
  <2>3. \A c, d : c \in Setter => (Supersedes(d, c)' <=> Supersedes(d, c))
    BY <2>2 DEF Supersedes
  <2>4. DraftHasPatches'
    BY <2>1, <2>2, <2>3 DEF PatchesInv, DraftHasPatches, PatchedIsOnFile
  <2>5. OnFileIsPatched' /\ PatchedIsOnFile'
    BY <2>2 DEF PatchesInv, OnFileIsPatched, PatchedIsOnFile
  <2>6. PatchesAreKept'
    BY <2>2, <2>3 DEF PatchesInv, PatchesAreKept, PatchedIsOnFile, CanFail
  <2> QED
    BY <2>4, <2>5, <2>6 DEF PatchesInv
<1>3. ASSUME NEW c \in Setter, LoadAndPatch(c)
      PROVE  PatchesInv'
  <2> DEFINE file == IF config = NoFile THEN {} ELSE config
             new == Patched(file, c)
  <2>1. /\ config' = config /\ config # Torn
        /\ \A d \in Starter \cup Setter : d # c => pc'[d] = pc[d] /\ draft'[d] = draft[d]
        /\ pc[c] = "read" /\ pc'[c] = "open"
        /\ draft'[c] = new
    BY <1>3 DEF LoadAndPatch
  <2>2. /\ file \subseteq Setter /\ \A d \in file : pc[d] = "done"
        /\ c \notin file
    BY <1>3, <2>1 DEF PatchesInv, OnFileIsPatched
  <2>3. new \subseteq file \cup {c}
    BY DEF Patched
  <2>4. \A d \in Setter : pc[d] = "done" => c \notin draft[d] /\ d # c /\ pc'[d] = "done"
    BY <2>1 DEF PatchesInv, DraftHasPatches
  <2>5. \A d, e : d \in Setter \ {c} => (Supersedes(e, d)' <=> Supersedes(e, d))
    BY <2>1 DEF Supersedes
  <2>6. \A d \in Setter : pc[d] = "done" /\ env.sets[d] # NoKey =>
                           \E e \in file : pc[e] = "done" /\ Supersedes(e, d)
    BY <2>1 DEF PatchesInv, PatchesAreKept, PatchedIsOnFile
  <2>7. ASSUME NEW d \in Setter, pc'[d] = "done" \/ d = c, env.sets[d] # NoKey
        PROVE  \E e \in new : Supersedes(e, d)'
    <3>1. CASE d = c
      BY <3>1, <2>7 DEF Patched, Supersedes
    <3>2. CASE d # c
      <4>0. pc[d] = "done" /\ c \notin draft[d]
        BY <3>2, <2>1, <2>4, <2>7
      <4>1. PICK e \in file : pc[e] = "done" /\ Supersedes(e, d)
        BY <4>0, <2>6, <2>7
      <4>2. CASE env.sets[e] = env.sets[c]
        <5>1. env.sets[c] # NoKey /\ env.sets[c] = env.sets[d]
          BY <4>1, <4>2, <2>7 DEF Supersedes
        <5> QED
          BY <5>1, <4>0, <3>2, <2>5 DEF Patched, Supersedes
      <4>3. CASE env.sets[e] # env.sets[c]
        BY <4>1, <4>3, <3>2, <2>5 DEF Patched
      <4> QED
        BY <4>2, <4>3
    <3> QED
      BY <3>1, <3>2
  <2>8. \A d \in Starter \cup Setter : pc'[d] \in {"open", "fill"} => d = c
    BY <1>3, <2>1 DEF WorkOneByOne, Working
  <2>9. DraftHasPatches'
    <3>1. \A d \in Starter \cup Setter : \A e \in draft'[d] : e = d \/ pc'[e] = "done"
      BY <2>1, <2>2, <2>3, <2>4 DEF PatchesInv, DraftHasPatches
    <3>2. \A d \in Starter \cup Setter : pc'[d] # "fill"
      BY <2>1, <2>8
    <3> QED
      BY <3>1, <3>2, <2>1, <2>7, <2>8 DEF DraftHasPatches
  <2>10. OnFileIsPatched' /\ PatchedIsOnFile'
    BY <2>1, <2>2 DEF PatchesInv, OnFileIsPatched, PatchedIsOnFile
  <2>11. PatchesAreKept'
    <3>1. SUFFICES ASSUME NEW d \in Setter, pc'[d] = "done", env.sets[d] # NoKey
                   PROVE  \E e \in config : pc'[e] = "done" /\ Supersedes(e, d)'
      BY <2>1 DEF PatchesAreKept
    <3>2. d # c /\ pc[d] = "done"
      BY <3>1, <2>1
    <3>3. config # NoFile
      BY <3>2 DEF PatchesInv, PatchedIsOnFile
    <3> QED
      BY <3>1, <3>2, <3>3, <2>2, <2>4, <2>5, <2>6
  <2> QED
    BY <2>9, <2>10, <2>11 DEF PatchesInv
<1>4. ASSUME NEW c \in Setter, PatchFails(c)
      PROVE  PatchesInv'
  BY <1>4, <1>f DEF PatchFails
<1>5. ASSUME NEW c \in Starter \cup Setter, TruncateConfig(c)
      PROVE  PatchesInv'
  <2>1. /\ config' = Torn /\ draft' = draft /\ pc[c] = "open" /\ pc'[c] = "fill"
        /\ \A d \in Starter \cup Setter : d # c => pc'[d] = pc[d]
    BY <1>5 DEF TruncateConfig
  <2>2. \A d, e : Supersedes(e, d)' <=> Supersedes(e, d)
    BY <2>1 DEF Supersedes
  <2>3. \A d \in Setter : pc'[d] = "done" <=> pc[d] = "done"
    BY <2>1
  <2>4. DraftHasPatches'
    BY <2>1, <2>2, <2>3 DEF PatchesInv, DraftHasPatches
  <2> QED
    BY <2>1, <2>4 DEF PatchesInv, OnFileIsPatched, PatchedIsOnFile, PatchesAreKept
<1>6. ASSUME NEW c \in Starter \cup Setter, FillConfig(c)
      PROVE  PatchesInv'
  <2>1. /\ config' = draft[c] /\ draft[c] \in SUBSET Setter /\ draft[c] \notin {NoFile, Torn}
        /\ draft' = draft /\ pc[c] = "fill"
        /\ \A d \in Starter \cup Setter : d # c => pc'[d] = pc[d]
        /\ pc'[c] = IF c \in Starter THEN "load" ELSE "done"
    BY <1>6 DEF FillConfig, Filled, PatchesInv, DraftHasPatches
  <2>2. \A d, e : Supersedes(e, d)' <=> Supersedes(e, d)
    BY <2>1 DEF Supersedes
  <2>3. \A d \in Starter \cup Setter : pc'[d] \notin {"open", "fill"}
    BY <1>6, <2>1 DEF WorkOneByOne, Working
  <2>4. \A d \in Setter : (pc'[d] = "done" => pc[d] = "done" \/ d = c)
                         /\ (pc[d] = "done" \/ d = c => pc'[d] = "done")
    BY <2>1
  <2>5. DraftHasPatches'
    <3>1. \A d \in Starter \cup Setter : \A e \in draft[d] : e = d \/ pc'[e] = "done"
      BY <2>4 DEF PatchesInv, DraftHasPatches
    <3> QED
      BY <3>1, <2>1, <2>3 DEF DraftHasPatches
  <2>6. OnFileIsPatched' /\ PatchedIsOnFile'
    BY <2>1, <2>4 DEF PatchesInv, DraftHasPatches, OnFileIsPatched, PatchedIsOnFile
  <2>7. PatchesAreKept'
    <3>1. SUFFICES ASSUME NEW d \in Setter, pc'[d] = "done", env.sets[d] # NoKey
                   PROVE  \E e \in draft[c] : pc'[e] = "done" /\ Supersedes(e, d)'
      BY <2>1 DEF PatchesAreKept
    <3>2. PICK e \in draft[c] : Supersedes(e, d)
      BY <3>1, <2>1, <2>4 DEF PatchesInv, DraftHasPatches
    <3>3. pc'[e] = "done"
      BY <3>2, <2>1, <2>4 DEF PatchesInv, DraftHasPatches
    <3> QED
      BY <3>2, <3>3, <2>2
  <2> QED
    BY <2>5, <2>6, <2>7 DEF PatchesInv
<1>7. ASSUME NEW c \in Creator, FindKeystore(c)
      PROVE  PatchesInv'
  BY <1>7, <1>f DEF FindKeystore
<1>8. ASSUME NEW c \in Creator, CreatorGivesUp(c)
      PROVE  PatchesInv'
  BY <1>8, <1>f DEF CreatorGivesUp
<1>9. ASSUME NEW c \in Creator, TruncateKeystore(c)
      PROVE  PatchesInv'
  BY <1>9, <1>f DEF TruncateKeystore
<1>10. ASSUME NEW c \in Creator, FillKeystore(c)
      PROVE  PatchesInv'
  BY <1>10, <1>f DEF FillKeystore, Filled
<1>11. ASSUME NEW s \in Starter, LoadConfig(s)
      PROVE  PatchesInv'
  BY <1>11, <1>f DEF LoadConfig
<1>12. ASSUME NEW s \in Starter, CheckWallet(s)
      PROVE  PatchesInv'
  BY <1>12, <1>f DEF CheckWallet
<1>13. ASSUME NEW s \in Starter, DetectAndUnlock(s)
      PROVE  PatchesInv'
  BY <1>13, <1>f DEF DetectAndUnlock
<1>14. ASSUME NEW s \in Starter, TruncatePid(s)
      PROVE  PatchesInv'
  BY <1>14, <1>f DEF TruncatePid
<1>15. ASSUME NEW s \in Starter, SkipPid(s)
      PROVE  PatchesInv'
  BY <1>15, <1>f DEF SkipPid
<1>16. ASSUME NEW s \in Starter, FillPid(s)
      PROVE  PatchesInv'
  BY <1>16, <1>f DEF FillPid, Filled
<1>17. ASSUME NEW s \in Starter, PeekAndGoLive(s)
      PROVE  PatchesInv'
  BY <1>17, <1>f DEF PeekAndGoLive
<1>18. ASSUME NEW s \in Starter, PeekFails(s)
      PROVE  PatchesInv'
  BY <1>18, <1>f DEF PeekFails
<1>19. ASSUME NEW s \in Starter, RunsDry(s)
      PROVE  PatchesInv'
  BY <1>19, <1>f DEF RunsDry
<1>20. ASSUME NEW s \in Starter, Shutdown(s)
      PROVE  PatchesInv'
  BY <1>20, <1>f DEF Shutdown
<1>21. ASSUME NEW s \in Starter, Interrupt(s)
      PROVE  PatchesInv'
  BY <1>21, <1>f DEF Interrupt, Signalled, Killed
<1>22. ASSUME NEW c \in Command, Crash(c)
      PROVE  PatchesInv'
  <2>1. \A d \in Command : pc'[d] = pc[d] \/ (pc'[d] \in {"died", "failed"} /\ pc[d] # "done")
    <3>1. pc[c] # "done" /\ Killed(pc[c]) \in {"died", "failed"}
      BY <1>22 DEF Crash, Killed, Working, Serving
    <3> QED
      BY <1>22, <3>1 DEF Crash
  <2>2. UNCHANGED <<env, draft, config>>
    BY <1>22 DEF Crash
  <2>3. PatchFrame
    BY <2>1, <2>2
  <2> QED
    BY <2>3, <1>f
<1>23. ASSUME NEW t \in Stopper, BeginCommand(t, "read")
      PROVE  PatchesInv'
  BY <1>23, <1>f DEF BeginCommand
<1>24. ASSUME NEW t \in Stopper, ReadPid(t)
      PROVE  PatchesInv'
  BY <1>24, <1>f DEF ReadPid
<1>25. ASSUME NEW t \in Stopper, ProbePid(t)
      PROVE  PatchesInv'
  BY <1>25, <1>f DEF ProbePid
<1>26. ASSUME NEW t \in Stopper, ClearPid(t)
      PROVE  PatchesInv'
  BY <1>26, <1>f DEF ClearPid
<1>27. ASSUME NEW t \in Stopper, SendStop(t)
      PROVE  PatchesInv'
  <2>1. \A d \in Setter : pc'[d] = pc[d]
    BY <1>27 DEF SendStop, NodeAt
  <2>2. \A d \in Starter : pc'[d] \notin {"open", "fill"} \/ pc'[d] = pc[d]
    BY <1>27 DEF SendStop, Signalled, Killed
  <2> QED
    BY <1>27, <2>1, <2>2, <1>f DEF SendStop
<1>28. ASSUME NEW c \in Creator, BeginCommand(c, "ask")
      PROVE  PatchesInv'
  BY <1>28, <1>f DEF BeginCommand
<1>29. ASSUME NEW c \in Setter, BeginCommand(c, "read")
      PROVE  PatchesInv'
  BY <1>29, <1>f DEF BeginCommand
<1>30. ASSUME NEW p \in Pid, StrangerStarts(p)
      PROVE  PatchesInv'
  BY <1>30, <1>f DEF StrangerStarts
<1>31. CASE UNCHANGED vars
  BY <1>31, <1>f DEF vars
<1> QED
  BY <1>1, <1>2, <1>3, <1>4, <1>5, <1>6, <1>7, <1>8, <1>9, <1>10, <1>11, <1>12, <1>13, <1>14, <1>15, <1>16, <1>17, <1>18, <1>19, <1>20, <1>21, <1>22, <1>23, <1>24, <1>25, <1>26, <1>27, <1>28, <1>29, <1>30, <1>31 DEF Next, StartStep, StopStep, WalletStep, ConfigStep

(* The wallet a node works for.                                            *)
LEMMA NextPayees ==
  ASSUME TypeOK, ~CanFail({"overlap"}), WorkOneByOne, AskedWhenFound,
         SignerIsOnFile, OnlyMadeIsUsed, NodeEarnsForItsOwner, [Next]_vars
  PROVE  SignerIsOnFile' /\ OnlyMadeIsUsed' /\ NodeEarnsForItsOwner'
<1>0. env' = env
  BY DEF Next, vars
<1> USE <1>0, NodeHomeAssumption
    DEF TypeOK, WorkOneByOne, AskedWhenFound, SignerIsOnFile, OnlyMadeIsUsed,
        NodeEarnsForItsOwner, Wallet, CanFail, GoTo, MayBegin, Command, Working,
        Serving, IsUp, NodeAt, IsAlive, processes, pidfiles, memory, accounts
<1>1. ASSUME NEW s \in Starter, StartNode(s)
      PROVE  SignerIsOnFile' /\ OnlyMadeIsUsed' /\ NodeEarnsForItsOwner'
  BY <1>1 DEF StartNode, FreePids
<1>2. ASSUME NEW s \in Starter, FindConfig(s)
      PROVE  SignerIsOnFile' /\ OnlyMadeIsUsed' /\ NodeEarnsForItsOwner'
  BY <1>2 DEF FindConfig
<1>3. ASSUME NEW c \in Setter, LoadAndPatch(c)
      PROVE  SignerIsOnFile' /\ OnlyMadeIsUsed' /\ NodeEarnsForItsOwner'
  BY <1>3 DEF LoadAndPatch
<1>4. ASSUME NEW c \in Setter, PatchFails(c)
      PROVE  SignerIsOnFile' /\ OnlyMadeIsUsed' /\ NodeEarnsForItsOwner'
  BY <1>4 DEF PatchFails
<1>5. ASSUME NEW c \in Starter \cup Setter, TruncateConfig(c)
      PROVE  SignerIsOnFile' /\ OnlyMadeIsUsed' /\ NodeEarnsForItsOwner'
  BY <1>5 DEF TruncateConfig
<1>6. ASSUME NEW c \in Starter \cup Setter, FillConfig(c)
      PROVE  SignerIsOnFile' /\ OnlyMadeIsUsed' /\ NodeEarnsForItsOwner'
  BY <1>6 DEF FillConfig, Filled
<1>7. ASSUME NEW c \in Creator, FindKeystore(c)
      PROVE  SignerIsOnFile' /\ OnlyMadeIsUsed' /\ NodeEarnsForItsOwner'
  BY <1>7 DEF FindKeystore
<1>8. ASSUME NEW c \in Creator, CreatorGivesUp(c)
      PROVE  SignerIsOnFile' /\ OnlyMadeIsUsed' /\ NodeEarnsForItsOwner'
  BY <1>8 DEF CreatorGivesUp
<1>9. ASSUME NEW c \in Creator, TruncateKeystore(c)
      PROVE  SignerIsOnFile' /\ OnlyMadeIsUsed' /\ NodeEarnsForItsOwner'
  <2>1. /\ pc[c] = "open" /\ pc' = [pc EXCEPT ![c] = "fill"] /\ keystore' = Torn
        /\ UNCHANGED <<signer, payee, asked>>
    BY <1>9 DEF TruncateKeystore
  <2>2. SignerIsOnFile' /\ OnlyMadeIsUsed'
    BY <2>1
  <2>3. ASSUME NEW s \in Starter, pc[s] \in Serving
        PROVE  payee[s] = Torn \/ \E d \in asked \ {payee[s]} : pc'[d] # "open"
    <3>1. payee[s] # c
      BY <2>1
    <3>2. CASE payee[s] = keystore
      <4>1. c \in asked
        BY <2>1, <2>3
      <4> QED
        BY <2>1, <3>1, <3>2, <4>1
    <3>3. CASE payee[s] # keystore
      BY <2>1, <2>3, <3>3
    <3> QED
      BY <3>2, <3>3
  <2> QED
    BY <2>1, <2>2, <2>3
<1>10. ASSUME NEW c \in Creator, FillKeystore(c)
      PROVE  SignerIsOnFile' /\ OnlyMadeIsUsed' /\ NodeEarnsForItsOwner'
  BY <1>10 DEF FillKeystore, Filled
<1>11. ASSUME NEW s \in Starter, LoadConfig(s)
      PROVE  SignerIsOnFile' /\ OnlyMadeIsUsed' /\ NodeEarnsForItsOwner'
  BY <1>11 DEF LoadConfig
<1>12. ASSUME NEW s \in Starter, CheckWallet(s)
      PROVE  SignerIsOnFile' /\ OnlyMadeIsUsed' /\ NodeEarnsForItsOwner'
  BY <1>12 DEF CheckWallet
<1>13. ASSUME NEW s \in Starter, DetectAndUnlock(s)
      PROVE  SignerIsOnFile' /\ OnlyMadeIsUsed' /\ NodeEarnsForItsOwner'
  BY <1>13 DEF DetectAndUnlock
<1>14. ASSUME NEW s \in Starter, TruncatePid(s)
      PROVE  SignerIsOnFile' /\ OnlyMadeIsUsed' /\ NodeEarnsForItsOwner'
  BY <1>14 DEF TruncatePid
<1>15. ASSUME NEW s \in Starter, SkipPid(s)
      PROVE  SignerIsOnFile' /\ OnlyMadeIsUsed' /\ NodeEarnsForItsOwner'
  BY <1>15 DEF SkipPid
<1>16. ASSUME NEW s \in Starter, FillPid(s)
      PROVE  SignerIsOnFile' /\ OnlyMadeIsUsed' /\ NodeEarnsForItsOwner'
  BY <1>16 DEF FillPid, Filled
<1>17. ASSUME NEW s \in Starter, PeekAndGoLive(s)
      PROVE  SignerIsOnFile' /\ OnlyMadeIsUsed' /\ NodeEarnsForItsOwner'
  BY <1>17 DEF PeekAndGoLive
<1>18. ASSUME NEW s \in Starter, PeekFails(s)
      PROVE  SignerIsOnFile' /\ OnlyMadeIsUsed' /\ NodeEarnsForItsOwner'
  BY <1>18 DEF PeekFails
<1>19. ASSUME NEW s \in Starter, RunsDry(s)
      PROVE  SignerIsOnFile' /\ OnlyMadeIsUsed' /\ NodeEarnsForItsOwner'
  BY <1>19 DEF RunsDry
<1>20. ASSUME NEW s \in Starter, Shutdown(s)
      PROVE  SignerIsOnFile' /\ OnlyMadeIsUsed' /\ NodeEarnsForItsOwner'
  BY <1>20 DEF Shutdown
<1>21. ASSUME NEW s \in Starter, Interrupt(s)
      PROVE  SignerIsOnFile' /\ OnlyMadeIsUsed' /\ NodeEarnsForItsOwner'
  BY <1>21 DEF Interrupt, Signalled, Killed
<1>22. ASSUME NEW c \in Command, Crash(c)
      PROVE  SignerIsOnFile' /\ OnlyMadeIsUsed' /\ NodeEarnsForItsOwner'
  BY <1>22 DEF Crash, Killed
<1>23. ASSUME NEW t \in Stopper, BeginCommand(t, "read")
      PROVE  SignerIsOnFile' /\ OnlyMadeIsUsed' /\ NodeEarnsForItsOwner'
  BY <1>23 DEF BeginCommand
<1>24. ASSUME NEW t \in Stopper, ReadPid(t)
      PROVE  SignerIsOnFile' /\ OnlyMadeIsUsed' /\ NodeEarnsForItsOwner'
  BY <1>24 DEF ReadPid
<1>25. ASSUME NEW t \in Stopper, ProbePid(t)
      PROVE  SignerIsOnFile' /\ OnlyMadeIsUsed' /\ NodeEarnsForItsOwner'
  BY <1>25 DEF ProbePid
<1>26. ASSUME NEW t \in Stopper, ClearPid(t)
      PROVE  SignerIsOnFile' /\ OnlyMadeIsUsed' /\ NodeEarnsForItsOwner'
  BY <1>26 DEF ClearPid
<1>27. ASSUME NEW t \in Stopper, SendStop(t)
      PROVE  SignerIsOnFile' /\ OnlyMadeIsUsed' /\ NodeEarnsForItsOwner'
  BY <1>27 DEF SendStop, Signalled, Killed
<1>28. ASSUME NEW c \in Creator, BeginCommand(c, "ask")
      PROVE  SignerIsOnFile' /\ OnlyMadeIsUsed' /\ NodeEarnsForItsOwner'
  BY <1>28 DEF BeginCommand
<1>29. ASSUME NEW c \in Setter, BeginCommand(c, "read")
      PROVE  SignerIsOnFile' /\ OnlyMadeIsUsed' /\ NodeEarnsForItsOwner'
  BY <1>29 DEF BeginCommand
<1>30. ASSUME NEW p \in Pid, StrangerStarts(p)
      PROVE  SignerIsOnFile' /\ OnlyMadeIsUsed' /\ NodeEarnsForItsOwner'
  BY <1>30 DEF StrangerStarts
<1>31. CASE UNCHANGED vars
  BY <1>31 DEF vars
<1> QED
  BY <1>1, <1>2, <1>3, <1>4, <1>5, <1>6, <1>7, <1>8, <1>9, <1>10, <1>11, <1>12, <1>13, <1>14, <1>15, <1>16, <1>17, <1>18, <1>19, <1>20, <1>21, <1>22, <1>23, <1>24, <1>25, <1>26, <1>27, <1>28, <1>29, <1>30, <1>31 DEF Next, StartStep, StopStep, WalletStep, ConfigStep

-----------------------------------------------------------------------------
(* The inductive invariant and what follows from it                        *)

LEMMA InitNodeInv == Init => NodeInv
BY NodeHomeAssumption, InitTypes
DEF Init, NodeInv, StartedHasPid, OnlyBackgroundNames, PidfileNamesANode, PidfileIsRight,
    OneAtATime, WorkOneByOne, WriterHoldsFile, NamedByFile, StopSeesTheNode, IsUp,
    Working, Serving, Command

LEMMA NextNodeInv == NodeInv /\ [Next]_vars => NodeInv'
<1> SUFFICES ASSUME NodeInv, [Next]_vars
             PROVE  NodeInv'
  OBVIOUS
<1>1. TypeOK' /\ StartedHasPid' /\ OnlyBackgroundNames'
  BY NextTypeOK, NextStarted DEF NodeInv
<1>2. PidfileNamesANode'
  BY NextNames DEF NodeInv
<1>3. Patient' <=> Patient
  BY DEF Next, vars, Patient, CanFail
<1>4. ASSUME Patient
      PROVE  PidfileIsRight'
  BY <1>4, NextPatient DEF NodeInv
<1> QED
  BY <1>1, <1>2, <1>3, <1>4 DEF NodeInv

LEMMA InitFilesInv == Init => FilesInv
BY NodeHomeAssumption
DEF Init, FilesInv, WorkOneByOne, AskedWhenFound, DraftHasPatches, OnFileIsPatched, PatchedIsOnFile,
    WalletsAreKept, PatchesAreKept, MadeWallets, SignerIsOnFile, OnlyMadeIsUsed,
    NodeEarnsForItsOwner, Wallet, Working, Serving, Command

LEMMA NextFilesInv == TypeOK /\ FilesInv /\ [Next]_vars => FilesInv'
<1> SUFFICES ASSUME TypeOK, FilesInv, [Next]_vars
             PROVE  FilesInv'
  OBVIOUS
<1>1. CanFail({"overlap"})' <=> CanFail({"overlap"})
  BY DEF Next, vars, CanFail
<1>2. CASE CanFail({"overlap"})
  BY <1>1, <1>2 DEF FilesInv
<1>3. CASE ~CanFail({"overlap"})
  BY <1>1, <1>3, NextWork, NextWallets, NextPatches, NextPayees DEF FilesInv, PatchesInv
<1> QED
  BY <1>2, <1>3

LEMMA Invariance == Spec => [](NodeInv /\ FilesInv)
<1>1. Init => NodeInv /\ FilesInv
  BY InitNodeInv, InitFilesInv
<1>2. NodeInv /\ FilesInv /\ [Next]_vars => (NodeInv /\ FilesInv)'
  BY NextNodeInv, NextFilesInv DEF NodeInv
<1> QED
  BY <1>1, <1>2, PTL DEF Spec

(* Every variable keeps its type, whatever commands overlap, die or read.  *)
THEOREM TypeCorrect == Spec => []TypeOK
<1>1. NodeInv => TypeOK
  BY DEF NodeInv
<1> QED
  BY <1>1, Invariance, PTL

(* The inductive invariant of the pidfile (start.ts, stop.ts, pid.ts).     *)
THEOREM NodeInvariant == Spec => []NodeInv
BY Invariance, PTL

(* The pidfile never names a node that shut down or has not come up yet    *)
(* (README.md:362), however many nodes and stops interleave.               *)
THEOREM PidfileIsTruthful == Spec => []PidfileNamesANode
<1>1. NodeInv => PidfileNamesANode
  BY DEF NodeInv
<1> QED
  BY <1>1, NodeInvariant, PTL

(* A patient owner finds every live node through the pidfile, after any    *)
(* number of nodes that crashed, ran dry or were stopped before it.        *)
THEOREM LiveNodeIsFound == Spec => []LiveNodeIsFindable
<1>1. NodeInv => LiveNodeIsFindable
  BY DEF NodeInv, LiveNodeIsFindable, PidfileIsRight, NamedByFile
<1> QED
  BY <1>1, NodeInvariant, PTL

(* The inductive invariant of keystore and configuration.                  *)
THEOREM FilesInvariant == Spec => []FilesInv
BY Invariance, PTL

(* No wallet leaves the disk unasked (README.md:370), for any number of    *)
(* wallet commands one after the other, interrupted or not.                *)
THEOREM WalletsStay == Spec => []WalletsAreKept
<1>1. FilesInv => WalletsAreKept
  BY DEF FilesInv, WalletsAreKept
<1> QED
  BY <1>1, FilesInvariant, PTL

(* One command at a time, every node signs and earns with the wallet its   *)
(* owner has on file, or was asked to give up (start.ts 60-94).            *)
THEOREM EarningsGoToTheOwner == Spec => []NodeEarnsForItsOwner
<1>1. FilesInv => NodeEarnsForItsOwner
  BY DEF FilesInv, NodeEarnsForItsOwner
<1> QED
  BY <1>1, FilesInvariant, PTL

(* An acknowledged patch stays in the configuration (config.ts 78-83), for *)
(* any number of patches and starts one after the other.                   *)
THEOREM PatchesStay == Spec => []PatchesAreKept
<1>1. FilesInv => PatchesAreKept
  BY DEF FilesInv, PatchesAreKept
<1> QED
  BY <1>1, FilesInvariant, PTL
-----------------------------------------------------------------------------
(* Whom `stop` may signal                                                  *)

(* What a file or a `stop` takes for a process id was given to a node.     *)
IsOfANode(p) ==
  p \in Pid => \E s \in Starter : pc[s] # "idle" /\ pid[s] = p

(* Where ids are neither reused nor mixed: what the pidfile names and what *)
(* a `stop` has read are ids of nodes, which no other program ever holds.  *)
OnlyNodesAreNamed ==
  /\ IsOfANode(pidfile)
  /\ \A t \in Stopper : IsOfANode(target[t])
  /\ \A s \in Starter : pc[s] # "idle" => pid[s] \notin strangers
  /\ hit = {}

PidStep ==
  \/ \E s \in Starter : StartNode(s) \/ TruncatePid(s) \/ FillPid(s) \/ Shutdown(s)
  \/ \E t \in Stopper : ReadPid(t) \/ ClearPid(t) \/ SendStop(t)
  \/ \E p \in Pid : StrangerStarts(p)

OtherStep ==
  /\ UNCHANGED <<pid, strangers, hit, pidfile, target>>
  /\ \A s \in Starter : pc[s] = "idle" <=> pc'[s] = "idle"

(* Every other step leaves ids alone.                                      *)
LEMMA PidStepOrOther == TypeOK /\ [Next]_vars => PidStep \/ OtherStep
<1> SUFFICES ASSUME TypeOK, [Next]_vars
             PROVE  PidStep \/ OtherStep
  OBVIOUS
<1> USE NodeHomeAssumption
    DEF TypeOK, OtherStep, GoTo, MayBegin, Command, Working, Serving, Ended, IsUp,
        processes, pidfiles, memory, accounts
<1>1. ASSUME NEW s \in Starter,
             StartStep(s) \/ RunsDry(s) \/ Interrupt(s)
      PROVE  PidStep \/ OtherStep
  <2>1. CASE FindConfig(s) \/ TruncateConfig(s) \/ FillConfig(s) \/ LoadConfig(s)
    BY <2>1 DEF FindConfig, TruncateConfig, FillConfig, LoadConfig
  <2>2. CASE CheckWallet(s) \/ DetectAndUnlock(s) \/ SkipPid(s)
    BY <2>2 DEF CheckWallet, DetectAndUnlock, SkipPid
  <2>3. CASE PeekAndGoLive(s) \/ PeekFails(s) \/ RunsDry(s)
    BY <2>3 DEF PeekAndGoLive, PeekFails, RunsDry
  <2>4. CASE Interrupt(s)
    BY <2>4 DEF Interrupt, Signalled, Killed
  <2> QED
    BY <1>1, <2>1, <2>2, <2>3, <2>4 DEF StartStep, PidStep
<1>2. ASSUME NEW t \in Stopper, BeginCommand(t, "read") \/ ProbePid(t)
      PROVE  OtherStep
  BY <1>2 DEF BeginCommand, ProbePid
<1>3. ASSUME NEW c \in Creator,
             BeginCommand(c, "ask") \/ WalletStep(c) \/ CreatorGivesUp(c)
      PROVE  OtherStep
  BY <1>3 DEF BeginCommand, WalletStep, FindKeystore, TruncateKeystore, FillKeystore,
              CreatorGivesUp
<1>4. ASSUME NEW c \in Setter, BeginCommand(c, "read") \/ ConfigStep(c)
      PROVE  OtherStep
  BY <1>4 DEF BeginCommand, ConfigStep, LoadAndPatch, PatchFails, TruncateConfig,
              FillConfig
<1>5. ASSUME NEW c \in Command, Crash(c)
      PROVE  OtherStep
  BY <1>5 DEF Crash, Killed
<1>6. CASE UNCHANGED vars
  BY <1>6 DEF vars
<1> QED
  BY <1>1, <1>2, <1>3, <1>4, <1>5, <1>6 DEF Next, StopStep, PidStep

LEMMA NextNamesNodes ==
  /\ TypeOK /\ StartedHasPid /\ OnlyNodesAreNamed
  /\ ~CanFail({"reuse", "digits"})
  /\ [Next]_vars
  => OnlyNodesAreNamed'
<1> SUFFICES ASSUME TypeOK, StartedHasPid, OnlyNodesAreNamed,
                    ~CanFail({"reuse", "digits"}), [Next]_vars
             PROVE  OnlyNodesAreNamed'
  OBVIOUS
<1> USE NodeHomeAssumption
    DEF TypeOK, OnlyNodesAreNamed, IsOfANode, GoTo, Command, processes, pidfiles,
        memory, accounts
<1>1. ASSUME NEW s \in Starter, StartNode(s)
      PROVE  OnlyNodesAreNamed'
  BY <1>1 DEF StartNode, FreePids, MayBegin
<1>2. ASSUME NEW s \in Starter, TruncatePid(s) \/ Shutdown(s)
      PROVE  OnlyNodesAreNamed'
  BY <1>2 DEF TruncatePid, Shutdown
<1>3. ASSUME NEW s \in Starter, FillPid(s)
      PROVE  OnlyNodesAreNamed'
  <2>1. pidfile' = pidfile \/ pidfile' = pid[s]
    BY <1>3 DEF FillPid, Filled, CanFail
  <2> QED
    BY <1>3, <2>1 DEF FillPid
<1>4. ASSUME NEW t \in Stopper, ReadPid(t) \/ ClearPid(t)
      PROVE  OnlyNodesAreNamed'
  BY <1>4 DEF ReadPid, ClearPid
<1>5. ASSUME NEW t \in Stopper, SendStop(t)
      PROVE  OnlyNodesAreNamed'
  <2>1. target[t] \notin strangers
    OBVIOUS
  <2>2. \A s \in Starter : pc[s] = "idle" <=> pc'[s] = "idle"
    BY <1>5 DEF SendStop, Signalled, Killed, NodeAt, IsUp, Working, Serving
  <2> QED
    BY <1>5, <2>1, <2>2 DEF SendStop
<1>6. ~\E p \in Pid : StrangerStarts(p)
  BY DEF StrangerStarts, CanFail
<1>7. CASE OtherStep
  BY <1>7 DEF OtherStep
<1> QED
  BY <1>1, <1>2, <1>3, <1>4, <1>5, <1>6, <1>7, PidStepOrOther DEF PidStep

(* `stop` signals no unrelated program, although its probe does not ask    *)
(* who holds the id (stop.ts 12-22), unless an id is reused or two starts  *)
(* mix the digits of theirs in the pidfile (pid.ts 6-26).                  *)
THEOREM StopSignalsOnlyNodes == Spec => [](~CanFail({"reuse", "digits"}) => StopSparesStrangers)
<1> DEFINE Inv == ~CanFail({"reuse", "digits"}) => OnlyNodesAreNamed
<1>1. Init => Inv
  BY NodeHomeAssumption DEF Init, OnlyNodesAreNamed, IsOfANode, Command
<1>2. NodeInv /\ Inv /\ [Next]_vars => Inv'
  <2>1. [Next]_vars => env' = env
    BY DEF Next, vars
  <2> QED
    BY <2>1, NextNamesNodes DEF CanFail, NodeInv
<1>3. Inv => (~CanFail({"reuse", "digits"}) => StopSparesStrangers)
  BY DEF StopSparesStrangers, OnlyNodesAreNamed
<1> HIDE DEF Inv
<1> QED
  BY <1>1, <1>2, <1>3, NodeInvariant, PTL DEF Spec
=============================================================================

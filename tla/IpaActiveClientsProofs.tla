----------------------- MODULE IpaActiveClientsProofs -----------------------
(***************************************************************************)
(* Proofs about the IPA clock vote, for any finite number of users.        *)
(***************************************************************************)
EXTENDS IpaActiveClients, FiniteSetTheorems, TLAPS

\* The steps a context can take in the vote code, whoever it is; the steps of
\* the interrupt and of the worker; and those of clock scaling.
ContextStep(p) ==
    \/ IncThread(p) \/ IncMutex(p) \/ EnableBus(p) \/ EnableClk(p)
    \/ EnableVote(p) \/ ResumePipes(p) \/ IncLast(p) \/ IncNoBlock(p)
    \/ SendQueue(p) \/ SendFlag(p) \/ DecThread(p) \/ DecEnter(p)
    \/ DecFast(p) \/ DecCoal(p) \/ DecClear(p) \/ DecMutex(p)
    \/ DecSub(p) \/ SuspendPipes(p) \/ SuspendBusy(p) \/ GateVote(p)
    \/ GateClk(p) \/ GateBus(p) \/ DecNoBlock(p) \/ DecNoBlockQueue(p)

QueueStep ==
    \/ IsrDefer \/ WorkTag \/ TagSend \/ TagFail \/ TagClear
    \/ WorkDefer \/ DecDelayWq \/ \E w \in Works : WorkDec(w)

\* Every step of the system is one of these.
LEMMA NextCases ==
    ASSUME Next
    PROVE  \/ \E p \in Procs : ContextStep(p)
           \/ QueueStep
           \/ \E s \in Scalers : ScalerStep(s)
<1>1. Threads \subseteq Procs /\ Isr \in Procs /\ Wq \in Procs
  BY DEF Procs
<1>2. ASSUME NEW p PROVE IncStep(p) \/ DecStep(p) \/ Suspend(p) => ContextStep(p)
  BY DEF IncStep, DecStep, Suspend, ContextStep
<1>3. \A t : ThreadStep(t) => ContextStep(t)
  BY <1>2 DEF ThreadStep, ContextStep
<1>4. IsrStep => ContextStep(Isr) \/ QueueStep
  BY DEF IsrStep, ContextStep, QueueStep
<1>5. WqStep => ContextStep(Wq) \/ QueueStep
  BY <1>2 DEF WqStep, ContextStep, QueueStep
<1> QED
  BY <1>1, <1>3, <1>4, <1>5 DEF Next

-----------------------------------------------------------------------------
(* Types.                                                                  *)

\* The initial state is typed.
LEMMA InitType == Init => TypeOK
<1> SUFFICES ASSUME Init PROVE TypeOK
  OBVIOUS
<1>1. pc \in [Procs -> PCs]
  BY DEF Init, PCs, OwnerPcs
<1>2. want \in [Scalers -> Levels]
  BY LevelsAssumption DEF Init
<1>3. tag \in BOOLEAN /\ dirty \in BOOLEAN /\ pipesOn \in BOOLEAN
  BY DEF Init
<1>4. cnt \in Int /\ mutex \in Procs \union {NoProc} /\ pending \subseteq Works
  BY DEF Init
<1>5. /\ clkVote \in {0, 1} /\ clkRate \in Levels \union {0}
      /\ busVote \in Levels \union {0} /\ curVote \in Levels \union {0}
      /\ currRate \in Levels
  BY LevelsAssumption DEF Init
<1> QED
  BY <1>1, <1>2, <1>3, <1>4, <1>5 DEF TypeOK

\* A step of any action keeps every variable in its type.
LEMMA TypeStep == TypeOK /\ [Next]_vars => TypeOK'
<1> SUFFICES ASSUME TypeOK, [Next]_vars PROVE TypeOK'
  OBVIOUS
<1> USE ProcsAssumption, LevelsAssumption, FlagsAssumption
    DEF Procs, TypeOK, Goto, PCs, OwnerPcs, ZeroPcs, EnablePcs, GatePcs, PlanPcs,
        Works, hw, rate
<1>1. ASSUME NEW p \in Procs, IncThread(p) PROVE TypeOK'
  BY <1>1 DEF IncThread, IncFast, Granted
<1>2. ASSUME NEW p \in Procs, IncMutex(p) PROVE TypeOK'
  BY <1>2 DEF IncMutex, Granted
<1>3. ASSUME NEW p \in Procs, EnableBus(p) PROVE TypeOK'
  BY <1>3 DEF EnableBus
<1>4. ASSUME NEW p \in Procs, EnableClk(p) PROVE TypeOK'
  BY <1>4 DEF EnableClk
<1>5. ASSUME NEW p \in Procs, EnableVote(p) PROVE TypeOK'
  BY <1>5 DEF EnableVote
<1>6. ASSUME NEW p \in Procs, ResumePipes(p) PROVE TypeOK'
  BY <1>6 DEF ResumePipes
<1>7. ASSUME NEW p \in Procs, IncLast(p) PROVE TypeOK'
  BY <1>7 DEF IncLast, Granted
<1>8. ASSUME NEW p \in Procs, IncNoBlock(p) PROVE TypeOK'
  BY <1>8 DEF IncNoBlock
<1>9. ASSUME NEW p \in Procs, SendQueue(p) PROVE TypeOK'
  BY <1>9 DEF SendQueue
<1>10. ASSUME NEW p \in Procs, SendFlag(p) PROVE TypeOK'
  BY <1>10 DEF SendFlag
<1>11. ASSUME NEW p \in Procs, DecThread(p) PROVE TypeOK'
  BY <1>11 DEF DecThread
<1>12. ASSUME NEW p \in Procs, DecEnter(p) PROVE TypeOK'
  BY <1>12 DEF DecEnter
<1>13. ASSUME NEW p \in Procs, DecFast(p) PROVE TypeOK'
  BY <1>13 DEF DecFast
<1>14. ASSUME NEW p \in Procs, DecCoal(p) PROVE TypeOK'
  BY <1>14 DEF DecCoal
<1>15. ASSUME NEW p \in Procs, DecClear(p) PROVE TypeOK'
  BY <1>15 DEF DecClear
<1>16. ASSUME NEW p \in Procs, DecMutex(p) PROVE TypeOK'
  BY <1>16 DEF DecMutex
<1>17. ASSUME NEW p \in Procs, DecSub(p) PROVE TypeOK'
  BY <1>17 DEF DecSub
<1>18. ASSUME NEW p \in Procs, SuspendPipes(p) PROVE TypeOK'
  BY <1>18 DEF SuspendPipes
<1>19. ASSUME NEW p \in Procs, SuspendBusy(p) PROVE TypeOK'
  BY <1>19 DEF SuspendBusy
<1>20. ASSUME NEW p \in Procs, GateVote(p) PROVE TypeOK'
  BY <1>20 DEF GateVote
<1>21. ASSUME NEW p \in Procs, GateClk(p) PROVE TypeOK'
  BY <1>21 DEF GateClk
<1>22. ASSUME NEW p \in Procs, GateBus(p) PROVE TypeOK'
  BY <1>22 DEF GateBus
<1>23. ASSUME NEW p \in Procs, DecNoBlock(p) PROVE TypeOK'
  BY <1>23 DEF DecNoBlock
<1>24. ASSUME NEW p \in Procs, DecNoBlockQueue(p) PROVE TypeOK'
  BY <1>24 DEF DecNoBlockQueue
<1>25. ASSUME IsrDefer PROVE TypeOK'
  BY <1>25 DEF IsrDefer
<1>26. ASSUME WorkTag PROVE TypeOK'
  BY <1>26 DEF WorkTag
<1>27. ASSUME TagSend PROVE TypeOK'
  BY <1>27 DEF TagSend
<1>28. ASSUME TagFail PROVE TypeOK'
  BY <1>28 DEF TagFail
<1>29. ASSUME TagClear PROVE TypeOK'
  BY <1>29 DEF TagClear
<1>30. ASSUME WorkDefer PROVE TypeOK'
  BY <1>30 DEF WorkDefer, IncFast, Granted
<1>31. ASSUME DecDelayWq PROVE TypeOK'
  <2>1. pending' \subseteq Works /\ pc' \in [Procs -> PCs]
    BY <1>31 DEF DecDelayWq
  <2> QED
    BY <1>31, <2>1 DEF DecDelayWq
<1>32. ASSUME NEW w \in Works, WorkDec(w) PROVE TypeOK'
  BY <1>32 DEF WorkDec
<1>33. ASSUME NEW s \in Scalers, NEW lvl \in Levels, DoClkScaling(s, lvl) PROVE TypeOK'
  BY <1>33 DEF DoClkScaling
<1>34. ASSUME NEW s \in Scalers, NEW f \in Floors, NEW bw \in Levels,
            SetRequiredPerfProfile(s, f, bw) PROVE TypeOK'
  BY <1>34 DEF SetRequiredPerfProfile
<1>35. ASSUME NEW s \in Scalers, ScaleCmp(s) PROVE TypeOK'
  BY <1>35 DEF ScaleCmp
<1>36. ASSUME NEW s \in Scalers, PlanCheck(s) PROVE TypeOK'
  BY <1>36 DEF PlanCheck
<1>37. ASSUME NEW s \in Scalers, PlanMutex(s) PROVE TypeOK'
  <2>1. clkRate' \in Levels \union {0} /\ busVote' \in Levels \union {0}
    BY <1>37 DEF PlanMutex
  <2> QED
    BY <1>37, <2>1 DEF PlanMutex
<1>38. CASE UNCHANGED vars
  BY <1>38 DEF vars
<1> QED
  BY NextCases, <1>1, <1>2, <1>3, <1>4, <1>5, <1>6, <1>7, <1>8, <1>9, <1>10,
     <1>11, <1>12, <1>13, <1>14, <1>15, <1>16, <1>17, <1>18, <1>19, <1>20,
     <1>21, <1>22, <1>23, <1>24, <1>25, <1>26, <1>27, <1>28, <1>29, <1>30,
     <1>31, <1>32, <1>33, <1>34, <1>35, <1>36, <1>37, <1>38 DEF ContextStep,
     QueueStep, ScalerStep

-----------------------------------------------------------------------------
(* The mutex.                                                              *)

\* One context at a time is between mutex_lock and mutex_unlock.
LEMMA MutexStep == TypeOK /\ MutexInv /\ [Next]_vars => MutexInv'
<1> SUFFICES ASSUME TypeOK, MutexInv, [Next]_vars PROVE MutexInv'
  OBVIOUS
<1> USE ProcsAssumption
    DEF Procs, TypeOK, MutexInv, Goto, MutexPcs, ZeroPcs, EnablePcs, GatePcs
<1>1. ASSUME NEW p \in Procs, IncThread(p) PROVE MutexInv'
  BY <1>1 DEF IncThread, IncFast, Granted
<1>2. ASSUME NEW p \in Procs, IncMutex(p) PROVE MutexInv'
  BY <1>2 DEF IncMutex, Granted
<1>3. ASSUME NEW p \in Procs, EnableBus(p) PROVE MutexInv'
  BY <1>3 DEF EnableBus
<1>4. ASSUME NEW p \in Procs, EnableClk(p) PROVE MutexInv'
  BY <1>4 DEF EnableClk
<1>5. ASSUME NEW p \in Procs, EnableVote(p) PROVE MutexInv'
  BY <1>5 DEF EnableVote
<1>6. ASSUME NEW p \in Procs, ResumePipes(p) PROVE MutexInv'
  BY <1>6 DEF ResumePipes
<1>7. ASSUME NEW p \in Procs, IncLast(p) PROVE MutexInv'
  BY <1>7 DEF IncLast, Granted
<1>8. ASSUME NEW p \in Procs, IncNoBlock(p) PROVE MutexInv'
  BY <1>8 DEF IncNoBlock
<1>9. ASSUME NEW p \in Procs, SendQueue(p) PROVE MutexInv'
  BY <1>9 DEF SendQueue
<1>10. ASSUME NEW p \in Procs, SendFlag(p) PROVE MutexInv'
  BY <1>10 DEF SendFlag
<1>11. ASSUME NEW p \in Procs, DecThread(p) PROVE MutexInv'
  BY <1>11 DEF DecThread
<1>12. ASSUME NEW p \in Procs, DecEnter(p) PROVE MutexInv'
  BY <1>12 DEF DecEnter
<1>13. ASSUME NEW p \in Procs, DecFast(p) PROVE MutexInv'
  BY <1>13 DEF DecFast
<1>14. ASSUME NEW p \in Procs, DecCoal(p) PROVE MutexInv'
  BY <1>14 DEF DecCoal
<1>15. ASSUME NEW p \in Procs, DecClear(p) PROVE MutexInv'
  BY <1>15 DEF DecClear
<1>16. ASSUME NEW p \in Procs, DecMutex(p) PROVE MutexInv'
  BY <1>16 DEF DecMutex
<1>17. ASSUME NEW p \in Procs, DecSub(p) PROVE MutexInv'
  BY <1>17 DEF DecSub
<1>18. ASSUME NEW p \in Procs, SuspendPipes(p) PROVE MutexInv'
  BY <1>18 DEF SuspendPipes
<1>19. ASSUME NEW p \in Procs, SuspendBusy(p) PROVE MutexInv'
  BY <1>19 DEF SuspendBusy
<1>20. ASSUME NEW p \in Procs, GateVote(p) PROVE MutexInv'
  BY <1>20 DEF GateVote
<1>21. ASSUME NEW p \in Procs, GateClk(p) PROVE MutexInv'
  BY <1>21 DEF GateClk
<1>22. ASSUME NEW p \in Procs, GateBus(p) PROVE MutexInv'
  BY <1>22 DEF GateBus
<1>23. ASSUME NEW p \in Procs, DecNoBlock(p) PROVE MutexInv'
  BY <1>23 DEF DecNoBlock
<1>24. ASSUME NEW p \in Procs, DecNoBlockQueue(p) PROVE MutexInv'
  BY <1>24 DEF DecNoBlockQueue
<1>25. ASSUME IsrDefer PROVE MutexInv'
  BY <1>25 DEF IsrDefer
<1>26. ASSUME WorkTag PROVE MutexInv'
  BY <1>26 DEF WorkTag
<1>27. ASSUME TagSend PROVE MutexInv'
  BY <1>27 DEF TagSend
<1>28. ASSUME TagFail PROVE MutexInv'
  BY <1>28 DEF TagFail
<1>29. ASSUME TagClear PROVE MutexInv'
  BY <1>29 DEF TagClear
<1>30. ASSUME WorkDefer PROVE MutexInv'
  BY <1>30 DEF WorkDefer, IncFast, Granted
<1>31. ASSUME DecDelayWq PROVE MutexInv'
  BY <1>31 DEF DecDelayWq
<1>32. ASSUME NEW w \in Works, WorkDec(w) PROVE MutexInv'
  BY <1>32 DEF WorkDec
<1>33. ASSUME NEW s \in Scalers, NEW lvl \in Levels, DoClkScaling(s, lvl) PROVE MutexInv'
  BY <1>33 DEF DoClkScaling
<1>34. ASSUME NEW s \in Scalers, NEW f \in Floors, NEW bw \in Levels,
            SetRequiredPerfProfile(s, f, bw) PROVE MutexInv'
  BY <1>34 DEF SetRequiredPerfProfile
<1>35. ASSUME NEW s \in Scalers, ScaleCmp(s) PROVE MutexInv'
  BY <1>35 DEF ScaleCmp
<1>36. ASSUME NEW s \in Scalers, PlanCheck(s) PROVE MutexInv'
  BY <1>36 DEF PlanCheck
<1>37. ASSUME NEW s \in Scalers, PlanMutex(s) PROVE MutexInv'
  BY <1>37 DEF PlanMutex
<1>38. CASE UNCHANGED vars
  BY <1>38 DEF vars
<1> QED
  BY NextCases, <1>1, <1>2, <1>3, <1>4, <1>5, <1>6, <1>7, <1>8, <1>9, <1>10,
     <1>11, <1>12, <1>13, <1>14, <1>15, <1>16, <1>17, <1>18, <1>19, <1>20,
     <1>21, <1>22, <1>23, <1>24, <1>25, <1>26, <1>27, <1>28, <1>29, <1>30,
     <1>31, <1>32, <1>33, <1>34, <1>35, <1>36, <1>37, <1>38 DEF ContextStep,
     QueueStep, ScalerStep

-----------------------------------------------------------------------------
(* The count.                                                              *)

\* The sets that are counted are finite.
LEMMA CountedSets ==
    ASSUME TypeOK
    PROVE  /\ IsFiniteSet(Owners) /\ Cardinality(Owners) \in Nat
           /\ IsFiniteSet(Carried) /\ Cardinality(Carried) \in Nat
<1>1. IsFiniteSet(Procs)
  <2>1. {Isr, Wq} = {Isr} \union {Wq}
    OBVIOUS
  <2>2. IsFiniteSet({Isr} \union {Wq})
    BY FS_Singleton, FS_Union
  <2>3. IsFiniteSet(Threads \union Scalers)
    BY FS_Union, ProcsAssumption
  <2> QED
    BY <2>1, <2>2, <2>3, FS_Union DEF Procs
<1>2. IsFiniteSet(VoteWorks)
  <2>1. VoteWorks = ({"dec"} \union {"irq_dec"}) \union {"tag"}
    BY DEF VoteWorks
  <2>2. IsFiniteSet({"dec"} \union {"irq_dec"})
    BY FS_Singleton, FS_Union
  <2> QED
    BY <2>1, <2>2, FS_Singleton, FS_Union
<1>3. Owners \in SUBSET Procs /\ Carried \in SUBSET VoteWorks
  BY DEF Owners, Carried
<1>4. IsFiniteSet(Owners) /\ IsFiniteSet(Carried)
  BY <1>1, <1>2, <1>3, FS_Subset
<1> QED
  BY <1>4, FS_CardinalityType

\* What moving one context does to the number of owners.
LEMMA OwnersMove ==
    ASSUME TypeOK, NEW p \in Procs, NEW l \in PCs, Goto(p, l)
    PROVE  Cardinality(Owners') =
               Cardinality(Owners) + (IF l \in OwnerPcs THEN 1 ELSE 0)
                                   - (IF pc[p] \in OwnerPcs THEN 1 ELSE 0)
<1>1. Cardinality(Owners \union {p}) =
        IF p \in Owners THEN Cardinality(Owners) ELSE Cardinality(Owners) + 1
  BY CountedSets, FS_AddElement
<1>2. Cardinality(Owners \ {p}) =
        IF p \in Owners THEN Cardinality(Owners) - 1 ELSE Cardinality(Owners)
  BY CountedSets, FS_RemoveElement
<1>3. l \in OwnerPcs => Owners' = Owners \union {p}
  BY DEF Owners, TypeOK, Goto
<1>4. l \notin OwnerPcs => Owners' = Owners \ {p}
  BY DEF Owners, TypeOK, Goto
<1>5. p \in Owners <=> pc[p] \in OwnerPcs
  BY DEF Owners
<1>6. Cardinality(Owners) \in Nat
  BY CountedSets
<1>7. CASE l \in OwnerPcs
  <2>1. Cardinality(Owners') = Cardinality(Owners \union {p})
    BY <1>3, <1>7
  <2> QED
    BY <1>1, <1>5, <1>6, <1>7, <2>1
<1>8. CASE l \notin OwnerPcs
  <2>1. Cardinality(Owners') = Cardinality(Owners \ {p})
    BY <1>4, <1>8
  <2> QED
    BY <1>2, <1>5, <1>6, <1>8, <2>1
<1> QED
  BY <1>7, <1>8

\* What queueing and starting a work does to the votes that works carry.
LEMMA WorksMove ==
    ASSUME TypeOK, NEW w \in Works
    PROVE  /\ pending' = pending \union {w} =>
                 Cardinality(Carried') = Cardinality(Carried)
                     + (IF w \in VoteWorks /\ w \notin pending THEN 1 ELSE 0)
           /\ pending' = pending \ {w} =>
                 Cardinality(Carried') = Cardinality(Carried)
                     - (IF w \in VoteWorks /\ w \in pending THEN 1 ELSE 0)
<1>1. Cardinality(Carried \union {w}) =
        IF w \in Carried THEN Cardinality(Carried) ELSE Cardinality(Carried) + 1
  BY CountedSets, FS_AddElement
<1>2. Cardinality(Carried \ {w}) =
        IF w \in Carried THEN Cardinality(Carried) - 1 ELSE Cardinality(Carried)
  BY CountedSets, FS_RemoveElement
<1>3. ASSUME pending' = pending \union {w}
      PROVE  Carried' = IF w \in VoteWorks THEN Carried \union {w} ELSE Carried
  BY <1>3 DEF Carried
<1>4. ASSUME pending' = pending \ {w}
      PROVE  Carried' = IF w \in VoteWorks THEN Carried \ {w} ELSE Carried
  BY <1>4 DEF Carried
<1>5. w \in Carried <=> w \in VoteWorks /\ w \in pending
  BY DEF Carried
<1>6. Cardinality(Carried) \in Nat
  BY CountedSets
<1>7. ASSUME pending' = pending \union {w}
      PROVE  Cardinality(Carried') = Cardinality(Carried)
                 + (IF w \in VoteWorks /\ w \notin pending THEN 1 ELSE 0)
  BY <1>1, <1>3, <1>5, <1>6, <1>7
<1>8. ASSUME pending' = pending \ {w}
      PROVE  Cardinality(Carried') = Cardinality(Carried)
                 - (IF w \in VoteWorks /\ w \in pending THEN 1 ELSE 0)
  BY <1>2, <1>4, <1>5, <1>6, <1>8
<1> QED
  BY <1>7, <1>8

\* What the count says about the owners: none without a vote, and a count of
\* 1 leaves an owner alone, with no vote in the hands of a work.
LEMMA Counted ==
    ASSUME TypeOK, VoteConservation
    PROVE  /\ cnt \in Nat
           /\ cnt = 0 => Carried = {}
           /\ \A p \in Procs : pc[p] \in OwnerPcs =>
                 /\ cnt > 0
                 /\ cnt = 1 => /\ Carried = {}
                               /\ \A q \in Procs : pc[q] \in OwnerPcs => q = p
<1>1. Cardinality(Carried) = 0 => Carried = {}
  BY CountedSets, FS_EmptySet
<1>2. ASSUME NEW p \in Procs, pc[p] \in OwnerPcs
      PROVE  /\ Cardinality(Owners) > 0
             /\ Cardinality(Owners) = 1 => \A q \in Procs : pc[q] \in OwnerPcs => q = p
  <2>1. p \in Owners
    BY <1>2 DEF Owners
  <2>2. Cardinality(Owners) # 0
    BY <2>1, CountedSets, FS_EmptySet
  <2>3. Cardinality(Owners) = 1 => Owners = {p}
    BY <2>1, CountedSets, FS_Singleton
  <2> QED
    BY <2>2, <2>3, CountedSets DEF Owners
<1> QED
  BY <1>1, <1>2, CountedSets DEF VoteConservation

\* No step loses or invents a vote.
LEMMA ConservationStep ==
    TypeOK /\ VoteConservation /\ ZeroInv /\ QueueInv /\ [Next]_vars => VoteConservation'
<1> SUFFICES ASSUME TypeOK, VoteConservation, ZeroInv, QueueInv, [Next]_vars
             PROVE  VoteConservation'
  OBVIOUS
<1>a. cnt \in Int /\ Cardinality(Owners) \in Nat /\ Cardinality(Carried) \in Nat
  BY CountedSets DEF TypeOK
<1>b. UNCHANGED pending => Cardinality(Carried') = Cardinality(Carried)
  BY DEF Carried
<1>c. UNCHANGED pc => Cardinality(Owners') = Cardinality(Owners)
  BY DEF Owners
<1>d. Threads \subseteq Procs /\ Scalers \subseteq Procs /\ Isr \in Procs /\ Wq \in Procs
  BY DEF Procs
<1>e. ASSUME NEW p \in Procs
      PROVE  /\ pc[p] \in OwnerPcs => cnt > 0
             /\ pc[p] \in OwnerPcs /\ cnt = 1 => "tag" \notin pending
             /\ pc[p] \in ZeroPcs => cnt = 0 /\ "dec" \notin pending
             /\ pc[p] = "dnb_queue" => "dec" \notin pending
  BY Counted DEF Carried, VoteWorks, ZeroInv, QueueInv
<1> USE <1>a, <1>b, <1>c, <1>d, OwnersMove, WorksMove
    DEF VoteConservation, OwnerPcs, PCs, ZeroPcs, EnablePcs, GatePcs, PlanPcs,
        Works, VoteWorks
<1>1. ASSUME NEW p \in Procs, IncThread(p) PROVE VoteConservation'
  BY <1>1 DEF IncThread, IncFast, Granted
<1>2. ASSUME NEW p \in Procs, IncMutex(p) PROVE VoteConservation'
  BY <1>2 DEF IncMutex, Granted
<1>3. ASSUME NEW p \in Procs, EnableBus(p) PROVE VoteConservation'
  BY <1>3 DEF EnableBus
<1>4. ASSUME NEW p \in Procs, EnableClk(p) PROVE VoteConservation'
  BY <1>4 DEF EnableClk
<1>5. ASSUME NEW p \in Procs, EnableVote(p) PROVE VoteConservation'
  BY <1>5 DEF EnableVote
<1>6. ASSUME NEW p \in Procs, ResumePipes(p) PROVE VoteConservation'
  BY <1>6 DEF ResumePipes
<1>7. ASSUME NEW p \in Procs, IncLast(p) PROVE VoteConservation'
  BY <1>7 DEF IncLast, Granted
<1>8. ASSUME NEW p \in Procs, IncNoBlock(p) PROVE VoteConservation'
  BY <1>8 DEF IncNoBlock
<1>9. ASSUME NEW p \in Procs, SendQueue(p) PROVE VoteConservation'
  BY <1>9 DEF SendQueue
<1>10. ASSUME NEW p \in Procs, SendFlag(p) PROVE VoteConservation'
  BY <1>10 DEF SendFlag
<1>11. ASSUME NEW p \in Procs, DecThread(p) PROVE VoteConservation'
  BY <1>11 DEF DecThread
<1>12. ASSUME NEW p \in Procs, DecEnter(p) PROVE VoteConservation'
  BY <1>12, <1>e DEF DecEnter
<1>13. ASSUME NEW p \in Procs, DecFast(p) PROVE VoteConservation'
  BY <1>13 DEF DecFast
<1>14. ASSUME NEW p \in Procs, DecCoal(p) PROVE VoteConservation'
  BY <1>14 DEF DecCoal
<1>15. ASSUME NEW p \in Procs, DecClear(p) PROVE VoteConservation'
  BY <1>15 DEF DecClear
<1>16. ASSUME NEW p \in Procs, DecMutex(p) PROVE VoteConservation'
  BY <1>16, <1>e DEF DecMutex
<1>17. ASSUME NEW p \in Procs, DecSub(p) PROVE VoteConservation'
  BY <1>17 DEF DecSub
<1>18. ASSUME NEW p \in Procs, SuspendPipes(p) PROVE VoteConservation'
  BY <1>18 DEF SuspendPipes
<1>19. ASSUME NEW p \in Procs, SuspendBusy(p) PROVE VoteConservation'
  BY <1>19, <1>e DEF SuspendBusy
<1>20. ASSUME NEW p \in Procs, GateVote(p) PROVE VoteConservation'
  BY <1>20 DEF GateVote
<1>21. ASSUME NEW p \in Procs, GateClk(p) PROVE VoteConservation'
  BY <1>21 DEF GateClk
<1>22. ASSUME NEW p \in Procs, GateBus(p) PROVE VoteConservation'
  BY <1>22 DEF GateBus
<1>23. ASSUME NEW p \in Procs, DecNoBlock(p) PROVE VoteConservation'
  BY <1>23 DEF DecNoBlock
<1>24. ASSUME NEW p \in Procs, DecNoBlockQueue(p) PROVE VoteConservation'
  BY <1>24, <1>e DEF DecNoBlockQueue
<1>25. ASSUME IsrDefer PROVE VoteConservation'
  BY <1>25 DEF IsrDefer
<1>26. ASSUME WorkTag PROVE VoteConservation'
  BY <1>26 DEF WorkTag
<1>27. ASSUME TagSend PROVE VoteConservation'
  BY <1>27 DEF TagSend
<1>28. ASSUME TagFail PROVE VoteConservation'
  BY <1>28 DEF TagFail
<1>29. ASSUME TagClear PROVE VoteConservation'
  BY <1>29 DEF TagClear
<1>30. ASSUME WorkDefer PROVE VoteConservation'
  BY <1>30 DEF WorkDefer, IncFast, Granted
<1>31. ASSUME DecDelayWq PROVE VoteConservation'
  BY <1>31 DEF DecDelayWq
<1>32. ASSUME NEW w \in Works, WorkDec(w) PROVE VoteConservation'
  BY <1>32 DEF WorkDec
<1>33. ASSUME NEW s \in Scalers, NEW lvl \in Levels, DoClkScaling(s, lvl) PROVE VoteConservation'
  BY <1>33 DEF DoClkScaling
<1>34. ASSUME NEW s \in Scalers, NEW f \in Floors, NEW bw \in Levels,
            SetRequiredPerfProfile(s, f, bw) PROVE VoteConservation'
  BY <1>34 DEF SetRequiredPerfProfile
<1>35. ASSUME NEW s \in Scalers, ScaleCmp(s) PROVE VoteConservation'
  BY <1>35 DEF ScaleCmp
<1>36. ASSUME NEW s \in Scalers, PlanCheck(s) PROVE VoteConservation'
  BY <1>36 DEF PlanCheck
<1>37. ASSUME NEW s \in Scalers, PlanMutex(s) PROVE VoteConservation'
  BY <1>37 DEF PlanMutex
<1>38. CASE UNCHANGED vars
  BY <1>38 DEF vars
<1> QED
  BY NextCases, <1>1, <1>2, <1>3, <1>4, <1>5, <1>6, <1>7, <1>8, <1>9, <1>10,
     <1>11, <1>12, <1>13, <1>14, <1>15, <1>16, <1>17, <1>18, <1>19, <1>20,
     <1>21, <1>22, <1>23, <1>24, <1>25, <1>26, <1>27, <1>28, <1>29, <1>30,
     <1>31, <1>32, <1>33, <1>34, <1>35, <1>36, <1>37, <1>38 DEF ContextStep,
     QueueStep, ScalerStep

\* No drop finds the count at 0, no vote appears while the hardware is being
\* switched, and two contexts never queue the same drop.
LEMMA PointsStep ==
    /\ TypeOK /\ MutexInv /\ VoteConservation /\ RefcntNeverUnderflows
    /\ ZeroInv /\ QueueInv /\ [Next]_vars
    => RefcntNeverUnderflows' /\ ZeroInv' /\ QueueInv'
<1> DEFINE Goal == RefcntNeverUnderflows' /\ ZeroInv' /\ QueueInv'
<1> SUFFICES ASSUME TypeOK, MutexInv, VoteConservation, RefcntNeverUnderflows,
                    ZeroInv, QueueInv, [Next]_vars
             PROVE  Goal
  OBVIOUS
<1>a. /\ cnt \in Nat
      /\ cnt = 0 => "dec" \notin pending
      /\ \A p \in Procs : pc[p] \in OwnerPcs =>
            /\ cnt > 0
            /\ cnt = 1 => /\ "dec" \notin pending
                          /\ \A q \in Procs : pc[q] \in OwnerPcs => q = p
  BY Counted DEF Carried, VoteWorks
<1> USE <1>a, ProcsAssumption
    DEF Goal, Procs, TypeOK, MutexInv, RefcntNeverUnderflows, ZeroInv, QueueInv, Goto,
        OwnerPcs, MutexPcs, ZeroPcs, EnablePcs, GatePcs
<1>1. ASSUME NEW p \in Procs, IncThread(p) PROVE Goal
  BY <1>1 DEF IncThread, IncFast, Granted
<1>2. ASSUME NEW p \in Procs, IncMutex(p) PROVE Goal
  BY <1>2 DEF IncMutex, Granted
<1>3. ASSUME NEW p \in Procs, EnableBus(p) PROVE Goal
  BY <1>3 DEF EnableBus
<1>4. ASSUME NEW p \in Procs, EnableClk(p) PROVE Goal
  BY <1>4 DEF EnableClk
<1>5. ASSUME NEW p \in Procs, EnableVote(p) PROVE Goal
  BY <1>5 DEF EnableVote
<1>6. ASSUME NEW p \in Procs, ResumePipes(p) PROVE Goal
  BY <1>6 DEF ResumePipes
<1>7. ASSUME NEW p \in Procs, IncLast(p) PROVE Goal
  BY <1>7 DEF IncLast, Granted
<1>8. ASSUME NEW p \in Procs, IncNoBlock(p) PROVE Goal
  BY <1>8 DEF IncNoBlock
<1>9. ASSUME NEW p \in Procs, SendQueue(p) PROVE Goal
  BY <1>9 DEF SendQueue
<1>10. ASSUME NEW p \in Procs, SendFlag(p) PROVE Goal
  BY <1>10 DEF SendFlag
<1>11. ASSUME NEW p \in Procs, DecThread(p) PROVE Goal
  BY <1>11 DEF DecThread
<1>12. ASSUME NEW p \in Procs, DecEnter(p) PROVE Goal
  BY <1>12 DEF DecEnter
<1>13. ASSUME NEW p \in Procs, DecFast(p) PROVE Goal
  BY <1>13 DEF DecFast
<1>14. ASSUME NEW p \in Procs, DecCoal(p) PROVE Goal
  BY <1>14 DEF DecCoal
<1>15. ASSUME NEW p \in Procs, DecClear(p) PROVE Goal
  BY <1>15 DEF DecClear
<1>16. ASSUME NEW p \in Procs, DecMutex(p) PROVE Goal
  BY <1>16 DEF DecMutex
<1>17. ASSUME NEW p \in Procs, DecSub(p) PROVE Goal
  BY <1>17 DEF DecSub
<1>18. ASSUME NEW p \in Procs, SuspendPipes(p) PROVE Goal
  BY <1>18 DEF SuspendPipes
<1>19. ASSUME NEW p \in Procs, SuspendBusy(p) PROVE Goal
  BY <1>19 DEF SuspendBusy
<1>20. ASSUME NEW p \in Procs, GateVote(p) PROVE Goal
  BY <1>20 DEF GateVote
<1>21. ASSUME NEW p \in Procs, GateClk(p) PROVE Goal
  BY <1>21 DEF GateClk
<1>22. ASSUME NEW p \in Procs, GateBus(p) PROVE Goal
  BY <1>22 DEF GateBus
<1>23. ASSUME NEW p \in Procs, DecNoBlock(p) PROVE Goal
  BY <1>23 DEF DecNoBlock
<1>24. ASSUME NEW p \in Procs, DecNoBlockQueue(p) PROVE Goal
  BY <1>24 DEF DecNoBlockQueue
<1>25. ASSUME IsrDefer PROVE Goal
  BY <1>25 DEF IsrDefer
<1>26. ASSUME WorkTag PROVE Goal
  BY <1>26 DEF WorkTag
<1>27. ASSUME TagSend PROVE Goal
  BY <1>27 DEF TagSend
<1>28. ASSUME TagFail PROVE Goal
  BY <1>28 DEF TagFail
<1>29. ASSUME TagClear PROVE Goal
  BY <1>29 DEF TagClear
<1>30. ASSUME WorkDefer PROVE Goal
  BY <1>30 DEF WorkDefer, IncFast, Granted
<1>31. ASSUME DecDelayWq PROVE Goal
  BY <1>31 DEF DecDelayWq
<1>32. ASSUME NEW w \in Works, WorkDec(w) PROVE Goal
  BY <1>32 DEF WorkDec
<1>33. ASSUME NEW s \in Scalers, NEW lvl \in Levels, DoClkScaling(s, lvl) PROVE Goal
  BY <1>33 DEF DoClkScaling
<1>34. ASSUME NEW s \in Scalers, NEW f \in Floors, NEW bw \in Levels,
            SetRequiredPerfProfile(s, f, bw) PROVE Goal
  BY <1>34 DEF SetRequiredPerfProfile
<1>35. ASSUME NEW s \in Scalers, ScaleCmp(s) PROVE Goal
  BY <1>35 DEF ScaleCmp
<1>36. ASSUME NEW s \in Scalers, PlanCheck(s) PROVE Goal
  BY <1>36 DEF PlanCheck
<1>37. ASSUME NEW s \in Scalers, PlanMutex(s) PROVE Goal
  BY <1>37 DEF PlanMutex
<1>38. CASE UNCHANGED vars
  BY <1>38 DEF vars
<1> QED
  BY NextCases, <1>1, <1>2, <1>3, <1>4, <1>5, <1>6, <1>7, <1>8, <1>9, <1>10,
     <1>11, <1>12, <1>13, <1>14, <1>15, <1>16, <1>17, <1>18, <1>19, <1>20,
     <1>21, <1>22, <1>23, <1>24, <1>25, <1>26, <1>27, <1>28, <1>29, <1>30,
     <1>31, <1>32, <1>33, <1>34, <1>35, <1>36, <1>37, <1>38 DEF ContextStep,
     QueueStep, ScalerStep

-----------------------------------------------------------------------------
(* The hardware.                                                           *)

\* The hardware is switched only while nobody votes, and in the order the
\* code gives.
LEMMA HwStep ==
    TypeOK /\ MutexInv /\ VoteConservation /\ ZeroInv /\ HwInv /\ [Next]_vars => HwInv'
<1> SUFFICES ASSUME TypeOK, MutexInv, VoteConservation, ZeroInv, HwInv, [Next]_vars
             PROVE  HwInv'
  OBVIOUS
<1>a. cnt \in Nat /\ \A p \in Procs : pc[p] \in OwnerPcs => cnt > 0
  BY Counted
<1> USE <1>a, ProcsAssumption
    DEF Procs, TypeOK, MutexInv, ZeroInv, HwInv, HwIs, Goto, OwnerPcs, MutexPcs,
        ZeroPcs, EnablePcs, GatePcs, hw, rate
<1>1. ASSUME NEW p \in Procs, IncThread(p) PROVE HwInv'
  BY <1>1 DEF IncThread, IncFast, Granted
<1>2. ASSUME NEW p \in Procs, IncMutex(p) PROVE HwInv'
  BY <1>2 DEF IncMutex, Granted
<1>3. ASSUME NEW p \in Procs, EnableBus(p) PROVE HwInv'
  BY <1>3 DEF EnableBus
<1>4. ASSUME NEW p \in Procs, EnableClk(p) PROVE HwInv'
  BY <1>4 DEF EnableClk
<1>5. ASSUME NEW p \in Procs, EnableVote(p) PROVE HwInv'
  BY <1>5 DEF EnableVote
<1>6. ASSUME NEW p \in Procs, ResumePipes(p) PROVE HwInv'
  BY <1>6 DEF ResumePipes
<1>7. ASSUME NEW p \in Procs, IncLast(p) PROVE HwInv'
  BY <1>7 DEF IncLast, Granted
<1>8. ASSUME NEW p \in Procs, IncNoBlock(p) PROVE HwInv'
  BY <1>8 DEF IncNoBlock
<1>9. ASSUME NEW p \in Procs, SendQueue(p) PROVE HwInv'
  BY <1>9 DEF SendQueue
<1>10. ASSUME NEW p \in Procs, SendFlag(p) PROVE HwInv'
  BY <1>10 DEF SendFlag
<1>11. ASSUME NEW p \in Procs, DecThread(p) PROVE HwInv'
  BY <1>11 DEF DecThread
<1>12. ASSUME NEW p \in Procs, DecEnter(p) PROVE HwInv'
  BY <1>12 DEF DecEnter
<1>13. ASSUME NEW p \in Procs, DecFast(p) PROVE HwInv'
  BY <1>13 DEF DecFast
<1>14. ASSUME NEW p \in Procs, DecCoal(p) PROVE HwInv'
  BY <1>14 DEF DecCoal
<1>15. ASSUME NEW p \in Procs, DecClear(p) PROVE HwInv'
  BY <1>15 DEF DecClear
<1>16. ASSUME NEW p \in Procs, DecMutex(p) PROVE HwInv'
  BY <1>16 DEF DecMutex
<1>17. ASSUME NEW p \in Procs, DecSub(p) PROVE HwInv'
  BY <1>17 DEF DecSub
<1>18. ASSUME NEW p \in Procs, SuspendPipes(p) PROVE HwInv'
  BY <1>18 DEF SuspendPipes
<1>19. ASSUME NEW p \in Procs, SuspendBusy(p) PROVE HwInv'
  BY <1>19 DEF SuspendBusy
<1>20. ASSUME NEW p \in Procs, GateVote(p) PROVE HwInv'
  BY <1>20 DEF GateVote
<1>21. ASSUME NEW p \in Procs, GateClk(p) PROVE HwInv'
  BY <1>21 DEF GateClk
<1>22. ASSUME NEW p \in Procs, GateBus(p) PROVE HwInv'
  BY <1>22 DEF GateBus
<1>23. ASSUME NEW p \in Procs, DecNoBlock(p) PROVE HwInv'
  BY <1>23 DEF DecNoBlock
<1>24. ASSUME NEW p \in Procs, DecNoBlockQueue(p) PROVE HwInv'
  BY <1>24 DEF DecNoBlockQueue
<1>25. ASSUME IsrDefer PROVE HwInv'
  BY <1>25 DEF IsrDefer
<1>26. ASSUME WorkTag PROVE HwInv'
  BY <1>26 DEF WorkTag
<1>27. ASSUME TagSend PROVE HwInv'
  BY <1>27 DEF TagSend
<1>28. ASSUME TagFail PROVE HwInv'
  BY <1>28 DEF TagFail
<1>29. ASSUME TagClear PROVE HwInv'
  BY <1>29 DEF TagClear
<1>30. ASSUME WorkDefer PROVE HwInv'
  BY <1>30 DEF WorkDefer, IncFast, Granted
<1>31. ASSUME DecDelayWq PROVE HwInv'
  BY <1>31 DEF DecDelayWq
<1>32. ASSUME NEW w \in Works, WorkDec(w) PROVE HwInv'
  BY <1>32 DEF WorkDec
<1>33. ASSUME NEW s \in Scalers, NEW lvl \in Levels, DoClkScaling(s, lvl) PROVE HwInv'
  BY <1>33 DEF DoClkScaling
<1>34. ASSUME NEW s \in Scalers, NEW f \in Floors, NEW bw \in Levels,
            SetRequiredPerfProfile(s, f, bw) PROVE HwInv'
  BY <1>34 DEF SetRequiredPerfProfile
<1>35. ASSUME NEW s \in Scalers, ScaleCmp(s) PROVE HwInv'
  BY <1>35 DEF ScaleCmp
<1>36. ASSUME NEW s \in Scalers, PlanCheck(s) PROVE HwInv'
  BY <1>36 DEF PlanCheck
<1>37. ASSUME NEW s \in Scalers, PlanMutex(s) PROVE HwInv'
  BY <1>37 DEF PlanMutex
<1>38. CASE UNCHANGED vars
  BY <1>38 DEF vars
<1> QED
  BY NextCases, <1>1, <1>2, <1>3, <1>4, <1>5, <1>6, <1>7, <1>8, <1>9, <1>10,
     <1>11, <1>12, <1>13, <1>14, <1>15, <1>16, <1>17, <1>18, <1>19, <1>20,
     <1>21, <1>22, <1>23, <1>24, <1>25, <1>26, <1>27, <1>28, <1>29, <1>30,
     <1>31, <1>32, <1>33, <1>34, <1>35, <1>36, <1>37, <1>38 DEF ContextStep,
     QueueStep, ScalerStep

-----------------------------------------------------------------------------
(* Theorems.                                                               *)

\* Every variable keeps its type; in particular the count stays an integer
\* and every context stays at a known program point.
THEOREM TypeCorrect == Spec => []TypeOK
<1> QED
  BY InitType, TypeStep, PTL DEF Spec

\* The inductive invariant: every vote is accounted for, one context at a time
\* switches the hardware, and it does so while the count is 0.
THEOREM Inductive == Spec => [](TypeOK /\ IndInv)
<1>1. Init => IndInv
  <2> SUFFICES ASSUME Init PROVE IndInv
    OBVIOUS
  <2>1. Owners = {Boot} /\ Carried = {}
    BY ProcsAssumption DEF Init, Owners, Carried, Procs, OwnerPcs
  <2>2. VoteConservation
    <3>1. Cardinality(Owners) = 1 /\ Cardinality(Carried) = 0
      BY <2>1, FS_Singleton, FS_EmptySet
    <3> QED
      BY <3>1 DEF Init, VoteConservation
  <2>3. RefcntNeverUnderflows /\ MutexInv /\ ZeroInv /\ QueueInv /\ HwInv
    BY ProcsAssumption
       DEF Init, RefcntNeverUnderflows, MutexInv, MutexPcs, ZeroInv, ZeroPcs, EnablePcs,
           GatePcs, QueueInv, HwInv, HwIs, Procs
  <2> QED
    BY <2>2, <2>3 DEF IndInv
<1>2. TypeOK /\ IndInv /\ [Next]_vars => IndInv'
  BY MutexStep, ConservationStep, PointsStep, HwStep DEF IndInv
<1> QED
  BY <1>1, <1>2, InitType, TypeStep, PTL DEF Spec

\* ipa3_active_clients.cnt is exactly the votes outstanding, held by contexts
\* or carried by queued works: none is lost to a work that is already queued.
THEOREM Conservation == Spec => []VoteConservation
<1>1. IndInv => VoteConservation
  BY DEF IndInv
<1> QED
  BY <1>1, Inductive, PTL

\* The assertion on a count of 0 in __ipa3_dec_client_disable_clks is dead.
THEOREM NoUnderflow == Spec => []RefcntNeverUnderflows
<1>1. IndInv => RefcntNeverUnderflows
  BY DEF IndInv
<1> QED
  BY <1>1, Inductive, PTL

\* Whoever holds a vote may touch the hardware: bus, clock, flag and pipes.
THEOREM Clocked == Spec => []ClockedWhileVoted
<1>1. TypeOK /\ IndInv => ClockedWhileVoted
  <2> SUFFICES ASSUME TypeOK, IndInv, Owners # {} \/ Carried # {} PROVE Usable
    BY DEF ClockedWhileVoted
  <2>1. cnt > 0
    <3>1. Cardinality(Owners) # 0 \/ Cardinality(Carried) # 0
      BY CountedSets, FS_EmptySet
    <3> QED
      BY <3>1, CountedSets DEF IndInv, VoteConservation
  <2>2. HwIs(1, currRate, currRate, TRUE)
    BY <2>1 DEF IndInv, HwInv
  <2> QED
    BY <2>2, LevelsAssumption DEF TypeOK, HwIs, Usable
<1> QED
  BY <1>1, Inductive, PTL

\* With the mutex free the hardware is where the count and the rate say.
THEOREM HwAgrees == Spec => []HwFollowsCount
<1>1. TypeOK /\ IndInv => HwFollowsCount
  <2> SUFFICES ASSUME TypeOK, IndInv PROVE HwFollowsCount
    OBVIOUS
  <2>1. cnt \in Nat
    BY Counted DEF IndInv
  <2> QED
    BY <2>1 DEF IndInv, HwInv, HwIs, HwFollowsCount, TypeOK
<1> QED
  BY <1>1, Inductive, PTL

\* The flag that guards register accesses never reads 1 with the clock off,
\* and the clock never runs without its bus vote.
THEOREM FlagOrder == Spec => []FlagBeforeClock
<1>1. TypeOK /\ IndInv => FlagBeforeClock
  <2> SUFFICES ASSUME TypeOK, IndInv PROVE FlagBeforeClock
    OBVIOUS
  <2>1. cnt \in Nat
    BY Counted DEF IndInv
  <2>2. currRate # 0
    BY LevelsAssumption DEF TypeOK
  <2>3. CASE cnt > 0
    BY <2>2, <2>3 DEF IndInv, HwInv, HwIs, FlagBeforeClock
  <2>4. CASE cnt = 0 /\ mutex = NoProc
    BY <2>4 DEF IndInv, HwInv, HwIs, FlagBeforeClock
  <2>5. CASE cnt = 0 /\ mutex # NoProc
    <3>1. mutex \in Procs /\ pc[mutex] \in ZeroPcs
      <4>1. mutex \in Procs /\ pc[mutex] \in MutexPcs
        BY <2>5 DEF IndInv, MutexInv, TypeOK
      <4>2. pc[mutex] # "dec_sub"
        BY <2>5, <4>1, Counted DEF IndInv, OwnerPcs
      <4> QED
        BY <4>1, <4>2 DEF MutexPcs
    <3> QED
      BY <2>2, <3>1
         DEF IndInv, HwInv, HwIs, FlagBeforeClock, ZeroPcs, EnablePcs, GatePcs
  <2> QED
    BY <2>1, <2>3, <2>4, <2>5
<1> QED
  BY <1>1, Inductive, PTL
-----------------------------------------------------------------------------
(* Implementation of ClockGate.                                            *)

\* A vote is added only to usable hardware and one is dropped only where
\* there is one; neither step touches the hardware.
CountMove ==
    \/ UNCHANGED cnt
    \/ cnt' = cnt + 1 /\ Usable /\ UNCHANGED hw
    \/ cnt' = cnt - 1 /\ cnt > 0 /\ UNCHANGED hw

\* Every step of the code moves the count so.
LEMMA CountMoves == TypeOK /\ IndInv /\ [Next]_vars => CountMove
<1> SUFFICES ASSUME TypeOK, IndInv, [Next]_vars PROVE CountMove
  OBVIOUS
<1>a. cnt \in Nat /\ \A p \in Procs : pc[p] \in OwnerPcs => cnt > 0
  BY Counted DEF IndInv
<1>b. cnt # 0 => Usable
  BY <1>a, LevelsAssumption DEF IndInv, HwInv, HwIs, Usable, TypeOK
<1>c. \A p \in Procs : pc[p] \in {"en_inc", "dec_suspend"} => Usable
  BY LevelsAssumption DEF IndInv, HwInv, HwIs, Usable, TypeOK
<1> USE <1>a, <1>b, <1>c DEF CountMove, hw, OwnerPcs
<1>1. ASSUME NEW p \in Procs, IncThread(p) PROVE CountMove
  BY <1>1 DEF IncThread, IncFast, Granted
<1>2. ASSUME NEW p \in Procs, IncMutex(p) PROVE CountMove
  BY <1>2 DEF IncMutex, Granted
<1>3. ASSUME NEW p \in Procs, EnableBus(p) PROVE CountMove
  BY <1>3 DEF EnableBus
<1>4. ASSUME NEW p \in Procs, EnableClk(p) PROVE CountMove
  BY <1>4 DEF EnableClk
<1>5. ASSUME NEW p \in Procs, EnableVote(p) PROVE CountMove
  BY <1>5 DEF EnableVote
<1>6. ASSUME NEW p \in Procs, ResumePipes(p) PROVE CountMove
  BY <1>6 DEF ResumePipes
<1>7. ASSUME NEW p \in Procs, IncLast(p) PROVE CountMove
  BY <1>7 DEF IncLast, Granted
<1>8. ASSUME NEW p \in Procs, IncNoBlock(p) PROVE CountMove
  BY <1>8 DEF IncNoBlock
<1>9. ASSUME NEW p \in Procs, SendQueue(p) PROVE CountMove
  BY <1>9 DEF SendQueue
<1>10. ASSUME NEW p \in Procs, SendFlag(p) PROVE CountMove
  BY <1>10 DEF SendFlag
<1>11. ASSUME NEW p \in Procs, DecThread(p) PROVE CountMove
  BY <1>11 DEF DecThread
<1>12. ASSUME NEW p \in Procs, DecEnter(p) PROVE CountMove
  BY <1>12 DEF DecEnter
<1>13. ASSUME NEW p \in Procs, DecFast(p) PROVE CountMove
  BY <1>13 DEF DecFast
<1>14. ASSUME NEW p \in Procs, DecCoal(p) PROVE CountMove
  BY <1>14 DEF DecCoal
<1>15. ASSUME NEW p \in Procs, DecClear(p) PROVE CountMove
  BY <1>15 DEF DecClear
<1>16. ASSUME NEW p \in Procs, DecMutex(p) PROVE CountMove
  BY <1>16 DEF DecMutex
<1>17. ASSUME NEW p \in Procs, DecSub(p) PROVE CountMove
  BY <1>17 DEF DecSub
<1>18. ASSUME NEW p \in Procs, SuspendPipes(p) PROVE CountMove
  BY <1>18 DEF SuspendPipes
<1>19. ASSUME NEW p \in Procs, SuspendBusy(p) PROVE CountMove
  BY <1>19 DEF SuspendBusy
<1>20. ASSUME NEW p \in Procs, GateVote(p) PROVE CountMove
  BY <1>20 DEF GateVote
<1>21. ASSUME NEW p \in Procs, GateClk(p) PROVE CountMove
  BY <1>21 DEF GateClk
<1>22. ASSUME NEW p \in Procs, GateBus(p) PROVE CountMove
  BY <1>22 DEF GateBus
<1>23. ASSUME NEW p \in Procs, DecNoBlock(p) PROVE CountMove
  BY <1>23 DEF DecNoBlock
<1>24. ASSUME NEW p \in Procs, DecNoBlockQueue(p) PROVE CountMove
  BY <1>24 DEF DecNoBlockQueue
<1>25. ASSUME IsrDefer PROVE CountMove
  BY <1>25 DEF IsrDefer
<1>26. ASSUME WorkTag PROVE CountMove
  BY <1>26 DEF WorkTag
<1>27. ASSUME TagSend PROVE CountMove
  BY <1>27 DEF TagSend
<1>28. ASSUME TagFail PROVE CountMove
  BY <1>28 DEF TagFail
<1>29. ASSUME TagClear PROVE CountMove
  BY <1>29 DEF TagClear
<1>30. ASSUME WorkDefer PROVE CountMove
  BY <1>30 DEF WorkDefer, IncFast, Granted
<1>31. ASSUME DecDelayWq PROVE CountMove
  BY <1>31 DEF DecDelayWq
<1>32. ASSUME NEW w \in Works, WorkDec(w) PROVE CountMove
  BY <1>32 DEF WorkDec
<1>33. ASSUME NEW s \in Scalers, NEW lvl \in Levels, DoClkScaling(s, lvl) PROVE CountMove
  BY <1>33 DEF DoClkScaling
<1>34. ASSUME NEW s \in Scalers, NEW f \in Floors, NEW bw \in Levels,
            SetRequiredPerfProfile(s, f, bw) PROVE CountMove
  BY <1>34 DEF SetRequiredPerfProfile
<1>35. ASSUME NEW s \in Scalers, ScaleCmp(s) PROVE CountMove
  BY <1>35 DEF ScaleCmp
<1>36. ASSUME NEW s \in Scalers, PlanCheck(s) PROVE CountMove
  BY <1>36 DEF PlanCheck
<1>37. ASSUME NEW s \in Scalers, PlanMutex(s) PROVE CountMove
  BY <1>37 DEF PlanMutex
<1>38. CASE UNCHANGED vars
  BY <1>38 DEF vars
<1> QED
  BY NextCases, <1>1, <1>2, <1>3, <1>4, <1>5, <1>6, <1>7, <1>8, <1>9, <1>10,
     <1>11, <1>12, <1>13, <1>14, <1>15, <1>16, <1>17, <1>18, <1>19, <1>20,
     <1>21, <1>22, <1>23, <1>24, <1>25, <1>26, <1>27, <1>28, <1>29, <1>30,
     <1>31, <1>32, <1>33, <1>34, <1>35, <1>36, <1>37, <1>38 DEF ContextStep,
     QueueStep, ScalerStep

\* The vote code, with its mutex, its works and its register writes, does
\* nothing that ClockGate does not allow.
THEOREM Refinement == Spec => GateSpec
<1>1. Init => Gate!Init
  BY LevelsAssumption DEF Init, Gate!Init, Usable
<1>2. TypeOK /\ IndInv /\ (TypeOK /\ IndInv)' /\ [Next]_vars
        => [Gate!Next]_(Gate!gateVars)
  <2> SUFFICES ASSUME TypeOK, IndInv, TypeOK', IndInv', [Next]_vars
               PROVE  Gate!Next \/ UNCHANGED Gate!gateVars
    OBVIOUS
  <2>1. cnt \in Nat /\ (cnt > 0 => Usable)
    BY Counted, LevelsAssumption DEF IndInv, HwInv, HwIs, Usable, TypeOK
  <2>2. cnt' > 0 => Usable'
    BY LevelsAssumption DEF IndInv, HwInv, HwIs, Usable, TypeOK
  <2>3. UNCHANGED hw => Usable' = Usable
    BY DEF hw, Usable
  <2>4. CountMove
    BY CountMoves
  <2>5. Usable \in BOOLEAN /\ Usable' \in BOOLEAN
    BY DEF Usable
  <2> QED
    BY <2>1, <2>2, <2>3, <2>4, <2>5
       DEF CountMove, Gate!Next, Gate!Vote, Gate!Unvote, Gate!Switch, Gate!gateVars
<1> QED
  BY <1>1, <1>2, Inductive, PTL DEF Spec, GateSpec, Gate!Spec

\* The hardware stops being usable only in a step that finds, and leaves, no
\* vote; and the first vote after that finds it usable again.
THEOREM SwitchesUnvoted == Spec => GateOnlyUnvoted
<1>1. TypeOK /\ IndInv /\ (TypeOK /\ IndInv)' /\ [Next]_vars
        => [/\ (Usable /\ ~Usable') => cnt = 0 /\ cnt' = 0
            /\ (cnt = 0 /\ cnt' # 0) => Usable]_vars
  <2> SUFFICES ASSUME TypeOK, IndInv, TypeOK', IndInv', [Next]_vars
               PROVE  /\ (Usable /\ ~Usable') => cnt = 0 /\ cnt' = 0
                      /\ (cnt = 0 /\ cnt' # 0) => Usable
    OBVIOUS
  <2>1. cnt \in Nat /\ cnt' \in Nat
    <3>1. cnt \in Nat
      BY Counted DEF IndInv
    <3> QED
      BY <3>1, CountMoves DEF CountMove
  <2>2. cnt' > 0 => Usable'
    BY LevelsAssumption DEF IndInv, HwInv, HwIs, Usable, TypeOK
  <2>3. UNCHANGED hw => Usable' = Usable
    BY DEF hw, Usable
  <2> QED
    BY <2>1, <2>2, <2>3, CountMoves DEF CountMove
<1> QED
  BY <1>1, Inductive, PTL DEF Spec, GateOnlyUnvoted
=============================================================================

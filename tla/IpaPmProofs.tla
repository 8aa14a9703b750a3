---------------------------- MODULE IpaPmProofs ----------------------------
(***************************************************************************)
(* Proofs about the power manager, for any clients and any callers.        *)
(***************************************************************************)
EXTENDS IpaPm, FiniteSetTheorems, TLAPS

(* Types.                                                                  *)

CallType == [Callers -> CallRecs]
WorkType == [at : WorkPcs, c : Clients \union {NoClient}]
Flags == [Clients -> BOOLEAN]

\* The initial state is typed.
LEMMA InitType == Init => TypeOK
<1> SUFFICES ASSUME Init PROVE TypeOK
  OBVIOUS
<1>1. vote \in [Clients -> -VoteBound .. VoteBound]
  BY ClientsAssumption DEF Init, All
<1>2. call \in [Callers -> CallRecs]
  BY DEF Init, NoCall, CallRecs, CallPcs
<1>3. work \in [at : WorkPcs, c : Clients \union {NoClient}]
  BY DEF Init, NoWork, WorkPcs
<1> QED
  BY <1>1, <1>2, <1>3 DEF Init, All, TypeOK, States

\* Every move of a caller keeps the type of its record.
LEMMA CallMoves ==
    ASSUME TypeOK, NEW t \in Callers
    PROVE  /\ call[t].c \in Clients \union {NoClient}
           /\ \A l \in CallPcs, c \in Clients \union {NoClient} :
                 Enter(t, c, l) => call' \in CallType
           /\ \A l \in CallPcs : Goto(t, l) => call' \in CallType
           /\ Return(t) => call' \in CallType
           /\ Continue(t) => call' \in CallType
           /\ \A l \in CallPcs, c \in Clients \union {NoClient},
                 q \in SUBSET Clients, r \in BOOLEAN :
                 AllAt(t, l, c, q, r) => call' \in CallType
           /\ call[t].rem \in SUBSET Clients /\ call[t].run \in BOOLEAN
<1> USE DEF TypeOK, CallType, CallRecs
<1>1. call[t].c \in Clients \union {NoClient}
  OBVIOUS
<1>a. ASSUME NEW l \in CallPcs, NEW c \in Clients \union {NoClient}
      PROVE  /\ [call[t] EXCEPT !.at = l] \in CallRecs
             /\ [[call[t] EXCEPT !.at = l] EXCEPT !.c = c] \in CallRecs
  <2>1. call[t] \in CallRecs
    OBVIOUS
  <2>2. [call[t] EXCEPT !.at = l] \in CallRecs
    BY <2>1
  <2> QED
    BY <2>2
<1>2. ASSUME NEW l \in CallPcs, NEW c \in Clients \union {NoClient}
      PROVE  Enter(t, c, l) => call' \in CallType
  <2>1. [[call[t] EXCEPT !.at = l] EXCEPT !.c = c] \in CallRecs
    BY <1>a
  <2> HIDE DEF CallRecs
  <2> QED
    BY <2>1 DEF Enter
<1>3. ASSUME NEW l \in CallPcs PROVE Goto(t, l) => call' \in CallType
  <2>1. [call[t] EXCEPT !.at = l] \in CallRecs
    BY <1>a
  <2> HIDE DEF CallRecs
  <2> QED
    BY <2>1 DEF Goto
<1>4. Return(t) => call' \in CallType
  BY DEF Return, NoCall, CallPcs
<1>5. Continue(t) => call' \in CallType
  <2>1. "x_next" \in CallPcs
    BY DEF CallPcs
  <2>2. [[call[t] EXCEPT !.at = "x_next"] EXCEPT !.c = NoClient] \in CallRecs
    BY <1>a, <2>1
  <2> HIDE DEF CallRecs
  <2> QED
    BY <2>2 DEF Continue
<1>6. ASSUME NEW l \in CallPcs, NEW c \in Clients \union {NoClient},
             NEW q \in SUBSET Clients, NEW r \in BOOLEAN
      PROVE  AllAt(t, l, c, q, r) => call' \in CallType
  BY DEF AllAt
<1>7. call[t].rem \in SUBSET Clients /\ call[t].run \in BOOLEAN
  OBVIOUS
<1> QED
  BY <1>1, <1>2, <1>3, <1>4, <1>5, <1>6, <1>7

\* Every move of the worker keeps the type of its record.
LEMMA WorkMoves ==
    ASSUME TypeOK
    PROVE  /\ work.c \in Clients \union {NoClient}
           /\ \A l \in WorkPcs : WorkGoto(l) => work' \in WorkType
           /\ WorkDone => work' \in WorkType
BY DEF TypeOK, WorkType, WorkGoto, WorkDone, NoWork, WorkPcs

\* Every store of a state keeps the type of the states.
LEMMA StateMoves ==
    ASSUME TypeOK
    PROVE  \A c, s : (c \in Clients => s \in States) /\ SetState(c, s)
                        => st' \in [Clients -> States]
BY DEF TypeOK, SetState

\* A vote moves within its bound, and the wakeup sources stay flags.
LEMMA VoteMoves ==
    ASSUME TypeOK, NEW c
    PROVE  /\ vote[c] < VoteBound /\ Inc(c) => vote' \in [Clients -> -VoteBound .. VoteBound]
           /\ IncBounded(c) => vote' \in [Clients -> -VoteBound .. VoteBound] /\ wake' \in Flags
           /\ DecBounded(c) => vote' \in [Clients -> -VoteBound .. VoteBound] /\ wake' \in Flags
           /\ StayAwake(c) => wake' \in Flags
<1>1. VoteBound \in Nat /\ vote \in [Clients -> -VoteBound .. VoteBound]
  BY ClientsAssumption DEF TypeOK
<1>2. vote[c] < VoteBound /\ Inc(c) => vote' \in [Clients -> -VoteBound .. VoteBound]
  <2> SUFFICES ASSUME vote[c] < VoteBound, Inc(c), c \in Clients, c \notin SkipVote
               PROVE  vote' \in [Clients -> -VoteBound .. VoteBound]
    BY <1>1 DEF Inc
  <2> QED
    BY <1>1 DEF Inc
<1>3. vote[c] > -VoteBound /\ Dec(c) => vote' \in [Clients -> -VoteBound .. VoteBound]
  <2> SUFFICES ASSUME vote[c] > -VoteBound, Dec(c), c \in Clients, c \notin SkipVote
               PROVE  vote' \in [Clients -> -VoteBound .. VoteBound]
    BY <1>1 DEF Dec
  <2> QED
    BY <1>1 DEF Dec
<1>4. StayAwake(c) => wake' \in Flags
  BY DEF TypeOK, StayAwake, Flags
<1>5. Relax(c) => wake' \in Flags
  BY DEF TypeOK, Relax, Flags
<1> QED
  BY <1>2, <1>3, <1>4, <1>5 DEF IncBounded, DecBounded

\* Queueing and cancelling keep the timers flags; the scaling counts clients.
LEMMA QueueMoves ==
    ASSUME TypeOK
    PROVE  /\ \A c : QueueTimer(c) \/ CancelTimer(c) => timer' \in Flags
           /\ DoClkScaling => agg' \in SUBSET Clients
BY DEF TypeOK, QueueTimer, CancelTimer, DoClkScaling, Flags

\* A step of any action keeps every variable in its type.
LEMMA TypeStep == TypeOK /\ [Next]_vars => TypeOK'
<1> SUFFICES ASSUME TypeOK, [Next]_vars PROVE TypeOK'
  OBVIOUS
<1> USE DEF TypeOK, CallType, WorkType, Flags, CallPcs, CancelPcs, WaitPcs, WorkPcs,
            ActivateWorkPcs, TimerWorkPcs, States, Active, Timed, InProgress,
            client, queue, held, scaled
<1>1. ASSUME NEW c \in Clients, Register(c) PROVE TypeOK'
  BY <1>1, StateMoves DEF Register
<1>2. ASSUME NEW t \in Callers, NEW c \in Clients, Deregister(t, c) PROVE TypeOK'
  BY <1>2, CallMoves DEF Deregister, DeregisterTest
<1>3. ASSUME NEW t \in Callers, DeregisterCheck(t) PROVE TypeOK'
  BY <1>3, CallMoves DEF DeregisterCheck, DeregisterTest
<1>4. ASSUME NEW t \in Callers, DeregisterFree(t) PROVE TypeOK'
  BY <1>4, CallMoves DEF DeregisterFree
<1>5. ASSUME NEW t \in Callers, NEW c \in Clients, ActivateAgain(t, c) PROVE TypeOK'
  BY <1>5, StateMoves DEF ActivateAgain, Reactivated
<1>6. ASSUME NEW t \in Callers, NEW c \in Clients, ActivateNow(t, c) PROVE TypeOK'
  BY <1>6, CallMoves, StateMoves, VoteMoves DEF ActivateNow
<1>7. ASSUME NEW t \in Callers, ActivateNowBit(t) PROVE TypeOK'
  BY <1>7, CallMoves DEF ActivateNowBit
<1>8. ASSUME NEW t \in Callers, NEW c \in Clients, ActivateLater(t, c) PROVE TypeOK'
  BY <1>8, StateMoves DEF ActivateLater
<1>9. ASSUME NEW t \in Callers, NEW c \in Clients, ActivateSync(t, c) PROVE TypeOK'
  BY <1>9, CallMoves, StateMoves DEF ActivateSync, SyncOn, Reactivated
<1>10. ASSUME NEW t \in Callers, SyncSwitch(t) PROVE TypeOK'
  BY <1>10, CallMoves, StateMoves DEF SyncSwitch, SyncOn, Reactivated
<1>11. ASSUME NEW t \in Callers, SyncInc(t) PROVE TypeOK'
  BY <1>11, CallMoves, VoteMoves DEF SyncInc
<1>12. ASSUME NEW t \in Callers, SyncLock(t) PROVE TypeOK'
  BY <1>12, CallMoves, StateMoves, VoteMoves DEF SyncLock
<1>13. ASSUME NEW t \in Callers, SyncBit(t) PROVE TypeOK'
  BY <1>13, CallMoves DEF SyncBit
<1>14. ASSUME NEW t \in Callers, SyncScale(t) PROVE TypeOK'
  BY <1>14, CallMoves, QueueMoves DEF SyncScale
<1>15. ASSUME NEW t \in Callers, NEW c \in Clients, DeferredDeactivate(t, c) PROVE TypeOK'
  BY <1>15, StateMoves, QueueMoves DEF DeferredDeactivate, Deferred
<1>16. ASSUME NEW t \in Callers, NEW c \in Clients, DeactivateSync(t, c) PROVE TypeOK'
  BY <1>16, CallMoves, QueueMoves DEF DeactivateSync
<1>17. ASSUME NEW t \in Callers, DeactivateCheck(t) PROVE TypeOK'
  BY <1>17, CallMoves DEF DeactivateCheck
<1>18. ASSUME NEW t \in Callers, DeactivateLock(t) PROVE TypeOK'
  BY <1>18, CallMoves DEF DeactivateLock
<1>19. ASSUME NEW t \in Callers, DeactivateDec(t) PROVE TypeOK'
  BY <1>19, CallMoves, VoteMoves DEF DeactivateDec
<1>20. ASSUME NEW t \in Callers, DeactivateSet(t) PROVE TypeOK'
  BY <1>20, CallMoves, StateMoves DEF DeactivateSet
<1>21. ASSUME NEW t \in Callers, DeactivateCancel(t) PROVE TypeOK'
  BY <1>21, CallMoves, QueueMoves DEF DeactivateCancel
<1>22. ASSUME NEW t \in Callers, DeactivateBit(t) PROVE TypeOK'
  BY <1>22, CallMoves DEF DeactivateBit
<1>23. ASSUME NEW t \in Callers, AllDeferred(t) PROVE TypeOK'
  <2>1. call' \in CallType
    BY ONLY <1>23, CallMoves, TypeOK DEF AllDeferred, CallPcs
  <2> QED
    BY <1>23, <2>1 DEF AllDeferred
<1>24. ASSUME NEW t \in Callers, NEW c \in Clients, AllNext(t, c) PROVE TypeOK'
  <2>1. call[t].rem \ {c} \in SUBSET Clients /\ call[t].run \in BOOLEAN
    BY ONLY CallMoves, TypeOK, t \in Callers
  <2>2. call' \in CallType
    <3>1. AllAt(t, "x_cwait", c, call[t].rem \ {c}, call[t].run)
      BY ONLY <1>24 DEF AllNext
    <3>2. "x_cwait" \in CallPcs /\ c \in Clients \union {NoClient}
      BY DEF CallPcs, CancelPcs
    <3>3. AllAt(t, "x_cwait", c, call[t].rem \ {c}, call[t].run) => call' \in CallType
      <4>1. call \in [Callers -> CallRecs]
        OBVIOUS
      <4> HIDE DEF CallPcs
      <4> QED
        BY ONLY <2>1, <3>2, <4>1 DEF AllAt, CallType, CallRecs
    <3> QED
      BY ONLY <3>1, <3>3
  <2> QED
    BY <1>24, <2>2, QueueMoves DEF AllNext
<1>25. ASSUME NEW t \in Callers, AllCheck(t) PROVE TypeOK'
  BY <1>25, CallMoves DEF AllCheck
<1>26. ASSUME NEW t \in Callers, AllLock(t) PROVE TypeOK'
  <2>1. call' \in CallType
    BY ONLY <1>26, CallMoves, TypeOK DEF AllLock, CallPcs
  <2>2. st' \in [Clients -> States]
    BY <1>26, StateMoves DEF AllLock
  <2> QED
    BY <1>26, <2>1, <2>2 DEF AllLock
<1>27. ASSUME NEW t \in Callers, AllDec(t) PROVE TypeOK'
  BY <1>27, CallMoves, VoteMoves DEF AllDec
<1>28. ASSUME NEW t \in Callers, AllBit(t) PROVE TypeOK'
  BY <1>28, CallMoves DEF AllBit
<1>29. ASSUME NEW t \in Callers, AllDone(t) PROVE TypeOK'
  BY <1>29, CallMoves, QueueMoves DEF AllDone
<1>30. ASSUME NEW t \in Callers, WaitComplete(t) PROVE TypeOK'
  <2>1. \/ \E l \in {"s_switch", "d_lock", "g_lock"} : Goto(t, l)
        \/ Continue(t)
    BY <1>30 DEF WaitComplete, WaitPcs
  <2>2. call' \in CallType
    BY <2>1, CallMoves DEF CallPcs
  <2> QED
    BY <1>30, <2>2 DEF WaitComplete
<1>31. ASSUME NEW c \in Clients, ActivateWork(c) PROVE TypeOK'
  BY <1>31 DEF ActivateWork
<1>32. ASSUME ActivateWorkInc PROVE TypeOK'
  BY <1>32, WorkMoves, VoteMoves DEF ActivateWorkInc
<1>33. ASSUME ActivateWorkState PROVE TypeOK'
  <2>1. work' \in WorkType
    BY <1>33, WorkMoves DEF ActivateWorkState
  <2>2. st' \in [Clients -> States]
    BY <1>33, StateMoves DEF ActivateWorkState
  <2>3. warned' \in BOOLEAN
    BY <1>33 DEF ActivateWorkState
  <2> QED
    BY <1>33, <2>1, <2>2, <2>3 DEF ActivateWorkState
<1>34. ASSUME ActivateWorkComplete PROVE TypeOK'
  BY <1>34, WorkMoves DEF ActivateWorkComplete
<1>35. ASSUME ActivateWorkDec PROVE TypeOK'
  BY <1>35, WorkMoves, VoteMoves DEF ActivateWorkDec
<1>36. ASSUME ActivateWorkBit PROVE TypeOK'
  BY <1>36, WorkMoves DEF ActivateWorkBit
<1>37. ASSUME NEW c \in Clients, TimerWork(c) PROVE TypeOK'
  BY <1>37 DEF TimerWork
<1>38. ASSUME TimerWorkState PROVE TypeOK'
  BY <1>38, WorkMoves, StateMoves, QueueMoves DEF TimerWorkState
<1>39. ASSUME TimerWorkDec PROVE TypeOK'
  BY <1>39, WorkMoves, VoteMoves DEF TimerWorkDec
<1>40. ASSUME TimerWorkBit PROVE TypeOK'
  BY <1>40, WorkMoves DEF TimerWorkBit
<1>41. ASSUME ScaleWork PROVE TypeOK'
  BY <1>41, WorkMoves DEF ScaleWork
<1>42. ASSUME WorkScale PROVE TypeOK'
  BY <1>42, WorkMoves, QueueMoves DEF WorkScale
<1>43. ASSUME UNCHANGED vars PROVE TypeOK'
  BY <1>43 DEF vars
<1> QED
  BY ONLY [Next]_vars, <1>1, <1>2, <1>3, <1>4, <1>5, <1>6, <1>7, <1>8, <1>9, <1>10, <1>11,
          <1>12, <1>13, <1>14, <1>15, <1>16, <1>17, <1>18, <1>19, <1>20, <1>21, <1>22,
          <1>23, <1>24, <1>25, <1>26, <1>27, <1>28, <1>29, <1>30, <1>31, <1>32, <1>33,
          <1>34, <1>35, <1>36, <1>37, <1>38, <1>39, <1>40, <1>41, <1>42, <1>43
     DEF Next, ApiCall, CallStep, WorkStart, WorkStep

-----------------------------------------------------------------------------
\* The state of every client and every context keeps its type, whatever calls
\* overlap.
THEOREM TypeCorrect == Spec => []TypeOK
<1> QED
  BY InitType, TypeStep, PTL DEF Spec

-----------------------------------------------------------------------------
\* A client that needs no vote gets none, in any step of any call.
LEMMA SkippedVotes ==
    ASSUME TypeOK, [Next]_vars, NEW c \in SkipVote PROVE vote'[c] = vote[c]
<1> USE DEF TypeOK
<1>1. ASSUME NEW d PROVE (Inc(d) \/ Dec(d)) => vote'[c] = vote[c]
  BY ClientsAssumption DEF Inc, Dec
<1>2. ASSUME NEW d \in Clients, Register(d) \/ ActivateWork(d) \/ TimerWork(d)
      PROVE  vote'[c] = vote[c]
  BY <1>2 DEF Register, ActivateWork, TimerWork, held
<1>3. ASSUME NEW t \in Callers, NEW d \in Clients,
             \/ Deregister(t, d) \/ ActivateAgain(t, d) \/ ActivateNow(t, d)
             \/ ActivateLater(t, d) \/ ActivateSync(t, d) \/ DeferredDeactivate(t, d)
             \/ DeactivateSync(t, d) \/ AllNext(t, d)
      PROVE  vote'[c] = vote[c]
  BY <1>1, <1>3 DEF Deregister, ActivateAgain, ActivateNow, IncBounded, ActivateLater,
                    ActivateSync, DeferredDeactivate, DeactivateSync, AllNext, held
<1>4. ASSUME NEW t \in Callers, SyncInc(t) \/ DeactivateDec(t) \/ AllDec(t)
      PROVE  vote'[c] = vote[c]
  BY <1>1, <1>4 DEF SyncInc, DeactivateDec, AllDec, DecBounded
<1>5. ASSUME NEW t \in Callers,
             \/ AllDeferred(t) \/ DeregisterCheck(t) \/ DeregisterFree(t) \/ ActivateNowBit(t)
             \/ SyncSwitch(t) \/ SyncLock(t) \/ SyncBit(t) \/ SyncScale(t)
             \/ DeactivateCheck(t) \/ DeactivateLock(t) \/ DeactivateSet(t)
             \/ DeactivateCancel(t) \/ DeactivateBit(t)
             \/ AllCheck(t) \/ AllLock(t) \/ AllBit(t) \/ AllDone(t) \/ WaitComplete(t)
      PROVE  vote'[c] = vote[c]
  BY <1>5 DEF AllDeferred, DeregisterCheck, DeregisterFree, ActivateNowBit, SyncSwitch, SyncLock,
              SyncBit, SyncScale, DeactivateCheck, DeactivateLock, DeactivateSet,
              DeactivateCancel, DeactivateBit, AllCheck, AllLock, AllBit, AllDone, WaitComplete,
              held
<1>6. CASE ActivateWorkInc \/ ActivateWorkDec \/ TimerWorkDec
  BY <1>1, <1>6 DEF ActivateWorkInc, IncBounded, ActivateWorkDec, TimerWorkDec, DecBounded
<1>7. CASE \/ ScaleWork \/ ActivateWorkState \/ ActivateWorkComplete \/ ActivateWorkBit
           \/ TimerWorkState \/ TimerWorkBit \/ WorkScale
  BY <1>7 DEF ScaleWork, ActivateWorkState, ActivateWorkComplete, ActivateWorkBit,
              TimerWorkState, TimerWorkBit, WorkScale, held
<1>8. CASE UNCHANGED vars
  BY <1>8 DEF vars, held
<1> QED
  BY ONLY [Next]_vars, <1>2, <1>3, <1>4, <1>5, <1>6, <1>7, <1>8
     DEF Next, ApiCall, CallStep, WorkStart, WorkStep

SkippedHoldNone == \A c \in SkipVote : vote[c] = 0

\* A client registered with skip_clk_vote never holds a clock vote, whatever
\* calls overlap (ipa_pm.c:413, 435, 496, 975, 1173, 1228).
THEOREM SkippedNoVote == Spec => []SkippedHoldNone
<1>1. Init => SkippedHoldNone
  BY ClientsAssumption DEF Init, All, SkippedHoldNone
<1>2. TypeOK /\ SkippedHoldNone /\ [Next]_vars => SkippedHoldNone'
  BY SkippedVotes DEF SkippedHoldNone
<1> QED
  BY <1>1, <1>2, TypeCorrect, PTL DEF Spec

-----------------------------------------------------------------------------
(* The asynchronous calls.                                                 *)

\* While only asynchronous calls are made, a step is one of these.
AsyncNext ==
    \/ \E c \in Clients : Register(c) \/ ActivateWork(c) \/ TimerWork(c)
    \/ \E t \in Callers, c \in Clients :
          \/ Deregister(t, c) \/ ActivateAgain(t, c) \/ ActivateNow(t, c)
          \/ ActivateLater(t, c) \/ DeferredDeactivate(t, c)
    \/ \E t \in Callers :
          \/ DeregisterCheck(t) \/ DeregisterFree(t) \/ ActivateNowBit(t)
          \/ WaitComplete(t)
    \/ ScaleWork \/ WorkStep

\* No other call starts, and none is under way.
LEMMA AsyncCases ==
    ASSUME Ops \subseteq AsyncOps, CallInv, Next
    PROVE  AsyncNext
<1> USE DEF CallInv, AsyncPcs, AsyncOps
<1>1. ASSUME NEW t \in Callers, NEW c \in Clients
      PROVE  ~ActivateSync(t, c) /\ ~DeactivateSync(t, c) /\ ~AllNext(t, c)
  BY DEF ActivateSync, DeactivateSync, AllNext, MayCall
<1>2. ASSUME NEW t \in Callers
      PROVE  /\ ~AllDeferred(t) /\ ~SyncSwitch(t) /\ ~SyncInc(t) /\ ~SyncLock(t)
             /\ ~SyncBit(t) /\ ~SyncScale(t)
  BY DEF AllDeferred, SyncSwitch, SyncInc, SyncLock, SyncBit, SyncScale
<1>3. ASSUME NEW t \in Callers
      PROVE  /\ ~DeactivateCheck(t) /\ ~DeactivateLock(t) /\ ~DeactivateDec(t)
             /\ ~DeactivateSet(t) /\ ~DeactivateCancel(t) /\ ~DeactivateBit(t)
  BY DEF DeactivateCheck, DeactivateLock, DeactivateDec, DeactivateSet,
         DeactivateCancel, DeactivateBit
<1>4. ASSUME NEW t \in Callers
      PROVE  ~AllCheck(t) /\ ~AllLock(t) /\ ~AllDec(t) /\ ~AllBit(t) /\ ~AllDone(t)
  BY DEF AllCheck, AllLock, AllDec, AllBit, AllDone
<1> HIDE DEF CallInv, AsyncPcs, AsyncOps
<1> QED
  BY <1>1, <1>2, <1>3, <1>4 DEF Next, ApiCall, CallStep, WorkStart, AsyncNext

\* The invariant of the asynchronous calls holds at first.
LEMMA AsyncInit == Init => AsyncInv
BY ClientsAssumption
   DEF Init, All, NoCall, NoWork, AsyncInv, CallInv, WorkInv, ActivationInv, TimerInv,
       VoteInv, WakeInv, One, WorkAt, AsyncPcs, Active, Timed, InProgress,
       ActivateWorkPcs, TimerWorkPcs

\* Every step of the asynchronous calls keeps it.
LEMMA AsyncStep ==
    ASSUME Ops \subseteq AsyncOps, TypeOK, AsyncInv, [Next]_vars
    PROVE  AsyncInv'
<1> USE ClientsAssumption
    DEF TypeOK, AsyncInv, CallInv, WorkInv, ActivationInv, TimerInv, VoteInv, WakeInv, One, WorkAt,
        AsyncPcs, Active, Timed, InProgress, States, ActivateWorkPcs, TimerWorkPcs, CancelPcs,
        WaitPcs, CallRecs, NoCall, NoWork, client, queue, held, scaled, Deregistering, Busy
<1>1. ASSUME NEW c \in Clients, Register(c) PROVE AsyncInv'
  <2>1. CallInv' /\ ~warned'
    BY <1>1 DEF Register, SetState
  <2>2. WorkInv'
    BY <1>1 DEF Register, SetState
  <2>3. ASSUME NEW d \in Clients PROVE (~alive[d])' => (st[d] = "deactivated")'
    BY <1>1, <2>3 DEF Register, SetState
  <2>4. ASSUME NEW d \in Clients PROVE ActivationInv(d)'
    BY <1>1, <2>4 DEF Register, SetState
  <2>5. ASSUME NEW d \in Clients PROVE TimerInv(d)'
    BY <1>1, <2>5 DEF Register, SetState
  <2>6. ASSUME NEW d \in Clients, d \notin SkipVote PROVE VoteInv(d)'
    BY <1>1, <2>6 DEF Register, SetState
  <2>7. ASSUME NEW d \in Clients PROVE WakeInv(d)'
    BY <1>1, <2>7 DEF Register, SetState
  <2> QED
    BY <2>1, <2>2, <2>3, <2>4, <2>5, <2>6, <2>7
<1>2. ASSUME NEW t \in Callers, NEW c \in Clients, Deregister(t, c) PROVE AsyncInv'
  <2>1. CallInv' /\ ~warned'
    BY <1>2 DEF Deregister, MayCall, DeregisterTest, Enter, Return
  <2>2. WorkInv'
    BY <1>2 DEF Deregister, MayCall, DeregisterTest, Enter, Return
  <2>3. ASSUME NEW d \in Clients PROVE (~alive[d])' => (st[d] = "deactivated")'
    BY <1>2, <2>3 DEF Deregister, MayCall, DeregisterTest, Enter, Return
  <2>4. ASSUME NEW d \in Clients PROVE ActivationInv(d)'
    BY <1>2, <2>4 DEF Deregister, MayCall, DeregisterTest, Enter, Return
  <2>5. ASSUME NEW d \in Clients PROVE TimerInv(d)'
    BY <1>2, <2>5 DEF Deregister, MayCall, DeregisterTest, Enter, Return
  <2>6. ASSUME NEW d \in Clients, d \notin SkipVote PROVE VoteInv(d)'
    BY <1>2, <2>6 DEF Deregister, MayCall, DeregisterTest, Enter, Return
  <2>7. ASSUME NEW d \in Clients PROVE WakeInv(d)'
    BY <1>2, <2>7 DEF Deregister, MayCall, DeregisterTest, Enter, Return
  <2> QED
    BY <2>1, <2>2, <2>3, <2>4, <2>5, <2>6, <2>7
<1>3. ASSUME NEW t \in Callers, DeregisterCheck(t) PROVE AsyncInv'
  <2>1. CallInv' /\ ~warned'
    BY <1>3, SMTT(30) DEF DeregisterCheck, DeregisterTest, Enter, Return
  <2>2. WorkInv'
    BY <1>3 DEF DeregisterCheck, DeregisterTest, Enter, Return
  <2>3. ASSUME NEW d \in Clients PROVE (~alive[d])' => (st[d] = "deactivated")'
    BY <1>3, <2>3 DEF DeregisterCheck, DeregisterTest, Enter, Return
  <2>4. ASSUME NEW d \in Clients PROVE ActivationInv(d)'
    BY <1>3, <2>4 DEF DeregisterCheck, DeregisterTest, Enter, Return
  <2>5. ASSUME NEW d \in Clients PROVE TimerInv(d)'
    BY <1>3, <2>5 DEF DeregisterCheck, DeregisterTest, Enter, Return
  <2>6. ASSUME NEW d \in Clients, d \notin SkipVote PROVE VoteInv(d)'
    BY <1>3, <2>6 DEF DeregisterCheck, DeregisterTest, Enter, Return
  <2>7. ASSUME NEW d \in Clients PROVE WakeInv(d)'
    BY <1>3, <2>7 DEF DeregisterCheck, DeregisterTest, Enter, Return
  <2> QED
    BY <2>1, <2>2, <2>3, <2>4, <2>5, <2>6, <2>7
<1>4. ASSUME NEW t \in Callers, DeregisterFree(t) PROVE AsyncInv'
  <2>1. CallInv' /\ ~warned'
    BY <1>4 DEF DeregisterFree, Return
  <2>2. WorkInv'
    BY <1>4 DEF DeregisterFree, Return
  <2>3. ASSUME NEW d \in Clients PROVE (~alive[d])' => (st[d] = "deactivated")'
    BY <1>4, <2>3 DEF DeregisterFree, Return
  <2>4. ASSUME NEW d \in Clients PROVE ActivationInv(d)'
    BY <1>4, <2>4 DEF DeregisterFree, Return
  <2>5. ASSUME NEW d \in Clients PROVE TimerInv(d)'
    BY <1>4, <2>5 DEF DeregisterFree, Return
  <2>6. ASSUME NEW d \in Clients, d \notin SkipVote PROVE VoteInv(d)'
    BY <1>4, <2>6 DEF DeregisterFree, Return
  <2>7. ASSUME NEW d \in Clients PROVE WakeInv(d)'
    BY <1>4, <2>7 DEF DeregisterFree, Return
  <2> QED
    BY <2>1, <2>2, <2>3, <2>4, <2>5, <2>6, <2>7
<1>5. ASSUME NEW t \in Callers, NEW c \in Clients, ActivateAgain(t, c) PROVE AsyncInv'
  <2>1. CallInv' /\ ~warned'
    BY <1>5 DEF ActivateAgain, MayCall, SetState, Reactivated
  <2>2. WorkInv'
    BY <1>5 DEF ActivateAgain, MayCall, SetState, Reactivated
  <2>3. ASSUME NEW d \in Clients PROVE (~alive[d])' => (st[d] = "deactivated")'
    BY <1>5, <2>3 DEF ActivateAgain, MayCall, SetState, Reactivated
  <2>4. ASSUME NEW d \in Clients PROVE ActivationInv(d)'
    BY <1>5, <2>4 DEF ActivateAgain, MayCall, SetState, Reactivated
  <2>5. ASSUME NEW d \in Clients PROVE TimerInv(d)'
    BY <1>5, <2>5 DEF ActivateAgain, MayCall, SetState, Reactivated
  <2>6. ASSUME NEW d \in Clients, d \notin SkipVote PROVE VoteInv(d)'
    BY <1>5, <2>6 DEF ActivateAgain, MayCall, SetState, Reactivated
  <2>7. ASSUME NEW d \in Clients PROVE WakeInv(d)'
    BY <1>5, <2>7 DEF ActivateAgain, MayCall, SetState, Reactivated
  <2> QED
    BY <2>1, <2>2, <2>3, <2>4, <2>5, <2>6, <2>7
<1>6. ASSUME NEW t \in Callers, NEW c \in Clients, ActivateNow(t, c) PROVE AsyncInv'
  <2>1. CallInv' /\ ~warned'
    BY <1>6 DEF ActivateNow, MayCall, SetState, IncBounded, Inc, Enter
  <2>2. WorkInv'
    BY <1>6 DEF ActivateNow, MayCall, SetState, IncBounded, Inc, Enter
  <2>3. ASSUME NEW d \in Clients PROVE (~alive[d])' => (st[d] = "deactivated")'
    BY <1>6, <2>3 DEF ActivateNow, MayCall, SetState, IncBounded, Inc, Enter
  <2>4. ASSUME NEW d \in Clients PROVE ActivationInv(d)'
    BY <1>6, <2>4 DEF ActivateNow, MayCall, SetState, IncBounded, Inc, Enter
  <2>5. ASSUME NEW d \in Clients PROVE TimerInv(d)'
    BY <1>6, <2>5 DEF ActivateNow, MayCall, SetState, IncBounded, Inc, Enter
  <2>6. ASSUME NEW d \in Clients, d \notin SkipVote PROVE VoteInv(d)'
    BY <1>6, <2>6 DEF ActivateNow, MayCall, SetState, IncBounded, Inc, Enter
  <2>7. ASSUME NEW d \in Clients PROVE WakeInv(d)'
    BY <1>6, <2>7 DEF ActivateNow, MayCall, SetState, IncBounded, Inc, Enter, StayAwake
  <2> QED
    BY <2>1, <2>2, <2>3, <2>4, <2>5, <2>6, <2>7
<1>7. ASSUME NEW t \in Callers, ActivateNowBit(t) PROVE AsyncInv'
  <2>1. CallInv' /\ ~warned'
    BY <1>7 DEF ActivateNowBit, Return
  <2>2. WorkInv'
    BY <1>7 DEF ActivateNowBit, Return
  <2>3. ASSUME NEW d \in Clients PROVE (~alive[d])' => (st[d] = "deactivated")'
    BY <1>7, <2>3 DEF ActivateNowBit, Return
  <2>4. ASSUME NEW d \in Clients PROVE ActivationInv(d)'
    BY <1>7, <2>4 DEF ActivateNowBit, Return
  <2>5. ASSUME NEW d \in Clients PROVE TimerInv(d)'
    BY <1>7, <2>5 DEF ActivateNowBit, Return
  <2>6. ASSUME NEW d \in Clients, d \notin SkipVote PROVE VoteInv(d)'
    BY <1>7, <2>6 DEF ActivateNowBit, Return
  <2>7. ASSUME NEW d \in Clients PROVE WakeInv(d)'
    BY <1>7, <2>7 DEF ActivateNowBit, Return
  <2> QED
    BY <2>1, <2>2, <2>3, <2>4, <2>5, <2>6, <2>7
<1>8. ASSUME NEW t \in Callers, NEW c \in Clients, ActivateLater(t, c) PROVE AsyncInv'
  <2>1. CallInv' /\ ~warned'
    BY <1>8 DEF ActivateLater, MayCall, SetState
  <2>2. WorkInv'
    BY <1>8 DEF ActivateLater, MayCall, SetState
  <2>3. ASSUME NEW d \in Clients PROVE (~alive[d])' => (st[d] = "deactivated")'
    BY <1>8, <2>3 DEF ActivateLater, MayCall, SetState
  <2>4. ASSUME NEW d \in Clients PROVE ActivationInv(d)'
    BY <1>8, <2>4 DEF ActivateLater, MayCall, SetState
  <2>5. ASSUME NEW d \in Clients PROVE TimerInv(d)'
    BY <1>8, <2>5 DEF ActivateLater, MayCall, SetState
  <2>6. ASSUME NEW d \in Clients, d \notin SkipVote PROVE VoteInv(d)'
    BY <1>8, <2>6 DEF ActivateLater, MayCall, SetState
  <2>7. ASSUME NEW d \in Clients PROVE WakeInv(d)'
    BY <1>8, <2>7 DEF ActivateLater, MayCall, SetState
  <2> QED
    BY <2>1, <2>2, <2>3, <2>4, <2>5, <2>6, <2>7
<1>9. ASSUME NEW t \in Callers, NEW c \in Clients, DeferredDeactivate(t, c) PROVE AsyncInv'
  <2>1. CallInv' /\ ~warned'
    BY <1>9 DEF DeferredDeactivate, MayCall, SetState, Deferred, QueueTimer
  <2>2. WorkInv'
    BY <1>9 DEF DeferredDeactivate, MayCall, SetState, Deferred, QueueTimer
  <2>3. ASSUME NEW d \in Clients PROVE (~alive[d])' => (st[d] = "deactivated")'
    BY <1>9, <2>3 DEF DeferredDeactivate, MayCall, SetState, Deferred, QueueTimer
  <2>4. ASSUME NEW d \in Clients PROVE ActivationInv(d)'
    BY <1>9, <2>4 DEF DeferredDeactivate, MayCall, SetState, Deferred, QueueTimer
  <2>5. ASSUME NEW d \in Clients PROVE TimerInv(d)'
    BY <1>9, <2>5 DEF DeferredDeactivate, MayCall, SetState, Deferred, QueueTimer
  <2>6. ASSUME NEW d \in Clients, d \notin SkipVote PROVE VoteInv(d)'
    BY <1>9, <2>6 DEF DeferredDeactivate, MayCall, SetState, Deferred, QueueTimer
  <2>7. ASSUME NEW d \in Clients PROVE WakeInv(d)'
    BY <1>9, <2>7 DEF DeferredDeactivate, MayCall, SetState, Deferred, QueueTimer
  <2> QED
    BY <2>1, <2>2, <2>3, <2>4, <2>5, <2>6, <2>7
<1>10. ASSUME NEW t \in Callers, WaitComplete(t) PROVE AsyncInv'
  <2>1. CallInv' /\ ~warned'
    <3>1. call[t].at = "g_wait" /\ Goto(t, "g_lock") /\ UNCHANGED <<st, warned>>
      BY <1>10 DEF WaitComplete
    <3>2. st[call[t].c] \notin InProgress
      BY <1>10, <3>1 DEF WaitComplete
    <3> QED
      BY <3>1, <3>2 DEF Goto
  <2>2. WorkInv'
    BY <1>10 DEF WaitComplete, Goto, Continue
  <2>3. ASSUME NEW d \in Clients PROVE (~alive[d])' => (st[d] = "deactivated")'
    BY <1>10, <2>3 DEF WaitComplete, Goto, Continue
  <2>4. ASSUME NEW d \in Clients PROVE ActivationInv(d)'
    BY <1>10, <2>4 DEF WaitComplete, Goto, Continue
  <2>5. ASSUME NEW d \in Clients PROVE TimerInv(d)'
    BY <1>10, <2>5 DEF WaitComplete, Goto, Continue
  <2>6. ASSUME NEW d \in Clients, d \notin SkipVote PROVE VoteInv(d)'
    BY <1>10, <2>6 DEF WaitComplete, Goto, Continue
  <2>7. ASSUME NEW d \in Clients PROVE WakeInv(d)'
    BY <1>10, <2>7 DEF WaitComplete, Goto, Continue
  <2> QED
    BY <2>1, <2>2, <2>3, <2>4, <2>5, <2>6, <2>7
<1>11. ASSUME NEW c \in Clients, ActivateWork(c) PROVE AsyncInv'
  <2>1. CallInv' /\ ~warned'
    BY <1>11 DEF ActivateWork
  <2>2. WorkInv'
    BY <1>11 DEF ActivateWork
  <2>3. ASSUME NEW d \in Clients PROVE (~alive[d])' => (st[d] = "deactivated")'
    BY <1>11, <2>3 DEF ActivateWork
  <2>4. ASSUME NEW d \in Clients PROVE ActivationInv(d)'
    BY <1>11, <2>4 DEF ActivateWork
  <2>5. ASSUME NEW d \in Clients PROVE TimerInv(d)'
    BY <1>11, <2>5 DEF ActivateWork
  <2>6. ASSUME NEW d \in Clients, d \notin SkipVote PROVE VoteInv(d)'
    BY <1>11, <2>6 DEF ActivateWork
  <2>7. ASSUME NEW d \in Clients PROVE WakeInv(d)'
    BY <1>11, <2>7 DEF ActivateWork
  <2> QED
    BY <2>1, <2>2, <2>3, <2>4, <2>5, <2>6, <2>7
<1>12. ASSUME ActivateWorkInc PROVE AsyncInv'
  <2>1. CallInv' /\ ~warned'
    BY <1>12 DEF ActivateWorkInc, IncBounded, Inc, WorkGoto
  <2>2. WorkInv'
    BY <1>12 DEF ActivateWorkInc, IncBounded, Inc, WorkGoto
  <2>3. ASSUME NEW d \in Clients PROVE (~alive[d])' => (st[d] = "deactivated")'
    BY <1>12, <2>3 DEF ActivateWorkInc, IncBounded, Inc, WorkGoto
  <2>4. ASSUME NEW d \in Clients PROVE ActivationInv(d)'
    BY <1>12, <2>4 DEF ActivateWorkInc, IncBounded, Inc, WorkGoto
  <2>5. ASSUME NEW d \in Clients PROVE TimerInv(d)'
    BY <1>12, <2>5 DEF ActivateWorkInc, IncBounded, Inc, WorkGoto
  <2>6. ASSUME NEW d \in Clients, d \notin SkipVote PROVE VoteInv(d)'
    BY <1>12, <2>6 DEF ActivateWorkInc, IncBounded, Inc, WorkGoto
  <2>7. ASSUME NEW d \in Clients PROVE WakeInv(d)'
    BY <1>12, <2>7 DEF ActivateWorkInc, IncBounded, Inc, WorkGoto, StayAwake
  <2> QED
    BY <2>1, <2>2, <2>3, <2>4, <2>5, <2>6, <2>7
<1>13. ASSUME ActivateWorkState PROVE AsyncInv'
  <2>1. CallInv' /\ ~warned'
    BY <1>13 DEF ActivateWorkState, SetState, WorkGoto
  <2>2. WorkInv'
    BY <1>13 DEF ActivateWorkState, SetState, WorkGoto
  <2>3. ASSUME NEW d \in Clients PROVE (~alive[d])' => (st[d] = "deactivated")'
    BY <1>13, <2>3 DEF ActivateWorkState, SetState, WorkGoto
  <2>4. ASSUME NEW d \in Clients PROVE ActivationInv(d)'
    BY <1>13, <2>4 DEF ActivateWorkState, SetState, WorkGoto
  <2>5. ASSUME NEW d \in Clients PROVE TimerInv(d)'
    BY <1>13, <2>5 DEF ActivateWorkState, SetState, WorkGoto
  <2>6. ASSUME NEW d \in Clients, d \notin SkipVote PROVE VoteInv(d)'
    BY <1>13, <2>6 DEF ActivateWorkState, SetState, WorkGoto
  <2>7. ASSUME NEW d \in Clients PROVE WakeInv(d)'
    BY <1>13, <2>7 DEF ActivateWorkState, SetState, WorkGoto
  <2> QED
    BY <2>1, <2>2, <2>3, <2>4, <2>5, <2>6, <2>7
<1>14. ASSUME ActivateWorkComplete PROVE AsyncInv'
  <2>1. CallInv' /\ ~warned'
    BY <1>14 DEF ActivateWorkComplete, WorkGoto
  <2>2. WorkInv'
    BY <1>14 DEF ActivateWorkComplete, WorkGoto
  <2>3. ASSUME NEW d \in Clients PROVE (~alive[d])' => (st[d] = "deactivated")'
    BY <1>14, <2>3 DEF ActivateWorkComplete, WorkGoto
  <2>4. ASSUME NEW d \in Clients PROVE ActivationInv(d)'
    BY <1>14, <2>4 DEF ActivateWorkComplete, WorkGoto
  <2>5. ASSUME NEW d \in Clients PROVE TimerInv(d)'
    BY <1>14, <2>5 DEF ActivateWorkComplete, WorkGoto
  <2>6. ASSUME NEW d \in Clients, d \notin SkipVote PROVE VoteInv(d)'
    BY <1>14, <2>6 DEF ActivateWorkComplete, WorkGoto
  <2>7. ASSUME NEW d \in Clients PROVE WakeInv(d)'
    BY <1>14, <2>7 DEF ActivateWorkComplete, WorkGoto
  <2> QED
    BY <2>1, <2>2, <2>3, <2>4, <2>5, <2>6, <2>7
<1>15. ASSUME ActivateWorkDec PROVE AsyncInv'
  <2>1. CallInv' /\ ~warned'
    BY <1>15 DEF ActivateWorkDec, DecBounded, Dec, WorkDone
  <2>2. WorkInv'
    BY <1>15 DEF ActivateWorkDec, DecBounded, Dec, WorkDone
  <2>3. ASSUME NEW d \in Clients PROVE (~alive[d])' => (st[d] = "deactivated")'
    BY <1>15, <2>3 DEF ActivateWorkDec, DecBounded, Dec, WorkDone
  <2>4. ASSUME NEW d \in Clients PROVE ActivationInv(d)'
    BY <1>15, <2>4 DEF ActivateWorkDec, DecBounded, Dec, WorkDone
  <2>5. ASSUME NEW d \in Clients PROVE TimerInv(d)'
    BY <1>15, <2>5 DEF ActivateWorkDec, DecBounded, Dec, WorkDone
  <2>6. ASSUME NEW d \in Clients, d \notin SkipVote PROVE VoteInv(d)'
    BY <1>15, <2>6 DEF ActivateWorkDec, DecBounded, Dec, WorkDone
  <2>7. ASSUME NEW d \in Clients PROVE WakeInv(d)'
    BY <1>15, <2>7, GroupsAssumption DEF ActivateWorkDec, DecBounded, Dec, WorkDone, Relax
  <2> QED
    BY <2>1, <2>2, <2>3, <2>4, <2>5, <2>6, <2>7
<1>16. ASSUME ActivateWorkBit PROVE AsyncInv'
  <2>1. CallInv' /\ ~warned'
    BY <1>16 DEF ActivateWorkBit, WorkGoto
  <2>2. WorkInv'
    BY <1>16 DEF ActivateWorkBit, WorkGoto
  <2>3. ASSUME NEW d \in Clients PROVE (~alive[d])' => (st[d] = "deactivated")'
    BY <1>16, <2>3 DEF ActivateWorkBit, WorkGoto
  <2>4. ASSUME NEW d \in Clients PROVE ActivationInv(d)'
    BY <1>16, <2>4 DEF ActivateWorkBit, WorkGoto
  <2>5. ASSUME NEW d \in Clients PROVE TimerInv(d)'
    BY <1>16, <2>5 DEF ActivateWorkBit, WorkGoto
  <2>6. ASSUME NEW d \in Clients, d \notin SkipVote PROVE VoteInv(d)'
    BY <1>16, <2>6 DEF ActivateWorkBit, WorkGoto
  <2>7. ASSUME NEW d \in Clients PROVE WakeInv(d)'
    BY <1>16, <2>7 DEF ActivateWorkBit, WorkGoto
  <2> QED
    BY <2>1, <2>2, <2>3, <2>4, <2>5, <2>6, <2>7
<1>17. ASSUME NEW c \in Clients, TimerWork(c) PROVE AsyncInv'
  <2>1. CallInv' /\ ~warned'
    BY <1>17 DEF TimerWork
  <2>2. WorkInv'
    BY <1>17 DEF TimerWork
  <2>3. ASSUME NEW d \in Clients PROVE (~alive[d])' => (st[d] = "deactivated")'
    BY <1>17, <2>3 DEF TimerWork
  <2>4. ASSUME NEW d \in Clients PROVE ActivationInv(d)'
    BY <1>17, <2>4 DEF TimerWork
  <2>5. ASSUME NEW d \in Clients PROVE TimerInv(d)'
    BY <1>17, <2>5 DEF TimerWork
  <2>6. ASSUME NEW d \in Clients, d \notin SkipVote PROVE VoteInv(d)'
    BY <1>17, <2>6 DEF TimerWork
  <2>7. ASSUME NEW d \in Clients PROVE WakeInv(d)'
    BY <1>17, <2>7 DEF TimerWork
  <2> QED
    BY <2>1, <2>2, <2>3, <2>4, <2>5, <2>6, <2>7
<1>18. ASSUME TimerWorkState PROVE AsyncInv'
  <2>1. CallInv' /\ ~warned'
    BY <1>18 DEF TimerWorkState, SetState, QueueTimer, WorkDone, WorkGoto
  <2>2. WorkInv'
    BY <1>18 DEF TimerWorkState, SetState, QueueTimer, WorkDone, WorkGoto
  <2>3. ASSUME NEW d \in Clients PROVE (~alive[d])' => (st[d] = "deactivated")'
    BY <1>18, <2>3 DEF TimerWorkState, SetState, QueueTimer, WorkDone, WorkGoto
  <2>4. ASSUME NEW d \in Clients PROVE ActivationInv(d)'
    BY <1>18, <2>4 DEF TimerWorkState, SetState, QueueTimer, WorkDone, WorkGoto
  <2>5. ASSUME NEW d \in Clients PROVE TimerInv(d)'
    BY <1>18, <2>5 DEF TimerWorkState, SetState, QueueTimer, WorkDone, WorkGoto
  <2>6. ASSUME NEW d \in Clients, d \notin SkipVote PROVE VoteInv(d)'
    BY <1>18, <2>6 DEF TimerWorkState, SetState, QueueTimer, WorkDone, WorkGoto
  <2>7. ASSUME NEW d \in Clients PROVE WakeInv(d)'
    BY <1>18, <2>7 DEF TimerWorkState, SetState, QueueTimer, WorkDone, WorkGoto
  <2> QED
    BY <2>1, <2>2, <2>3, <2>4, <2>5, <2>6, <2>7
<1>19. ASSUME TimerWorkDec PROVE AsyncInv'
  <2>1. CallInv' /\ ~warned'
    BY <1>19 DEF TimerWorkDec, DecBounded, Dec, WorkGoto
  <2>2. WorkInv'
    BY <1>19 DEF TimerWorkDec, DecBounded, Dec, WorkGoto
  <2>3. ASSUME NEW d \in Clients PROVE (~alive[d])' => (st[d] = "deactivated")'
    BY <1>19, <2>3 DEF TimerWorkDec, DecBounded, Dec, WorkGoto
  <2>4. ASSUME NEW d \in Clients PROVE ActivationInv(d)'
    BY <1>19, <2>4 DEF TimerWorkDec, DecBounded, Dec, WorkGoto
  <2>5. ASSUME NEW d \in Clients PROVE TimerInv(d)'
    BY <1>19, <2>5 DEF TimerWorkDec, DecBounded, Dec, WorkGoto
  <2>6. ASSUME NEW d \in Clients, d \notin SkipVote PROVE VoteInv(d)'
    BY <1>19, <2>6 DEF TimerWorkDec, DecBounded, Dec, WorkGoto
  <2>7. ASSUME NEW d \in Clients PROVE WakeInv(d)'
    BY <1>19, <2>7, GroupsAssumption DEF TimerWorkDec, DecBounded, Dec, WorkGoto, Relax
  <2> QED
    BY <2>1, <2>2, <2>3, <2>4, <2>5, <2>6, <2>7
<1>20. ASSUME TimerWorkBit PROVE AsyncInv'
  <2>1. CallInv' /\ ~warned'
    BY <1>20 DEF TimerWorkBit, WorkGoto
  <2>2. WorkInv'
    BY <1>20 DEF TimerWorkBit, WorkGoto
  <2>3. ASSUME NEW d \in Clients PROVE (~alive[d])' => (st[d] = "deactivated")'
    BY <1>20, <2>3 DEF TimerWorkBit, WorkGoto
  <2>4. ASSUME NEW d \in Clients PROVE ActivationInv(d)'
    BY <1>20, <2>4 DEF TimerWorkBit, WorkGoto
  <2>5. ASSUME NEW d \in Clients PROVE TimerInv(d)'
    BY <1>20, <2>5 DEF TimerWorkBit, WorkGoto
  <2>6. ASSUME NEW d \in Clients, d \notin SkipVote PROVE VoteInv(d)'
    BY <1>20, <2>6 DEF TimerWorkBit, WorkGoto
  <2>7. ASSUME NEW d \in Clients PROVE WakeInv(d)'
    BY <1>20, <2>7 DEF TimerWorkBit, WorkGoto
  <2> QED
    BY <2>1, <2>2, <2>3, <2>4, <2>5, <2>6, <2>7
<1>21. ASSUME ScaleWork PROVE AsyncInv'
  <2>1. CallInv' /\ ~warned'
    BY <1>21 DEF ScaleWork, WorkGoto
  <2>2. WorkInv'
    BY <1>21 DEF ScaleWork, WorkGoto
  <2>3. ASSUME NEW d \in Clients PROVE (~alive[d])' => (st[d] = "deactivated")'
    BY <1>21, <2>3 DEF ScaleWork, WorkGoto
  <2>4. ASSUME NEW d \in Clients PROVE ActivationInv(d)'
    BY <1>21, <2>4 DEF ScaleWork, WorkGoto
  <2>5. ASSUME NEW d \in Clients PROVE TimerInv(d)'
    BY <1>21, <2>5 DEF ScaleWork, WorkGoto
  <2>6. ASSUME NEW d \in Clients, d \notin SkipVote PROVE VoteInv(d)'
    BY <1>21, <2>6 DEF ScaleWork, WorkGoto
  <2>7. ASSUME NEW d \in Clients PROVE WakeInv(d)'
    BY <1>21, <2>7 DEF ScaleWork, WorkGoto
  <2> QED
    BY <2>1, <2>2, <2>3, <2>4, <2>5, <2>6, <2>7
<1>22. ASSUME WorkScale PROVE AsyncInv'
  <2>1. CallInv' /\ ~warned'
    BY <1>22 DEF WorkScale, WorkDone
  <2>2. WorkInv'
    BY <1>22 DEF WorkScale, WorkDone
  <2>3. ASSUME NEW d \in Clients PROVE (~alive[d])' => (st[d] = "deactivated")'
    BY <1>22, <2>3 DEF WorkScale, WorkDone
  <2>4. ASSUME NEW d \in Clients PROVE ActivationInv(d)'
    BY <1>22, <2>4 DEF WorkScale, WorkDone
  <2>5. ASSUME NEW d \in Clients PROVE TimerInv(d)'
    BY <1>22, <2>5 DEF WorkScale, WorkDone
  <2>6. ASSUME NEW d \in Clients, d \notin SkipVote PROVE VoteInv(d)'
    BY <1>22, <2>6 DEF WorkScale, WorkDone
  <2>7. ASSUME NEW d \in Clients PROVE WakeInv(d)'
    BY <1>22, <2>7 DEF WorkScale, WorkDone
  <2> QED
    BY <2>1, <2>2, <2>3, <2>4, <2>5, <2>6, <2>7
<1>23. ASSUME UNCHANGED vars PROVE AsyncInv'
  BY <1>23 DEF vars
<1> QED
  BY ONLY AsyncCases, Ops \subseteq AsyncOps, AsyncInv, [Next]_vars,
     <1>1, <1>2, <1>3, <1>4, <1>5, <1>6, <1>7, <1>8, <1>9, <1>10, <1>11, <1>12, <1>13,
     <1>14, <1>15, <1>16, <1>17, <1>18, <1>19, <1>20, <1>21, <1>22, <1>23
     DEF AsyncNext, WorkStep, AsyncInv

\* The invariant of the asynchronous calls is an invariant.
THEOREM AsyncInductive ==
    ASSUME Ops \subseteq AsyncOps PROVE Spec => [](TypeOK /\ AsyncInv)
<1>1. Init => TypeOK /\ AsyncInv
  BY InitType, AsyncInit
<1>2. TypeOK /\ AsyncInv /\ [Next]_vars => (TypeOK /\ AsyncInv)'
  BY TypeStep, AsyncStep
<1> QED
  BY <1>1, <1>2, PTL DEF Spec

\* With asynchronous calls only, the votes of a client are balanced at every
\* moment, however the callers, the timers and the worker interleave.
THEOREM AsyncVotes == ASSUME Ops \subseteq AsyncOps PROVE Spec => []VotesBalanced
<1>1. TypeOK /\ AsyncInv => VotesBalanced
  <2> SUFFICES ASSUME TypeOK, AsyncInv, NEW c \in Clients \ SkipVote
               PROVE  vote[c] = One(st[c] \in Active)
                        + One(WorkAt(c, {"act_state", "act_undo", "act_dec", "tmr_dec"}))
                        + Cardinality(At(c, {"s_lock", "x_dec"}))
                        - Cardinality(At(c, {"d_set"}))
    BY DEF VotesBalanced
  <2>1. At(c, {"s_lock", "x_dec"}) = {} /\ At(c, {"d_set"}) = {}
    BY DEF AsyncInv, CallInv, At, AsyncPcs
  <2>2. Cardinality({}) = 0
    BY FS_EmptySet
  <2>3. VoteInv(c)
    BY DEF AsyncInv
  <2>4. Cardinality(At(c, {"s_lock", "x_dec"})) = 0 /\ Cardinality(At(c, {"d_set"})) = 0
    BY <2>1, <2>2
  <2>5. \A b : One(b) \in Int
    BY DEF One
  <2> QED
    BY <2>3, <2>4, <2>5 DEF VoteInv
<1> QED
  BY <1>1, AsyncInductive, PTL

\* With asynchronous calls only, no WARN_ON of a work function is reached.
THEOREM AsyncExpected == ASSUME Ops \subseteq AsyncOps PROVE Spec => []NoUnexpectedState
<1>1. TypeOK /\ AsyncInv => NoUnexpectedState
  BY DEF AsyncInv, NoUnexpectedState
<1> QED
  BY <1>1, AsyncInductive, PTL

\* With asynchronous calls only, a client in a timed state is never forgotten.
THEOREM AsyncTimers == ASSUME Ops \subseteq AsyncOps PROVE Spec => []TimerCovered
<1>1. TypeOK /\ AsyncInv => TimerCovered
  BY DEF AsyncInv, TimerInv, TimerCovered
<1> QED
  BY <1>1, AsyncInductive, PTL

\* With asynchronous calls only, an idle client holds no wakeup source.
THEOREM AsyncWake == ASSUME Ops \subseteq AsyncOps PROVE Spec => []NoWakeLeak
<1>1. TypeOK /\ AsyncInv => NoWakeLeak
  BY DEF AsyncInv, WakeInv, WorkAt, NoWakeLeak, AtRest, Active, Timed
<1> QED
  BY <1>1, AsyncInductive, PTL

-----------------------------------------------------------------------------
(* The clock scaling after asynchronous calls.                             *)

ActiveClients == {c \in Clients : alive[c] /\ st[c] \in Active}

\* A scaling is queued or runs, or a context that has changed what is active
\* is on its way to one.
ScalingDue ==
    \/ scaleWork
    \/ work.at \in {"scale", "act_done", "act_bit", "act_scale", "tmr_dec", "tmr_bit", "tmr_scale"}
    \/ \E t \in Callers : call[t].at = "a_bit"

\* Unless a scaling is due, the aggregate is that of the active clients or no
\* client that votes is active; one that needs no vote never holds one.
ScaleInv ==
    /\ ScalingDue \/ agg = ActiveClients \/ \A c \in Clients \ SkipVote : st[c] \notin Active
    /\ \A c \in SkipVote : vote[c] = 0

\* A step changes what is active only if a scaling is due after it.
LEMMA ActiveMoves ==
    ASSUME TypeOK, AsyncInv, AsyncNext
    PROVE  \/ ScalingDue'
           \/ \A c \in Clients : (alive'[c] /\ st'[c] \in Active) <=> (alive[c] /\ st[c] \in Active)
<1> USE ClientsAssumption DEF TypeOK, States, Active, Timed, InProgress
<1> DEFINE Goal ==
      \/ ScalingDue'
      \/ \A c \in Clients : (alive'[c] /\ st'[c] \in Active) <=> (alive[c] /\ st[c] \in Active)
<1>0. \A c \in Clients : ~alive[c] => st[c] = "deactivated"
  BY DEF AsyncInv
<1>1. ASSUME NEW c \in Clients, Register(c) PROVE Goal
  BY <1>0, <1>1 DEF Register, SetState
<1>2. ASSUME NEW t \in Callers, DeregisterFree(t) PROVE Goal
  <2>1. call[t].c \in Clients /\ st[call[t].c] = "deactivated"
    BY <1>2 DEF AsyncInv, CallInv, DeregisterFree
  <2> QED
    BY <1>2, <2>1 DEF DeregisterFree
<1>3. ASSUME NEW t \in Callers, NEW c \in Clients, ActivateNow(t, c) PROVE Goal
  <2>1. call'[t].at = "a_bit"
    BY <1>3 DEF ActivateNow, Enter, CallRecs
  <2> QED
    BY <2>1 DEF ScalingDue
<1>4. ASSUME NEW t \in Callers, NEW c \in Clients,
             ActivateAgain(t, c) \/ ActivateLater(t, c) \/ DeferredDeactivate(t, c)
      PROVE  Goal
  BY <1>4 DEF ActivateAgain, ActivateLater, DeferredDeactivate, SetState, Reactivated, Deferred
<1>5. ASSUME ActivateWorkState PROVE Goal
  <2>1. work.c \in Clients
    BY <1>5 DEF AsyncInv, WorkInv, ActivateWorkState, ActivateWorkPcs
  <2>2. CASE st[work.c] = "deact_progress"
    BY <1>5, <2>1, <2>2 DEF ActivateWorkState, SetState
  <2>3. CASE st[work.c] # "deact_progress"
    BY <1>5, <2>3 DEF ActivateWorkState, WorkGoto, ScalingDue
  <2> QED
    BY <2>2, <2>3
<1>6. ASSUME TimerWorkState PROVE Goal
  <2>1. work.c \in Clients
    BY <1>6 DEF AsyncInv, WorkInv, TimerWorkState, TimerWorkPcs
  <2>2. CASE st[work.c] = "pending_deact"
    BY <1>6, <2>2 DEF TimerWorkState, WorkGoto, ScalingDue
  <2>3. CASE st[work.c] # "pending_deact"
    BY <1>6, <2>1, <2>3 DEF TimerWorkState, SetState
  <2> QED
    BY <2>2, <2>3
<1>7. ASSUME UNCHANGED <<alive, st>> PROVE Goal
  BY <1>7
<1>8. ASSUME NEW c \in Clients, ActivateWork(c) \/ TimerWork(c) PROVE Goal
  BY <1>7, <1>8 DEF ActivateWork, TimerWork, client
<1>9. ASSUME NEW t \in Callers, NEW c \in Clients, Deregister(t, c) PROVE Goal
  BY <1>7, <1>9 DEF Deregister, client
<1>10. ASSUME NEW t \in Callers, DeregisterCheck(t) \/ ActivateNowBit(t) \/ WaitComplete(t)
       PROVE  Goal
  BY <1>7, <1>10 DEF DeregisterCheck, ActivateNowBit, WaitComplete, client
<1>11. CASE \/ ScaleWork \/ ActivateWorkInc \/ ActivateWorkComplete \/ ActivateWorkDec
            \/ ActivateWorkBit \/ TimerWorkDec \/ TimerWorkBit \/ WorkScale
  BY <1>7, <1>11 DEF ScaleWork, ActivateWorkInc, ActivateWorkComplete, ActivateWorkDec,
                     ActivateWorkBit, TimerWorkDec, TimerWorkBit, WorkScale, client
<1> QED
  BY ONLY AsyncNext, <1>1, <1>2, <1>3, <1>4, <1>5, <1>6, <1>8, <1>9, <1>10, <1>11
     DEF AsyncNext, WorkStep

\* A scaling that is due stays due until it runs, and then the aggregate is
\* that of the active clients, or no vote was there to open the clocks.
LEMMA DueMoves ==
    ASSUME TypeOK, AsyncInv, AsyncNext, ScalingDue, ~ScalingDue'
    PROVE  /\ UNCHANGED <<alive, st>>
           /\ agg' = ActiveClients \/ \A c \in Clients : vote[c] <= 0
<1> USE ClientsAssumption DEF TypeOK, CallRecs, ScalingDue
<1>1. ASSUME scaleWork' = scaleWork, work' = work,
             \A t \in Callers : call[t].at = "a_bit" => call'[t].at = "a_bit"
      PROVE  FALSE
  BY <1>1
<1>2. ASSUME NEW c \in Clients, Register(c) PROVE FALSE
  BY <1>1, <1>2 DEF Register, queue
<1>3. ASSUME NEW c \in Clients, ActivateWork(c) \/ TimerWork(c) PROVE FALSE
  BY <1>3 DEF ActivateWork, TimerWork
<1>4. ASSUME NEW t \in Callers, NEW c \in Clients, Deregister(t, c) PROVE FALSE
  <2>1. \A u \in Callers : call[u].at = "a_bit" => call'[u] = call[u]
    BY <1>4 DEF Deregister, MayCall, DeregisterTest, Enter, Return
  <2> QED
    BY <1>1, <1>4, <2>1 DEF Deregister, queue
<1>5. ASSUME NEW t \in Callers, NEW c \in Clients, ActivateNow(t, c) PROVE FALSE
  <2>1. call'[t].at = "a_bit"
    BY <1>5 DEF ActivateNow, Enter
  <2> QED
    BY <2>1
<1>6. ASSUME NEW t \in Callers, NEW c \in Clients,
             ActivateAgain(t, c) \/ ActivateLater(t, c) \/ DeferredDeactivate(t, c)
      PROVE  FALSE
  BY <1>1, <1>6 DEF ActivateAgain, ActivateLater, DeferredDeactivate, queue
<1>7. ASSUME NEW t \in Callers, DeregisterCheck(t) \/ DeregisterFree(t) \/ WaitComplete(t)
      PROVE  FALSE
  <2>1. call[t].at # "a_bit" /\ scaleWork' = scaleWork /\ work' = work
    BY <1>7 DEF DeregisterCheck, DeregisterFree, WaitComplete, WaitPcs, queue
  <2>2. \A u \in Callers \ {t} : call'[u] = call[u]
    <3>1. CASE DeregisterCheck(t) \/ DeregisterFree(t)
      BY <3>1 DEF DeregisterCheck, DeregisterTest, DeregisterFree, Enter, Return
    <3>2. CASE WaitComplete(t)
      <4>1. call[t].at = "g_wait"
        BY <3>2 DEF WaitComplete, WaitPcs, AsyncInv, CallInv, AsyncPcs
      <4>2. Goto(t, "g_lock")
        BY <3>2, <4>1 DEF WaitComplete
      <4> QED
        BY <4>2 DEF Goto
    <3> QED
      BY <1>7, <3>1, <3>2
  <2> QED
    BY <1>1, <2>1, <2>2
<1>8. ASSUME NEW t \in Callers, ActivateNowBit(t) PROVE FALSE
  BY <1>8 DEF ActivateNowBit
<1>9. CASE ScaleWork
  BY <1>9 DEF ScaleWork, WorkGoto
<1>10. CASE ActivateWorkInc \/ ActivateWorkState \/ ActivateWorkDec \/ TimerWorkState
  BY <1>10 DEF ActivateWorkInc, ActivateWorkState, ActivateWorkDec, TimerWorkState, queue
<1>11. CASE ActivateWorkComplete \/ ActivateWorkBit \/ TimerWorkDec \/ TimerWorkBit
  BY <1>11 DEF ActivateWorkComplete, ActivateWorkBit, TimerWorkDec, TimerWorkBit, WorkGoto, queue
<1>12. CASE WorkScale
  BY <1>12 DEF WorkScale, DoClkScaling, ActiveClients, client
<1> QED
  BY ONLY AsyncNext, <1>2, <1>3, <1>4, <1>5, <1>6, <1>7, <1>8, <1>9, <1>10, <1>11, <1>12
     DEF AsyncNext, WorkStep

\* Only a scaling changes the aggregate.
LEMMA AggMoves ==
    ASSUME AsyncNext, agg' # agg
    PROVE  UNCHANGED <<alive, st>> /\ agg' = ActiveClients
<1>1. ASSUME NEW c \in Clients, Register(c) \/ ActivateWork(c) \/ TimerWork(c) PROVE FALSE
  BY <1>1 DEF Register, ActivateWork, TimerWork, scaled
<1>2. ASSUME NEW t \in Callers, NEW c \in Clients,
             \/ Deregister(t, c) \/ ActivateAgain(t, c) \/ ActivateNow(t, c)
             \/ ActivateLater(t, c) \/ DeferredDeactivate(t, c)
      PROVE  FALSE
  BY <1>2 DEF Deregister, ActivateAgain, ActivateNow, ActivateLater, DeferredDeactivate, scaled
<1>3. ASSUME NEW t \in Callers,
             DeregisterCheck(t) \/ DeregisterFree(t) \/ ActivateNowBit(t) \/ WaitComplete(t)
      PROVE  FALSE
  BY <1>3 DEF DeregisterCheck, DeregisterFree, ActivateNowBit, WaitComplete, scaled
<1>4. CASE \/ ScaleWork \/ ActivateWorkInc \/ ActivateWorkState \/ ActivateWorkComplete
           \/ ActivateWorkDec \/ ActivateWorkBit \/ TimerWorkState \/ TimerWorkDec \/ TimerWorkBit
  BY <1>4 DEF ScaleWork, ActivateWorkInc, ActivateWorkState, ActivateWorkComplete, ActivateWorkDec,
              ActivateWorkBit, TimerWorkState, TimerWorkDec, TimerWorkBit, scaled
<1>5. CASE WorkScale
  BY <1>5 DEF WorkScale, DoClkScaling, ActiveClients, client
<1> QED
  BY ONLY AsyncNext, <1>1, <1>2, <1>3, <1>4, <1>5 DEF AsyncNext, WorkStep

\* Every step of the asynchronous calls keeps the invariant of the scaling.
LEMMA ScaleStep ==
    ASSUME Ops \subseteq AsyncOps, TypeOK, AsyncInv, ScaleInv, [Next]_vars
    PROVE  ScaleInv'
<1>1. CASE UNCHANGED vars
  BY <1>1 DEF ScaleInv, ScalingDue, ActiveClients, vars, client, queue, held, scaled
<1>2. CASE Next
  <2>1. AsyncNext
    BY <1>2, AsyncCases DEF AsyncInv
  <2>2. \A c \in SkipVote : vote'[c] = 0
    BY <1>2, SkippedVotes DEF ScaleInv
  <2>3. ASSUME ~ScalingDue'
        PROVE  agg' = ActiveClients' \/ \A c \in Clients \ SkipVote : st'[c] \notin Active
    <3>1. \A c \in Clients : (alive'[c] /\ st'[c] \in Active) <=> (alive[c] /\ st[c] \in Active)
      BY <2>1, <2>3, ActiveMoves
    <3>2. ActiveClients' = ActiveClients
      BY <3>1 DEF ActiveClients
    <3>3. CASE ScalingDue
      <4>1. CASE agg' = ActiveClients
        BY <3>2, <4>1
      <4>2. CASE UNCHANGED st /\ \A c \in Clients : vote[c] <= 0
        <5>1. ASSUME NEW c \in Clients \ SkipVote PROVE st[c] \notin Active
          <6>1. VoteInv(c) /\ vote[c] <= 0
            BY <4>2 DEF AsyncInv
          <6> QED
            BY <6>1 DEF VoteInv, One
        <5> QED
          BY <4>2, <5>1
      <4> QED
        BY <2>1, <2>3, <3>3, <4>1, <4>2, DueMoves
    <3>4. CASE ~ScalingDue
      <4>1. CASE agg' # agg
        BY <2>1, <3>2, <4>1, AggMoves
      <4>2. CASE agg' = agg /\ agg = ActiveClients
        BY <3>2, <4>2
      <4>3. CASE \A c \in Clients \ SkipVote : st[c] \notin Active
        <5>1. /\ \A c \in Clients : ~alive'[c] => st'[c] = "deactivated"
              /\ "deactivated" \notin Active
          BY TypeStep, AsyncStep DEF AsyncInv, Active, Timed
        <5> QED
          BY <3>1, <4>3, <5>1
      <4> QED
        BY <3>4, <4>1, <4>2, <4>3 DEF ScaleInv
    <3> QED
      BY <3>3, <3>4
  <2> QED
    BY <2>2, <2>3 DEF ScaleInv
<1> QED
  BY <1>1, <1>2

\* With asynchronous calls only, once everything is done and some client votes,
\* the aggregated throughput is that of the active clients.
THEOREM AsyncAggregate == ASSUME Ops \subseteq AsyncOps PROVE Spec => []AggregateCurrent
<1>1. Init => ScaleInv
  BY ClientsAssumption DEF Init, All, ScaleInv, ActiveClients, Active, Timed
<1>2. TypeOK /\ AsyncInv /\ ScaleInv /\ [Next]_vars => ScaleInv'
  BY ScaleStep
<1>3. TypeOK /\ AsyncInv /\ ScaleInv => AggregateCurrent
  <2> SUFFICES ASSUME TypeOK, AsyncInv, ScaleInv, work.at = "idle", ~scaleWork,
                      \A t \in Callers : call[t].at = "idle",
                      \A c \in Clients : AtRest(c), NEW d \in Clients, vote[d] > 0
               PROVE  agg = ActiveClients
    BY DEF AggregateCurrent, ActiveClients
  <2>1. ~ScalingDue
    BY DEF ScalingDue
  <2>2. d \notin SkipVote /\ VoteInv(d)
    BY DEF ScaleInv, AsyncInv
  <2>3. st[d] \in Active
    BY <2>2 DEF VoteInv, WorkAt, One
  <2> QED
    BY <2>1, <2>2, <2>3 DEF ScaleInv
<1> QED
  BY <1>1, <1>2, <1>3, AsyncInductive, PTL DEF Spec

\* With asynchronous calls only, no vote is dropped that was not taken.
THEOREM AsyncNoUnderflow == ASSUME Ops \subseteq AsyncOps PROVE Spec => []NoVoteUnderflow
<1>1. Init => ScaleInv
  BY ClientsAssumption DEF Init, All, ScaleInv, ActiveClients, Active, Timed
<1>2. TypeOK /\ AsyncInv /\ ScaleInv /\ [Next]_vars => ScaleInv'
  BY ScaleStep
<1>3. TypeOK /\ AsyncInv /\ ScaleInv => NoVoteUnderflow
  <2> SUFFICES ASSUME TypeOK, AsyncInv, ScaleInv, NEW c \in Clients PROVE vote[c] >= 0
    BY DEF NoVoteUnderflow
  <2>1. IF c \in SkipVote THEN vote[c] = 0 ELSE VoteInv(c)
    BY DEF AsyncInv, ScaleInv
  <2> QED
    BY <2>1 DEF VoteInv, One
<1> QED
  BY <1>1, <1>2, <1>3, AsyncInductive, PTL DEF Spec

-----------------------------------------------------------------------------
(* The suspend of the AP and the activations, overlapping freely on one    *)
(* client.  What is left out are the synchronous deactivation and the      *)
(* deregistration.                                                         *)

OverlapOps == {"activate", "activate_sync", "deferred", "all"}

\* Between two clients a caller has none; a suspend goes on at these.
FreePcs == {"idle", "x_next"}
AllPcs == {"x_next", "x_cwait", "x_wait", "x_lock", "x_dec", "x_bit"}
OverlapPcs == AllPcs \union
    {"idle", "a_bit", "s_wait", "s_switch", "s_inc", "s_lock", "s_bit", "s_scale"}
SwitchPcs == {"s_inc", "s_lock"}
SettlePcs == {"x_cwait", "x_lock"}

\* The callers that have taken a vote and not stored the state, or stored the
\* state and not dropped the vote.
Owing(c) == Cardinality(At(c, {"s_lock", "x_dec"}))

OverlapCalls ==
    \A t \in Callers :
        /\ call[t].at \in OverlapPcs
        /\ call[t].c = NoClient <=> call[t].at \in FreePcs
        /\ call[t].c \in Clients => alive[call[t].c]
        /\ call[t].run => call[t].at \in AllPcs

\* A client that is being activated has one owner: a synchronous caller, the
\* queue or the worker.
CallerOwns ==
    \A t \in Callers : call[t].at \in SwitchPcs =>
        /\ call[t].c \notin SkipVote /\ st[call[t].c] \in InProgress
        /\ ~actWork[call[t].c] /\ ~WorkAt(call[t].c, {"act_inc", "act_state"})
        /\ \A u \in Callers : call[u].c = call[t].c /\ call[u].at \in SwitchPcs => u = t

WorkerOwns ==
    /\ work.at \in ActivateWorkPcs \union TimerWorkPcs => work.c \in Clients
    /\ work.at \in ActivateWorkPcs => work.c \notin SkipVote
    /\ work.at \in {"act_inc", "act_state"} => st[work.c] \in InProgress /\ ~actWork[work.c]

QueueOwns == \A c \in Clients : actWork[c] => c \notin SkipVote /\ st[c] \in InProgress

\* A timer is never lost: a suspend that cancels it settles the state itself.
TimerKept(c) ==
    st[c] \in Timed => \/ timer[c] \/ WorkAt(c, {"tmr_state"})
                       \/ At(c, SettlePcs) # {}

VoteOwed(c) ==
    vote[c] = One(st[c] \in Active)
              + One(WorkAt(c, {"act_state", "act_undo", "act_dec", "tmr_dec"})) + Owing(c)

WakeOwed(c) ==
    wake[c] => /\ c \in Apps
               /\ \/ st[c] \in Active
                  \/ WorkAt(c, {"act_state", "act_undo", "act_dec", "tmr_dec"})
                  \/ At(c, {"x_dec"}) # {}

\* The inductive invariant of the overlapping calls.
OverlapInv ==
    /\ OverlapCalls /\ CallerOwns /\ WorkerOwns /\ QueueOwns
    /\ \A c \in Clients :
          /\ ~alive[c] => st[c] = "deactivated"
          /\ TimerKept(c) /\ WakeOwed(c)
          /\ IF c \in SkipVote THEN vote[c] = 0 ELSE VoteOwed(c)

\* A scaling is queued or runs, or a context that has changed what is active
\* is on its way to one.
WorkerDue ==
    work.at \in {"scale", "act_done", "act_bit", "act_scale", "tmr_dec", "tmr_bit", "tmr_scale"}
CallDue(t) == call[t].at \in {"a_bit", "s_bit", "s_scale"} \/ call[t].run
OverlapDue == scaleWork \/ WorkerDue \/ \E t \in Callers : CallDue(t)

\* Unless a scaling is due, the aggregate is that of the active clients or no
\* client that votes is active.
OverlapScaled ==
    OverlapDue \/ agg = ActiveClients \/ \A c \in Clients \ SkipVote : st[c] \notin Active

-----------------------------------------------------------------------------
(* How a step of one caller changes what is known of all of them.          *)

OnlyMoves(t) == \A u \in Callers : u # t => call'[u] = call[u]

\* Where a caller is after a step that moves it.
LEMMA CallerMoves ==
    ASSUME TypeOK, NEW t \in Callers
    PROVE  /\ \A c \in Clients, l \in CallPcs : Enter(t, c, l) =>
                 /\ OnlyMoves(t) /\ call'[t].at = l /\ call'[t].c = c
                 /\ call'[t].run = call[t].run
           /\ \A l \in CallPcs : Goto(t, l) =>
                 /\ OnlyMoves(t) /\ call'[t].at = l /\ call'[t].c = call[t].c
                 /\ call'[t].run = call[t].run
           /\ Return(t) =>
                 /\ OnlyMoves(t) /\ call'[t].at = "idle" /\ call'[t].c = NoClient
                 /\ ~call'[t].run
           /\ Continue(t) =>
                 /\ OnlyMoves(t) /\ call'[t].at = "x_next" /\ call'[t].c = NoClient
                 /\ call'[t].run = call[t].run
<1> USE DEF TypeOK, CallRecs, OnlyMoves
<1>1. ASSUME NEW c \in Clients, NEW l \in CallPcs, Enter(t, c, l)
      PROVE  /\ OnlyMoves(t) /\ call'[t].at = l /\ call'[t].c = c
             /\ call'[t].run = call[t].run
  BY <1>1 DEF Enter
<1>2. ASSUME NEW l \in CallPcs, Goto(t, l)
      PROVE  /\ OnlyMoves(t) /\ call'[t].at = l /\ call'[t].c = call[t].c
             /\ call'[t].run = call[t].run
  BY <1>2 DEF Goto
<1>3. ASSUME Return(t)
      PROVE  /\ OnlyMoves(t) /\ call'[t].at = "idle" /\ call'[t].c = NoClient
             /\ ~call'[t].run
  BY <1>3 DEF Return, NoCall
<1>4. ASSUME Continue(t)
      PROVE  /\ OnlyMoves(t) /\ call'[t].at = "x_next" /\ call'[t].c = NoClient
             /\ call'[t].run = call[t].run
  BY <1>4 DEF Continue
<1> QED
  BY <1>1, <1>2, <1>3, <1>4

\* The suspend is where it is sent.
LEMMA SuspendMoves ==
    ASSUME TypeOK, NEW t \in Callers, NEW l, NEW c, NEW q, NEW r, AllAt(t, l, c, q, r)
    PROVE  OnlyMoves(t) /\ call'[t].at = l /\ call'[t].c = c /\ call'[t].run = r
BY DEF TypeOK, AllAt, OnlyMoves

\* A caller that leaves or joins the ones that owe a vote changes their number
\* by one.
LEMMA OwingMoves ==
    ASSUME NEW t \in Callers, NEW d \in Clients, OnlyMoves(t)
    PROVE  /\ Owing(d) \in Nat
           /\ Owing(d)' = Owing(d) + One(call'[t].c = d /\ call'[t].at \in {"s_lock", "x_dec"})
                                   - One(call[t].c = d /\ call[t].at \in {"s_lock", "x_dec"})
<1> DEFINE A == At(d, {"s_lock", "x_dec"})
           B == At(d, {"s_lock", "x_dec"})'
           R == A \ {t}
<1>1. IsFiniteSet(Callers)
  BY ClientsAssumption
<1>2. A \subseteq Callers /\ B \subseteq Callers
  BY DEF At
<1>3. IsFiniteSet(A) /\ IsFiniteSet(B) /\ IsFiniteSet(R)
  BY <1>1, <1>2, FS_Subset
<1>4. B \ {t} = R
  BY DEF At, OnlyMoves
<1>5. Cardinality(A) \in Nat /\ Cardinality(B) \in Nat /\ Cardinality(R) \in Nat
  BY <1>3, FS_CardinalityType
<1>6. Cardinality(R) = Cardinality(A) - One(t \in A)
  BY <1>3, <1>5, FS_RemoveElement DEF One
<1>7. Cardinality(R) = Cardinality(B) - One(t \in B)
  BY <1>3, <1>4, <1>5, FS_RemoveElement DEF One
<1>8. /\ t \in A <=> call[t].c = d /\ call[t].at \in {"s_lock", "x_dec"}
      /\ t \in B <=> call'[t].c = d /\ call'[t].at \in {"s_lock", "x_dec"}
  BY DEF At
<1>9. Owing(d) = Cardinality(A) /\ Owing(d)' = Cardinality(B)
  BY DEF Owing
<1> HIDE DEF A, B, R
<1> QED
  BY <1>5, <1>6, <1>7, <1>8, <1>9 DEF One

\* They are finitely many.
LEMMA OwingType == \A d \in Clients : Owing(d) \in Nat
<1> SUFFICES ASSUME NEW d \in Clients PROVE Cardinality(At(d, {"s_lock", "x_dec"})) \in Nat
  BY DEF Owing
<1>1. At(d, {"s_lock", "x_dec"}) \subseteq Callers
  BY DEF At
<1> QED
  BY <1>1, ClientsAssumption, FS_Subset, FS_CardinalityType

\* A caller that is not between two clients is at one.
LEMMA CallerAt ==
    ASSUME TypeOK, OverlapInv
    PROVE  \A u \in Callers : call[u].at \notin FreePcs => call[u].c \in Clients
BY DEF TypeOK, CallRecs, OverlapInv, OverlapCalls

\* While only these calls are made, a step is one of these.
OverlapNext ==
    \/ \E c \in Clients : Register(c) \/ ActivateWork(c) \/ TimerWork(c)
    \/ \E t \in Callers, c \in Clients :
          \/ ActivateAgain(t, c) \/ ActivateNow(t, c) \/ ActivateLater(t, c)
          \/ ActivateSync(t, c) \/ DeferredDeactivate(t, c) \/ AllNext(t, c)
    \/ \E t \in Callers :
          \/ AllDeferred(t) \/ ActivateNowBit(t)
          \/ SyncSwitch(t) \/ SyncInc(t) \/ SyncLock(t) \/ SyncBit(t) \/ SyncScale(t)
          \/ AllCheck(t) \/ AllLock(t) \/ AllDec(t) \/ AllBit(t) \/ AllDone(t)
          \/ WaitComplete(t)
    \/ ScaleWork \/ WorkStep

\* No other call starts, and none is under way.
LEMMA OverlapCases ==
    ASSUME Ops \subseteq OverlapOps, OverlapCalls, Next
    PROVE  OverlapNext
<1> USE DEF OverlapCalls, OverlapPcs, AllPcs, OverlapOps
<1>1. ASSUME NEW t \in Callers, NEW c \in Clients
      PROVE  ~Deregister(t, c) /\ ~DeactivateSync(t, c)
  BY DEF Deregister, DeactivateSync, MayCall
<1>2. ASSUME NEW t \in Callers
      PROVE  ~DeregisterCheck(t) /\ ~DeregisterFree(t)
  BY DEF DeregisterCheck, DeregisterFree
<1>3. ASSUME NEW t \in Callers
      PROVE  /\ ~DeactivateCheck(t) /\ ~DeactivateLock(t) /\ ~DeactivateDec(t)
             /\ ~DeactivateSet(t) /\ ~DeactivateCancel(t) /\ ~DeactivateBit(t)
  BY DEF DeactivateCheck, DeactivateLock, DeactivateDec, DeactivateSet,
         DeactivateCancel, DeactivateBit
<1> HIDE DEF OverlapCalls, OverlapPcs, AllPcs, OverlapOps
<1> QED
  BY <1>1, <1>2, <1>3 DEF Next, ApiCall, CallStep, WorkStart, OverlapNext

\* The invariant of the overlapping calls holds at first.
LEMMA OverlapInit == Init => OverlapInv
<1> SUFFICES ASSUME Init PROVE OverlapInv
  OBVIOUS
<1>1. ASSUME NEW c \in Clients PROVE Owing(c) = 0 /\ VoteOwed(c)
  <2>1. At(c, {"s_lock", "x_dec"}) = {}
    BY ClientsAssumption DEF Init, NoCall, At
  <2>2. Owing(c) = 0
    BY <2>1, FS_EmptySet DEF Owing
  <2> QED
    BY <2>2, ClientsAssumption DEF Init, All, NoWork, VoteOwed, One, WorkAt, Active, Timed
<1>2. OverlapCalls /\ CallerOwns
  BY ClientsAssumption DEF Init, All, NoCall, OverlapCalls, CallerOwns, OverlapPcs, FreePcs,
                           AllPcs, SwitchPcs
<1>3. WorkerOwns /\ QueueOwns
  BY DEF Init, All, NoWork, WorkerOwns, QueueOwns, ActivateWorkPcs, TimerWorkPcs
<1>4. \A c \in Clients : (~alive[c] => st[c] = "deactivated") /\ TimerKept(c) /\ WakeOwed(c)
  BY DEF Init, All, TimerKept, WakeOwed, Timed
<1>5. \A c \in SkipVote : vote[c] = 0
  BY ClientsAssumption DEF Init, All
<1> QED
  BY <1>1, <1>2, <1>3, <1>4, <1>5 DEF OverlapInv

\* A caller moves that neither owns its client nor owes a vote, and settles the
\* state before it lets go of a timer.
LEMMA QuietCall ==
    ASSUME TypeOK, OverlapInv, NEW t \in Callers, OnlyMoves(t),
           UNCHANGED <<alive, st, timer, actWork, vote, wake, work>>,
           call[t].at \notin SwitchPcs \union {"x_dec"},
           call'[t].at \in OverlapPcs \ (SwitchPcs \union {"x_dec"}),
           call'[t].c = NoClient <=> call'[t].at \in FreePcs,
           call'[t].c \in Clients => alive[call'[t].c],
           call'[t].run => call'[t].at \in AllPcs,
           call[t].at \in SettlePcs => \/ call'[t].at \in SettlePcs /\ call'[t].c = call[t].c
                                       \/ st[call[t].c] \notin Timed
    PROVE  OverlapInv'
<1> USE ClientsAssumption, GroupsAssumption
<1>h. \A u \in Callers : call[u].at \notin FreePcs => call[u].c \in Clients
  BY CallerAt
<1>o. \A d \in Clients :
         /\ Owing(d) \in Nat
         /\ Owing(d)' = Owing(d) + One(call'[t].c = d /\ call'[t].at \in {"s_lock", "x_dec"})
                                 - One(call[t].c = d /\ call[t].at \in {"s_lock", "x_dec"})
  BY OwingMoves
<1>t. \A d \in Clients : vote[d] \in Int
  BY DEF TypeOK
<1>g1. OverlapCalls'
  BY DEF OverlapInv, OverlapCalls, OverlapPcs, FreePcs, AllPcs, OnlyMoves
<1>g2. CallerOwns'
  BY <1>h
     DEF OverlapInv, OverlapCalls, CallerOwns, WorkerOwns, QueueOwns, SwitchPcs, FreePcs,
         WorkAt, InProgress, Active, Timed, OnlyMoves
<1>g3. WorkerOwns'
  BY DEF OverlapInv, CallerOwns, WorkerOwns, QueueOwns, SwitchPcs, WorkAt, ActivateWorkPcs,
         TimerWorkPcs, InProgress, Active, Timed, OnlyMoves
<1>g4. QueueOwns'
  BY DEF OverlapInv, CallerOwns, WorkerOwns, QueueOwns, SwitchPcs, WorkAt, InProgress, Active,
         Timed, OnlyMoves
<1>g5. \A d \in Clients : ~alive'[d] => st'[d] = "deactivated"
  BY DEF OverlapInv, InProgress, Active, Timed, OnlyMoves
<1>g6. \A d \in Clients : TimerKept(d)'
  BY DEF OverlapInv, TimerKept, WorkAt, At, SettlePcs, Timed, Active, InProgress, OnlyMoves
<1>g7. \A d \in Clients : WakeOwed(d)'
  BY DEF OverlapInv, WakeOwed, WorkAt, At, Active, Timed, InProgress, SwitchPcs,
         ActivateWorkPcs, OnlyMoves
<1>g8. \A d \in Clients : IF d \in SkipVote THEN vote'[d] = 0 ELSE VoteOwed(d)'
  BY <1>o, <1>t
     DEF OverlapInv, VoteOwed, WorkAt, One, Active, Timed, InProgress, SwitchPcs,
         ActivateWorkPcs, OnlyMoves
<1> QED
  BY <1>g1, <1>g2, <1>g3, <1>g4, <1>g5, <1>g6, <1>g7, <1>g8 DEF OverlapInv

\* The worker moves on with no change to its client.
LEMMA QuietWork ==
    ASSUME TypeOK, OverlapInv, UNCHANGED <<alive, st, timer, actWork, vote, wake, call>>,
           work.at \notin {"act_inc", "act_state", "tmr_state", "tmr_dec", "act_dec"},
           work'.at \notin {"act_inc", "act_state", "tmr_state", "tmr_dec", "act_undo"},
           work'.at \in ActivateWorkPcs => work.at \in ActivateWorkPcs,
           work'.at \in TimerWorkPcs => work.at \in TimerWorkPcs,
           work'.at \in ActivateWorkPcs \union TimerWorkPcs => work'.c = work.c,
           work'.at = "act_dec" <=> work.at = "act_undo"
    PROVE  OverlapInv'
<1> USE ClientsAssumption, GroupsAssumption
<1>h. \A u \in Callers : call[u].at \notin FreePcs => call[u].c \in Clients
  BY CallerAt
<1>o. \A d \in Clients : Owing(d) \in Nat /\ Owing(d)' = Owing(d)
  BY OwingType DEF Owing, At
<1>t. \A d \in Clients : vote[d] \in Int
  BY DEF TypeOK
<1>g1. OverlapCalls'
  BY DEF OverlapInv, OverlapCalls, OverlapPcs, FreePcs, AllPcs
<1>g2. CallerOwns'
  BY <1>h
     DEF OverlapInv, OverlapCalls, CallerOwns, WorkerOwns, QueueOwns, SwitchPcs, FreePcs,
         WorkAt, InProgress, Active, Timed
<1>g3. WorkerOwns'
  BY DEF OverlapInv, CallerOwns, WorkerOwns, QueueOwns, SwitchPcs, WorkAt, ActivateWorkPcs,
         TimerWorkPcs, InProgress, Active, Timed
<1>g4. QueueOwns'
  BY DEF OverlapInv, CallerOwns, WorkerOwns, QueueOwns, SwitchPcs, WorkAt, InProgress, Active,
         Timed
<1>g5. \A d \in Clients : ~alive'[d] => st'[d] = "deactivated"
  BY DEF OverlapInv, InProgress, Active, Timed
<1>g6. \A d \in Clients : TimerKept(d)'
  BY DEF OverlapInv, TimerKept, WorkAt, At, SettlePcs, Timed, Active, InProgress
<1>g7. \A d \in Clients : WakeOwed(d)'
  BY DEF OverlapInv, WakeOwed, WorkAt, At, Active, Timed, InProgress, SwitchPcs, ActivateWorkPcs
<1>g8. \A d \in Clients : IF d \in SkipVote THEN vote'[d] = 0 ELSE VoteOwed(d)'
  BY <1>o, <1>t
     DEF OverlapInv, VoteOwed, WorkAt, One, Active, Timed, InProgress, SwitchPcs,
         ActivateWorkPcs
<1> QED
  BY <1>g1, <1>g2, <1>g3, <1>g4, <1>g5, <1>g6, <1>g7, <1>g8 DEF OverlapInv

\* A registration.
LEMMA RegisterKeeps ==
    ASSUME TypeOK, OverlapInv, NEW c \in Clients, Register(c)
    PROVE  OverlapInv'
<1> USE ClientsAssumption, GroupsAssumption
<1>h. \A u \in Callers : call[u].at \notin FreePcs => call[u].c \in Clients
  BY CallerAt
<1>f1. UNCHANGED <<timer, actWork, vote, work, call>> /\ ~alive[c]
  BY DEF TypeOK, Register, SetState, queue
<1>f2. \A d \in Clients : alive'[d] <=> alive[d] \/ d = c
  BY DEF TypeOK, Register, SetState, queue
<1>f3. \A d \in Clients : st'[d] = IF d = c THEN "deactivated" ELSE st[d]
  BY DEF TypeOK, Register, SetState, queue
<1>f4. \A d \in Clients : wake'[d] => wake[d]
  BY DEF TypeOK, Register, SetState, queue
<1>f5. st[c] = "deactivated"
  BY <1>f1 DEF OverlapInv
<1>o. \A d \in Clients : Owing(d) \in Nat /\ Owing(d)' = Owing(d)
  BY <1>f1, OwingType DEF Owing, At
<1>t. \A d \in Clients : vote[d] \in Int
  BY DEF TypeOK
<1>g1. OverlapCalls'
  BY <1>f1, <1>f2, <1>f3, <1>f4, <1>f5
     DEF OverlapInv, OverlapCalls, OverlapPcs, FreePcs, AllPcs
<1>g2. CallerOwns'
  BY <1>h, <1>f1, <1>f2, <1>f3, <1>f4, <1>f5
     DEF OverlapInv, OverlapCalls, CallerOwns, WorkerOwns, QueueOwns, SwitchPcs, FreePcs,
         WorkAt, InProgress, Active, Timed
<1>g3. WorkerOwns'
  BY <1>f1, <1>f2, <1>f3, <1>f4, <1>f5
     DEF OverlapInv, CallerOwns, WorkerOwns, QueueOwns, SwitchPcs, WorkAt, ActivateWorkPcs,
         TimerWorkPcs, InProgress, Active, Timed
<1>g4. QueueOwns'
  BY <1>f1, <1>f2, <1>f3, <1>f4, <1>f5
     DEF OverlapInv, CallerOwns, WorkerOwns, QueueOwns, SwitchPcs, WorkAt, InProgress, Active,
         Timed
<1>g5. \A d \in Clients : ~alive'[d] => st'[d] = "deactivated"
  BY <1>f1, <1>f2, <1>f3, <1>f4, <1>f5
     DEF OverlapInv, InProgress, Active, Timed
<1>g6. \A d \in Clients : TimerKept(d)'
  BY <1>f1, <1>f2, <1>f3, <1>f4, <1>f5
     DEF OverlapInv, TimerKept, WorkAt, At, SettlePcs, Timed, Active, InProgress
<1>g7. \A d \in Clients : WakeOwed(d)'
  BY <1>f1, <1>f2, <1>f3, <1>f4, <1>f5
     DEF OverlapInv, WakeOwed, WorkAt, At, Active, Timed, InProgress, SwitchPcs, ActivateWorkPcs
<1>g8. \A d \in Clients : IF d \in SkipVote THEN vote'[d] = 0 ELSE VoteOwed(d)'
  BY <1>o, <1>t, <1>f1, <1>f2, <1>f3, <1>f4, <1>f5
     DEF OverlapInv, VoteOwed, WorkAt, One, Active, Timed, InProgress, SwitchPcs,
         ActivateWorkPcs
<1> QED
  BY <1>g1, <1>g2, <1>g3, <1>g4, <1>g5, <1>g6, <1>g7, <1>g8 DEF OverlapInv

\* An activation of a client that is active or on its way.
LEMMA AgainKeeps ==
    ASSUME TypeOK, OverlapInv, NEW t \in Callers, NEW c \in Clients, ActivateAgain(t, c)
    PROVE  OverlapInv'
<1> USE ClientsAssumption, GroupsAssumption
<1>h. \A u \in Callers : call[u].at \notin FreePcs => call[u].c \in Clients
  BY CallerAt
<1>f1. UNCHANGED <<alive, timer, actWork, vote, wake, work, call>> /\ alive[c]
  BY DEF TypeOK, ActivateAgain, MayCall, SetState, queue, held
<1>f2. \A d \in Clients : d # c => st'[d] = st[d]
  BY DEF TypeOK, ActivateAgain, MayCall, SetState, queue, held
<1>f3. \/ st[c] \in Active /\ st'[c] = Reactivated(st[c])
       \/ st[c] \in InProgress /\ st'[c] = "act_progress"
  <2>1. CASE st[c] \in Active /\ SetState(c, Reactivated(st[c]))
    BY <2>1 DEF TypeOK, SetState
  <2>2. CASE st[c] \in InProgress /\ SetState(c, "act_progress")
    BY <2>2 DEF TypeOK, SetState
  <2> QED
    BY <2>1, <2>2 DEF ActivateAgain
<1>o. \A d \in Clients : Owing(d) \in Nat /\ Owing(d)' = Owing(d)
  BY <1>f1, OwingType DEF Owing, At
<1>t. \A d \in Clients : vote[d] \in Int
  BY DEF TypeOK
<1>g1. OverlapCalls'
  BY <1>f1, <1>f2, <1>f3
     DEF OverlapInv, OverlapCalls, OverlapPcs, FreePcs, AllPcs, Reactivated
<1>g2. CallerOwns'
  BY <1>h, <1>f1, <1>f2, <1>f3
     DEF OverlapInv, OverlapCalls, CallerOwns, WorkerOwns, QueueOwns, SwitchPcs, FreePcs,
         WorkAt, InProgress, Active, Timed, Reactivated
<1>g3. WorkerOwns'
  BY <1>f1, <1>f2, <1>f3
     DEF OverlapInv, CallerOwns, WorkerOwns, QueueOwns, SwitchPcs, WorkAt, ActivateWorkPcs,
         TimerWorkPcs, InProgress, Active, Timed, Reactivated
<1>g4. QueueOwns'
  BY <1>f1, <1>f2, <1>f3
     DEF OverlapInv, CallerOwns, WorkerOwns, QueueOwns, SwitchPcs, WorkAt, InProgress, Active,
         Timed, Reactivated
<1>g5. \A d \in Clients : ~alive'[d] => st'[d] = "deactivated"
  BY <1>f1, <1>f2, <1>f3
     DEF OverlapInv, InProgress, Active, Timed, Reactivated
<1>g6. \A d \in Clients : TimerKept(d)'
  BY <1>f1, <1>f2, <1>f3
     DEF OverlapInv, TimerKept, WorkAt, At, SettlePcs, Timed, Active, InProgress, Reactivated
<1>g7. \A d \in Clients : WakeOwed(d)'
  BY <1>f1, <1>f2, <1>f3
     DEF OverlapInv, WakeOwed, WorkAt, At, Active, Timed, InProgress, SwitchPcs,
         ActivateWorkPcs, Reactivated
<1>g8. \A d \in Clients : IF d \in SkipVote THEN vote'[d] = 0 ELSE VoteOwed(d)'
  BY <1>o, <1>t, <1>f1, <1>f2, <1>f3
     DEF OverlapInv, VoteOwed, WorkAt, One, Active, Timed, InProgress, SwitchPcs,
         ActivateWorkPcs, Reactivated
<1> QED
  BY <1>g1, <1>g2, <1>g3, <1>g4, <1>g5, <1>g6, <1>g7, <1>g8 DEF OverlapInv

\* An activation that takes its vote at once.
LEMMA NowKeeps ==
    ASSUME TypeOK, OverlapInv, NEW t \in Callers, NEW c \in Clients, ActivateNow(t, c)
    PROVE  OverlapInv'
<1> USE ClientsAssumption, GroupsAssumption
<1>h. \A u \in Callers : call[u].at \notin FreePcs => call[u].c \in Clients
  BY CallerAt
<1>f1. /\ OnlyMoves(t) /\ call[t].at = "idle" /\ call'[t].at = "a_bit"
       /\ call'[t].c = c /\ call'[t].run = call[t].run
  BY CallerMoves DEF TypeOK, ActivateNow, MayCall, SetState, IncBounded, Inc, StayAwake, One,
                     queue, CallPcs
<1>f2. UNCHANGED <<alive, timer, actWork, work>> /\ alive[c] /\ st[c] = "deactivated"
  BY DEF TypeOK, ActivateNow, MayCall, SetState, IncBounded, Inc, StayAwake, One, queue, CallPcs
<1>f3. \A d \in Clients : st'[d] = IF d = c THEN "activated" ELSE st[d]
  BY DEF TypeOK, ActivateNow, MayCall, SetState, IncBounded, Inc, StayAwake, One, queue, CallPcs
<1>f4. \A d \in Clients : vote'[d] = vote[d] + One(d = c /\ c \notin SkipVote)
  BY DEF TypeOK, ActivateNow, MayCall, SetState, IncBounded, Inc, StayAwake, One, queue, CallPcs
<1>f5. \A d \in Clients : wake'[d] => wake[d] \/ (d = c /\ c \in Apps)
  BY DEF TypeOK, ActivateNow, MayCall, SetState, IncBounded, Inc, StayAwake, One, queue, CallPcs
<1>o. \A d \in Clients :
         /\ Owing(d) \in Nat
         /\ Owing(d)' = Owing(d) + One(call'[t].c = d /\ call'[t].at \in {"s_lock", "x_dec"})
                                 - One(call[t].c = d /\ call[t].at \in {"s_lock", "x_dec"})
  BY <1>f1, OwingMoves
<1>t. \A d \in Clients : vote[d] \in Int
  BY DEF TypeOK
<1>g1. OverlapCalls'
  BY <1>f1, <1>f2, <1>f3, <1>f4, <1>f5
     DEF OverlapInv, OverlapCalls, OverlapPcs, FreePcs, AllPcs, OnlyMoves
<1>g2. CallerOwns'
  BY <1>h, <1>f1, <1>f2, <1>f3, <1>f4, <1>f5
     DEF OverlapInv, OverlapCalls, CallerOwns, WorkerOwns, QueueOwns, SwitchPcs, FreePcs,
         WorkAt, InProgress, Active, Timed, OnlyMoves
<1>g3. WorkerOwns'
  BY <1>f1, <1>f2, <1>f3, <1>f4, <1>f5
     DEF OverlapInv, CallerOwns, WorkerOwns, QueueOwns, SwitchPcs, WorkAt, ActivateWorkPcs,
         TimerWorkPcs, InProgress, Active, Timed, OnlyMoves
<1>g4. QueueOwns'
  BY <1>f1, <1>f2, <1>f3, <1>f4, <1>f5
     DEF OverlapInv, CallerOwns, WorkerOwns, QueueOwns, SwitchPcs, WorkAt, InProgress, Active,
         Timed, OnlyMoves
<1>g5. \A d \in Clients : ~alive'[d] => st'[d] = "deactivated"
  BY <1>f1, <1>f2, <1>f3, <1>f4, <1>f5
     DEF OverlapInv, InProgress, Active, Timed, OnlyMoves
<1>g6. \A d \in Clients : TimerKept(d)'
  BY <1>f1, <1>f2, <1>f3, <1>f4, <1>f5
     DEF OverlapInv, TimerKept, WorkAt, At, SettlePcs, Timed, Active, InProgress, OnlyMoves
<1>g7. \A d \in Clients : WakeOwed(d)'
  BY <1>f1, <1>f2, <1>f3, <1>f4, <1>f5
     DEF OverlapInv, WakeOwed, WorkAt, At, Active, Timed, InProgress, SwitchPcs,
         ActivateWorkPcs, OnlyMoves
<1>g8. \A d \in Clients : IF d \in SkipVote THEN vote'[d] = 0 ELSE VoteOwed(d)'
  BY <1>o, <1>t, <1>f1, <1>f2, <1>f3, <1>f4, <1>f5
     DEF OverlapInv, VoteOwed, WorkAt, One, Active, Timed, InProgress, SwitchPcs,
         ActivateWorkPcs, OnlyMoves
<1> QED
  BY <1>g1, <1>g2, <1>g3, <1>g4, <1>g5, <1>g6, <1>g7, <1>g8 DEF OverlapInv

\* An activation that is handed to the worker.
LEMMA LaterKeeps ==
    ASSUME TypeOK, OverlapInv, NEW t \in Callers, NEW c \in Clients, ActivateLater(t, c)
    PROVE  OverlapInv'
<1> USE ClientsAssumption, GroupsAssumption
<1>h. \A u \in Callers : call[u].at \notin FreePcs => call[u].c \in Clients
  BY CallerAt
<1>f1. UNCHANGED <<alive, timer, vote, wake, work, call>> /\ alive[c] /\ c \notin SkipVote
  BY DEF TypeOK, ActivateLater, MayCall, SetState, held
<1>f2. st[c] = "deactivated"
  BY DEF TypeOK, ActivateLater, MayCall, SetState, held
<1>f3. \A d \in Clients : st'[d] = IF d = c THEN "act_progress" ELSE st[d]
  BY DEF TypeOK, ActivateLater, MayCall, SetState, held
<1>f4. \A d \in Clients : actWork'[d] <=> actWork[d] \/ d = c
  BY DEF TypeOK, ActivateLater, MayCall, SetState, held
<1>o. \A d \in Clients : Owing(d) \in Nat /\ Owing(d)' = Owing(d)
  BY <1>f1, OwingType DEF Owing, At
<1>t. \A d \in Clients : vote[d] \in Int
  BY DEF TypeOK
<1>g1. OverlapCalls'
  BY <1>f1, <1>f2, <1>f3, <1>f4
     DEF OverlapInv, OverlapCalls, OverlapPcs, FreePcs, AllPcs
<1>g2. CallerOwns'
  BY <1>h, <1>f1, <1>f2, <1>f3, <1>f4
     DEF OverlapInv, OverlapCalls, CallerOwns, WorkerOwns, QueueOwns, SwitchPcs, FreePcs,
         WorkAt, InProgress, Active, Timed
<1>g3. WorkerOwns'
  BY <1>f1, <1>f2, <1>f3, <1>f4
     DEF OverlapInv, CallerOwns, WorkerOwns, QueueOwns, SwitchPcs, WorkAt, ActivateWorkPcs,
         TimerWorkPcs, InProgress, Active, Timed
<1>g4. QueueOwns'
  BY <1>f1, <1>f2, <1>f3, <1>f4
     DEF OverlapInv, CallerOwns, WorkerOwns, QueueOwns, SwitchPcs, WorkAt, InProgress, Active,
         Timed
<1>g5. \A d \in Clients : ~alive'[d] => st'[d] = "deactivated"
  BY <1>f1, <1>f2, <1>f3, <1>f4
     DEF OverlapInv, InProgress, Active, Timed
<1>g6. \A d \in Clients : TimerKept(d)'
  BY <1>f1, <1>f2, <1>f3, <1>f4
     DEF OverlapInv, TimerKept, WorkAt, At, SettlePcs, Timed, Active, InProgress
<1>g7. \A d \in Clients : WakeOwed(d)'
  BY <1>f1, <1>f2, <1>f3, <1>f4
     DEF OverlapInv, WakeOwed, WorkAt, At, Active, Timed, InProgress, SwitchPcs, ActivateWorkPcs
<1>g8. \A d \in Clients : IF d \in SkipVote THEN vote'[d] = 0 ELSE VoteOwed(d)'
  BY <1>o, <1>t, <1>f1, <1>f2, <1>f3, <1>f4
     DEF OverlapInv, VoteOwed, WorkAt, One, Active, Timed, InProgress, SwitchPcs,
         ActivateWorkPcs
<1> QED
  BY <1>g1, <1>g2, <1>g3, <1>g4, <1>g5, <1>g6, <1>g7, <1>g8 DEF OverlapInv

\* A synchronous activation of a client that is active.
LEMMA SyncAgainKeeps ==
    ASSUME TypeOK, OverlapInv, NEW t \in Callers, NEW c \in Clients, alive[c],
           call[t].at = "idle" \/ (call[t].at = "s_switch" /\ call[t].c = c), SyncOn(t, c),
           UNCHANGED <<alive, timer, actWork, vote, wake, work>>, st[c] \in Active
    PROVE  OverlapInv'
<1> USE ClientsAssumption, GroupsAssumption
<1>h. \A u \in Callers : call[u].at \notin FreePcs => call[u].c \in Clients
  BY CallerAt
<1>f1. /\ OnlyMoves(t) /\ call'[t].at = "idle" /\ call'[t].c = NoClient /\ ~call'[t].run
  BY CallerMoves DEF TypeOK, SyncOn, SetState, Active, Timed, InProgress
<1>f2. \A d \in Clients : d # c => st'[d] = st[d]
  BY DEF TypeOK, SyncOn, SetState, Active, Timed, InProgress
<1>f3. st'[c] = Reactivated(st[c])
  BY DEF TypeOK, SyncOn, SetState, Active, Timed, InProgress
<1>o. \A d \in Clients :
         /\ Owing(d) \in Nat
         /\ Owing(d)' = Owing(d) + One(call'[t].c = d /\ call'[t].at \in {"s_lock", "x_dec"})
                                 - One(call[t].c = d /\ call[t].at \in {"s_lock", "x_dec"})
  BY <1>f1, OwingMoves
<1>t. \A d \in Clients : vote[d] \in Int
  BY DEF TypeOK
<1>g1. OverlapCalls'
  BY <1>f1, <1>f2, <1>f3
     DEF OverlapInv, OverlapCalls, OverlapPcs, FreePcs, AllPcs, OnlyMoves, Reactivated
<1>g2. CallerOwns'
  BY <1>h, <1>f1, <1>f2, <1>f3
     DEF OverlapInv, OverlapCalls, CallerOwns, WorkerOwns, QueueOwns, SwitchPcs, FreePcs,
         WorkAt, InProgress, Active, Timed, OnlyMoves, Reactivated
<1>g3. WorkerOwns'
  BY <1>f1, <1>f2, <1>f3
     DEF OverlapInv, CallerOwns, WorkerOwns, QueueOwns, SwitchPcs, WorkAt, ActivateWorkPcs,
         TimerWorkPcs, InProgress, Active, Timed, OnlyMoves, Reactivated
<1>g4. QueueOwns'
  BY <1>f1, <1>f2, <1>f3
     DEF OverlapInv, CallerOwns, WorkerOwns, QueueOwns, SwitchPcs, WorkAt, InProgress, Active,
         Timed, OnlyMoves, Reactivated
<1>g5. \A d \in Clients : ~alive'[d] => st'[d] = "deactivated"
  BY <1>f1, <1>f2, <1>f3
     DEF OverlapInv, InProgress, Active, Timed, OnlyMoves, Reactivated
<1>g6. \A d \in Clients : TimerKept(d)'
  BY <1>f1, <1>f2, <1>f3
     DEF OverlapInv, TimerKept, WorkAt, At, SettlePcs, Timed, Active, InProgress,
         OnlyMoves, Reactivated
<1>g7. \A d \in Clients : WakeOwed(d)'
  BY <1>f1, <1>f2, <1>f3
     DEF OverlapInv, WakeOwed, WorkAt, At, Active, Timed, InProgress, SwitchPcs,
         ActivateWorkPcs, OnlyMoves, Reactivated
<1>g8. \A d \in Clients : IF d \in SkipVote THEN vote'[d] = 0 ELSE VoteOwed(d)'
  BY <1>o, <1>t, <1>f1, <1>f2, <1>f3
     DEF OverlapInv, VoteOwed, WorkAt, One, Active, Timed, InProgress, SwitchPcs,
         ActivateWorkPcs, OnlyMoves, Reactivated
<1> QED
  BY <1>g1, <1>g2, <1>g3, <1>g4, <1>g5, <1>g6, <1>g7, <1>g8 DEF OverlapInv

\* A synchronous activation that becomes the owner of its client.
LEMMA SyncOnKeeps ==
    ASSUME TypeOK, OverlapInv, NEW t \in Callers, NEW c \in Clients, alive[c],
           call[t].at = "idle" \/ (call[t].at = "s_switch" /\ call[t].c = c), SyncOn(t, c),
           UNCHANGED <<alive, timer, actWork, vote, wake, work>>, 
           st[c] = "deactivated", c \notin SkipVote
    PROVE  OverlapInv'
<1> USE ClientsAssumption, GroupsAssumption
<1>h. \A u \in Callers : call[u].at \notin FreePcs => call[u].c \in Clients
  BY CallerAt
<1>f1. /\ OnlyMoves(t) /\ call'[t].at = "s_inc" /\ call'[t].c = c /\ call'[t].run = call[t].run
  BY CallerMoves DEF TypeOK, SyncOn, SetState, Active, Timed, InProgress, CallPcs
<1>f2. \A d \in Clients : st'[d] = IF d = c THEN "act_progress" ELSE st[d]
  BY DEF TypeOK, SyncOn, SetState, Active, Timed, InProgress, CallPcs
<1>o. \A d \in Clients :
         /\ Owing(d) \in Nat
         /\ Owing(d)' = Owing(d) + One(call'[t].c = d /\ call'[t].at \in {"s_lock", "x_dec"})
                                 - One(call[t].c = d /\ call[t].at \in {"s_lock", "x_dec"})
  BY <1>f1, OwingMoves
<1>t. \A d \in Clients : vote[d] \in Int
  BY DEF TypeOK
<1>g1. OverlapCalls'
  BY <1>f1, <1>f2
     DEF OverlapInv, OverlapCalls, OverlapPcs, FreePcs, AllPcs, OnlyMoves
<1>g2. CallerOwns'
  BY <1>h, <1>f1, <1>f2
     DEF OverlapInv, OverlapCalls, CallerOwns, WorkerOwns, QueueOwns, SwitchPcs, FreePcs,
         WorkAt, InProgress, Active, Timed, OnlyMoves
<1>g3. WorkerOwns'
  BY <1>f1, <1>f2
     DEF OverlapInv, CallerOwns, WorkerOwns, QueueOwns, SwitchPcs, WorkAt, ActivateWorkPcs,
         TimerWorkPcs, InProgress, Active, Timed, OnlyMoves
<1>g4. QueueOwns'
  BY <1>f1, <1>f2
     DEF OverlapInv, CallerOwns, WorkerOwns, QueueOwns, SwitchPcs, WorkAt, InProgress, Active,
         Timed, OnlyMoves
<1>g5. \A d \in Clients : ~alive'[d] => st'[d] = "deactivated"
  BY <1>f1, <1>f2
     DEF OverlapInv, InProgress, Active, Timed, OnlyMoves
<1>g6. \A d \in Clients : TimerKept(d)'
  BY <1>f1, <1>f2
     DEF OverlapInv, TimerKept, WorkAt, At, SettlePcs, Timed, Active, InProgress, OnlyMoves
<1>g7. \A d \in Clients : WakeOwed(d)'
  BY <1>f1, <1>f2
     DEF OverlapInv, WakeOwed, WorkAt, At, Active, Timed, InProgress, SwitchPcs,
         ActivateWorkPcs, OnlyMoves
<1>g8. \A d \in Clients : IF d \in SkipVote THEN vote'[d] = 0 ELSE VoteOwed(d)'
  BY <1>o, <1>t, <1>f1, <1>f2
     DEF OverlapInv, VoteOwed, WorkAt, One, Active, Timed, InProgress, SwitchPcs,
         ActivateWorkPcs, OnlyMoves
<1> QED
  BY <1>g1, <1>g2, <1>g3, <1>g4, <1>g5, <1>g6, <1>g7, <1>g8 DEF OverlapInv

\* A synchronous activation of a client that needs no vote.
LEMMA SyncSkipKeeps ==
    ASSUME TypeOK, OverlapInv, NEW t \in Callers, NEW c \in Clients, alive[c],
           call[t].at = "idle" \/ (call[t].at = "s_switch" /\ call[t].c = c), SyncOn(t, c),
           UNCHANGED <<alive, timer, actWork, vote, wake, work>>, 
           st[c] = "deactivated", c \in SkipVote
    PROVE  OverlapInv'
<1> USE ClientsAssumption, GroupsAssumption
<1>h. \A u \in Callers : call[u].at \notin FreePcs => call[u].c \in Clients
  BY CallerAt
<1>f1. /\ OnlyMoves(t) /\ call'[t].at = "s_bit" /\ call'[t].c = c /\ call'[t].run = call[t].run
  BY CallerMoves DEF TypeOK, SyncOn, SetState, Active, Timed, InProgress, CallPcs
<1>f2. \A d \in Clients : st'[d] = IF d = c THEN "activated" ELSE st[d]
  BY DEF TypeOK, SyncOn, SetState, Active, Timed, InProgress, CallPcs
<1>o. \A d \in Clients :
         /\ Owing(d) \in Nat
         /\ Owing(d)' = Owing(d) + One(call'[t].c = d /\ call'[t].at \in {"s_lock", "x_dec"})
                                 - One(call[t].c = d /\ call[t].at \in {"s_lock", "x_dec"})
  BY <1>f1, OwingMoves
<1>t. \A d \in Clients : vote[d] \in Int
  BY DEF TypeOK
<1>g1. OverlapCalls'
  BY <1>f1, <1>f2
     DEF OverlapInv, OverlapCalls, OverlapPcs, FreePcs, AllPcs, OnlyMoves
<1>g2. CallerOwns'
  BY <1>h, <1>f1, <1>f2
     DEF OverlapInv, OverlapCalls, CallerOwns, WorkerOwns, QueueOwns, SwitchPcs, FreePcs,
         WorkAt, InProgress, Active, Timed, OnlyMoves
<1>g3. WorkerOwns'
  BY <1>f1, <1>f2
     DEF OverlapInv, CallerOwns, WorkerOwns, QueueOwns, SwitchPcs, WorkAt, ActivateWorkPcs,
         TimerWorkPcs, InProgress, Active, Timed, OnlyMoves
<1>g4. QueueOwns'
  BY <1>f1, <1>f2
     DEF OverlapInv, CallerOwns, WorkerOwns, QueueOwns, SwitchPcs, WorkAt, InProgress, Active,
         Timed, OnlyMoves
<1>g5. \A d \in Clients : ~alive'[d] => st'[d] = "deactivated"
  BY <1>f1, <1>f2
     DEF OverlapInv, InProgress, Active, Timed, OnlyMoves
<1>g6. \A d \in Clients : TimerKept(d)'
  BY <1>f1, <1>f2
     DEF OverlapInv, TimerKept, WorkAt, At, SettlePcs, Timed, Active, InProgress, OnlyMoves
<1>g7. \A d \in Clients : WakeOwed(d)'
  BY <1>f1, <1>f2
     DEF OverlapInv, WakeOwed, WorkAt, At, Active, Timed, InProgress, SwitchPcs,
         ActivateWorkPcs, OnlyMoves
<1>g8. \A d \in Clients : IF d \in SkipVote THEN vote'[d] = 0 ELSE VoteOwed(d)'
  BY <1>o, <1>t, <1>f1, <1>f2
     DEF OverlapInv, VoteOwed, WorkAt, One, Active, Timed, InProgress, SwitchPcs,
         ActivateWorkPcs, OnlyMoves
<1> QED
  BY <1>g1, <1>g2, <1>g3, <1>g4, <1>g5, <1>g6, <1>g7, <1>g8 DEF OverlapInv

\* A deferred deactivation: the timer is queued, or a suspend that is cancelling
\* it will see the state.
LEMMA DeferredKeeps ==
    ASSUME TypeOK, OverlapInv, NEW t \in Callers, NEW c \in Clients, DeferredDeactivate(t, c)
    PROVE  OverlapInv'
<1> USE ClientsAssumption, GroupsAssumption
<1>h. \A u \in Callers : call[u].at \notin FreePcs => call[u].c \in Clients
  BY CallerAt
<1>f1. UNCHANGED <<alive, actWork, vote, wake, work, call>> /\ alive[c]
  BY DEF TypeOK, DeferredDeactivate, MayCall, SetState, QueueTimer, held
<1>f2. \A d \in Clients : d # c => st'[d] = st[d]
  BY DEF TypeOK, DeferredDeactivate, MayCall, SetState, QueueTimer, held
<1>f3. st'[c] = Deferred(st[c])
  BY DEF TypeOK, DeferredDeactivate, MayCall, SetState, QueueTimer, held
<1>f4. \A d \in Clients : timer[d] => timer'[d]
  BY DEF TypeOK, DeferredDeactivate, MayCall, SetState, QueueTimer, held
<1>f5. st[c] = "activated" => \/ timer'[c]
                               \/ \E u \in Callers : call[u].c = c /\ call[u].at \in SettlePcs
  BY DEF TypeOK, DeferredDeactivate, SetState, QueueTimer, CancelPcs, SettlePcs, OverlapInv,
         OverlapCalls, OverlapPcs, AllPcs
<1>o. \A d \in Clients : Owing(d) \in Nat /\ Owing(d)' = Owing(d)
  BY <1>f1, OwingType DEF Owing, At
<1>t. \A d \in Clients : vote[d] \in Int
  BY DEF TypeOK
<1>g1. OverlapCalls'
  BY <1>f1, <1>f2, <1>f3, <1>f4, <1>f5
     DEF OverlapInv, OverlapCalls, OverlapPcs, FreePcs, AllPcs, Deferred
<1>g2. CallerOwns'
  BY <1>h, <1>f1, <1>f2, <1>f3, <1>f4, <1>f5
     DEF OverlapInv, OverlapCalls, CallerOwns, WorkerOwns, QueueOwns, SwitchPcs, FreePcs,
         WorkAt, InProgress, Active, Timed, Deferred
<1>g3. WorkerOwns'
  BY <1>f1, <1>f2, <1>f3, <1>f4, <1>f5
     DEF OverlapInv, CallerOwns, WorkerOwns, QueueOwns, SwitchPcs, WorkAt, ActivateWorkPcs,
         TimerWorkPcs, InProgress, Active, Timed, Deferred
<1>g4. QueueOwns'
  BY <1>f1, <1>f2, <1>f3, <1>f4, <1>f5
     DEF OverlapInv, CallerOwns, WorkerOwns, QueueOwns, SwitchPcs, WorkAt, InProgress, Active,
         Timed, Deferred
<1>g5. \A d \in Clients : ~alive'[d] => st'[d] = "deactivated"
  BY <1>f1, <1>f2, <1>f3, <1>f4, <1>f5
     DEF OverlapInv, InProgress, Active, Timed, Deferred
<1>g6. \A d \in Clients : TimerKept(d)'
  BY <1>f1, <1>f2, <1>f3, <1>f4, <1>f5
     DEF OverlapInv, TimerKept, WorkAt, At, SettlePcs, Timed, Active, InProgress, Deferred
<1>g7. \A d \in Clients : WakeOwed(d)'
  BY <1>f1, <1>f2, <1>f3, <1>f4, <1>f5
     DEF OverlapInv, WakeOwed, WorkAt, At, Active, Timed, InProgress, SwitchPcs,
         ActivateWorkPcs, Deferred
<1>g8. \A d \in Clients : IF d \in SkipVote THEN vote'[d] = 0 ELSE VoteOwed(d)'
  BY <1>o, <1>t, <1>f1, <1>f2, <1>f3, <1>f4, <1>f5
     DEF OverlapInv, VoteOwed, WorkAt, One, Active, Timed, InProgress, SwitchPcs,
         ActivateWorkPcs, Deferred
<1> QED
  BY <1>g1, <1>g2, <1>g3, <1>g4, <1>g5, <1>g6, <1>g7, <1>g8 DEF OverlapInv

\* The suspend comes to a client and cancels its timer.
LEMMA NextKeeps ==
    ASSUME TypeOK, OverlapInv, NEW t \in Callers, NEW c \in Clients, AllNext(t, c)
    PROVE  OverlapInv'
<1> USE ClientsAssumption, GroupsAssumption
<1>h. \A u \in Callers : call[u].at \notin FreePcs => call[u].c \in Clients
  BY CallerAt
<1>f1. /\ OnlyMoves(t) /\ call[t].at = "x_next" /\ call'[t].at = "x_cwait"
       /\ call'[t].c = c /\ call'[t].run = call[t].run
  BY SuspendMoves DEF TypeOK, AllNext, CancelTimer, client, held
<1>f2. UNCHANGED <<alive, st, actWork, vote, wake, work>> /\ alive[c]
  BY DEF TypeOK, AllNext, CancelTimer, client, held
<1>f3. \A d \in Clients : timer'[d] <=> timer[d] /\ d # c
  BY DEF TypeOK, AllNext, CancelTimer, client, held
<1>o. \A d \in Clients :
         /\ Owing(d) \in Nat
         /\ Owing(d)' = Owing(d) + One(call'[t].c = d /\ call'[t].at \in {"s_lock", "x_dec"})
                                 - One(call[t].c = d /\ call[t].at \in {"s_lock", "x_dec"})
  BY <1>f1, OwingMoves
<1>t. \A d \in Clients : vote[d] \in Int
  BY DEF TypeOK
<1>g1. OverlapCalls'
  BY <1>f1, <1>f2, <1>f3
     DEF OverlapInv, OverlapCalls, OverlapPcs, FreePcs, AllPcs, OnlyMoves
<1>g2. CallerOwns'
  BY <1>h, <1>f1, <1>f2, <1>f3
     DEF OverlapInv, OverlapCalls, CallerOwns, WorkerOwns, QueueOwns, SwitchPcs, FreePcs,
         WorkAt, InProgress, Active, Timed, OnlyMoves
<1>g3. WorkerOwns'
  BY <1>f1, <1>f2, <1>f3
     DEF OverlapInv, CallerOwns, WorkerOwns, QueueOwns, SwitchPcs, WorkAt, ActivateWorkPcs,
         TimerWorkPcs, InProgress, Active, Timed, OnlyMoves
<1>g4. QueueOwns'
  BY <1>f1, <1>f2, <1>f3
     DEF OverlapInv, CallerOwns, WorkerOwns, QueueOwns, SwitchPcs, WorkAt, InProgress, Active,
         Timed, OnlyMoves
<1>g5. \A d \in Clients : ~alive'[d] => st'[d] = "deactivated"
  BY <1>f1, <1>f2, <1>f3
     DEF OverlapInv, InProgress, Active, Timed, OnlyMoves
<1>g6. \A d \in Clients : TimerKept(d)'
  BY <1>f1, <1>f2, <1>f3
     DEF OverlapInv, TimerKept, WorkAt, At, SettlePcs, Timed, Active, InProgress, OnlyMoves
<1>g7. \A d \in Clients : WakeOwed(d)'
  BY <1>f1, <1>f2, <1>f3
     DEF OverlapInv, WakeOwed, WorkAt, At, Active, Timed, InProgress, SwitchPcs,
         ActivateWorkPcs, OnlyMoves
<1>g8. \A d \in Clients : IF d \in SkipVote THEN vote'[d] = 0 ELSE VoteOwed(d)'
  BY <1>o, <1>t, <1>f1, <1>f2, <1>f3
     DEF OverlapInv, VoteOwed, WorkAt, One, Active, Timed, InProgress, SwitchPcs,
         ActivateWorkPcs, OnlyMoves
<1> QED
  BY <1>g1, <1>g2, <1>g3, <1>g4, <1>g5, <1>g6, <1>g7, <1>g8 DEF OverlapInv

\* A synchronous activation has its vote.
LEMMA IncKeeps ==
    ASSUME TypeOK, OverlapInv, NEW t \in Callers, SyncInc(t)
    PROVE  OverlapInv'
<1> USE ClientsAssumption, GroupsAssumption
<1>h. \A u \in Callers : call[u].at \notin FreePcs => call[u].c \in Clients
  BY CallerAt
<1>f1. /\ OnlyMoves(t) /\ call[t].at = "s_inc" /\ call'[t].at = "s_lock"
       /\ call'[t].c = call[t].c /\ call'[t].run = call[t].run
  BY CallerMoves DEF TypeOK, SyncInc, Inc, One, client, queue, CallPcs
<1>f2. call[t].c \in Clients \ SkipVote /\ alive[call[t].c] /\ st[call[t].c] \in InProgress
  BY <1>f1, <1>h DEF OverlapInv, OverlapCalls, CallerOwns, SwitchPcs, FreePcs
<1>f3. UNCHANGED <<alive, st, timer, actWork, wake, work>>
  BY DEF TypeOK, SyncInc, Inc, One, client, queue, CallPcs
<1>f4. \A d \in Clients : vote'[d] = vote[d] + One(d = call[t].c /\ d \notin SkipVote)
  BY DEF TypeOK, SyncInc, Inc, One, client, queue, CallPcs
<1>o. \A d \in Clients :
         /\ Owing(d) \in Nat
         /\ Owing(d)' = Owing(d) + One(call'[t].c = d /\ call'[t].at \in {"s_lock", "x_dec"})
                                 - One(call[t].c = d /\ call[t].at \in {"s_lock", "x_dec"})
  BY <1>f1, OwingMoves
<1>t. \A d \in Clients : vote[d] \in Int
  BY DEF TypeOK
<1>g1. OverlapCalls'
  BY <1>f1, <1>f2, <1>f3, <1>f4
     DEF OverlapInv, OverlapCalls, OverlapPcs, FreePcs, AllPcs, OnlyMoves
<1>g2. CallerOwns'
  BY <1>h, <1>f1, <1>f2, <1>f3, <1>f4
     DEF OverlapInv, OverlapCalls, CallerOwns, WorkerOwns, QueueOwns, SwitchPcs, FreePcs,
         WorkAt, InProgress, Active, Timed, OnlyMoves
<1>g3. WorkerOwns'
  BY <1>f1, <1>f2, <1>f3, <1>f4
     DEF OverlapInv, CallerOwns, WorkerOwns, QueueOwns, SwitchPcs, WorkAt, ActivateWorkPcs,
         TimerWorkPcs, InProgress, Active, Timed, OnlyMoves
<1>g4. QueueOwns'
  BY <1>f1, <1>f2, <1>f3, <1>f4
     DEF OverlapInv, CallerOwns, WorkerOwns, QueueOwns, SwitchPcs, WorkAt, InProgress, Active,
         Timed, OnlyMoves
<1>g5. \A d \in Clients : ~alive'[d] => st'[d] = "deactivated"
  BY <1>f1, <1>f2, <1>f3, <1>f4
     DEF OverlapInv, InProgress, Active, Timed, OnlyMoves
<1>g6. \A d \in Clients : TimerKept(d)'
  BY <1>f1, <1>f2, <1>f3, <1>f4
     DEF OverlapInv, TimerKept, WorkAt, At, SettlePcs, Timed, Active, InProgress, OnlyMoves
<1>g7. \A d \in Clients : WakeOwed(d)'
  BY <1>f1, <1>f2, <1>f3, <1>f4
     DEF OverlapInv, WakeOwed, WorkAt, At, Active, Timed, InProgress, SwitchPcs,
         ActivateWorkPcs, OnlyMoves
<1>g8. \A d \in Clients : IF d \in SkipVote THEN vote'[d] = 0 ELSE VoteOwed(d)'
  BY <1>o, <1>t, <1>f1, <1>f2, <1>f3, <1>f4
     DEF OverlapInv, VoteOwed, WorkAt, One, Active, Timed, InProgress, SwitchPcs,
         ActivateWorkPcs, OnlyMoves
<1> QED
  BY <1>g1, <1>g2, <1>g3, <1>g4, <1>g5, <1>g6, <1>g7, <1>g8 DEF OverlapInv

\* A synchronous activation stores its state.
LEMMA LockKeeps ==
    ASSUME TypeOK, OverlapInv, NEW t \in Callers, SyncLock(t)
    PROVE  OverlapInv'
<1> USE ClientsAssumption, GroupsAssumption
<1>h. \A u \in Callers : call[u].at \notin FreePcs => call[u].c \in Clients
  BY CallerAt
<1>f1. /\ OnlyMoves(t) /\ call[t].at = "s_lock" /\ call'[t].at = "s_bit"
       /\ call'[t].c = call[t].c /\ call'[t].run = call[t].run
  BY CallerMoves DEF TypeOK, SyncLock, SetState, StayAwake, queue, CallPcs
<1>f2. call[t].c \in Clients \ SkipVote /\ alive[call[t].c] /\ st[call[t].c] \in InProgress
  BY <1>f1, <1>h DEF OverlapInv, OverlapCalls, CallerOwns, SwitchPcs, FreePcs
<1>f3. UNCHANGED <<alive, timer, actWork, vote, work>>
  BY DEF TypeOK, SyncLock, SetState, StayAwake, queue, CallPcs
<1>f4. \A d \in Clients : st'[d] = IF d = call[t].c THEN "activated" ELSE st[d]
  BY DEF TypeOK, SyncLock, SetState, StayAwake, queue, CallPcs
<1>f5. \A d \in Clients : wake'[d] => wake[d] \/ (d = call[t].c /\ d \in Apps)
  BY DEF TypeOK, SyncLock, SetState, StayAwake, queue, CallPcs
<1>o. \A d \in Clients :
         /\ Owing(d) \in Nat
         /\ Owing(d)' = Owing(d) + One(call'[t].c = d /\ call'[t].at \in {"s_lock", "x_dec"})
                                 - One(call[t].c = d /\ call[t].at \in {"s_lock", "x_dec"})
  BY <1>f1, OwingMoves
<1>t. \A d \in Clients : vote[d] \in Int
  BY DEF TypeOK
<1>g1. OverlapCalls'
  BY <1>f1, <1>f2, <1>f3, <1>f4, <1>f5
     DEF OverlapInv, OverlapCalls, OverlapPcs, FreePcs, AllPcs, OnlyMoves
<1>g2. CallerOwns'
  BY <1>h, <1>f1, <1>f2, <1>f3, <1>f4, <1>f5
     DEF OverlapInv, OverlapCalls, CallerOwns, WorkerOwns, QueueOwns, SwitchPcs, FreePcs,
         WorkAt, InProgress, Active, Timed, OnlyMoves
<1>g3. WorkerOwns'
  BY <1>f1, <1>f2, <1>f3, <1>f4, <1>f5
     DEF OverlapInv, CallerOwns, WorkerOwns, QueueOwns, SwitchPcs, WorkAt, ActivateWorkPcs,
         TimerWorkPcs, InProgress, Active, Timed, OnlyMoves
<1>g4. QueueOwns'
  BY <1>f1, <1>f2, <1>f3, <1>f4, <1>f5
     DEF OverlapInv, CallerOwns, WorkerOwns, QueueOwns, SwitchPcs, WorkAt, InProgress, Active,
         Timed, OnlyMoves
<1>g5. \A d \in Clients : ~alive'[d] => st'[d] = "deactivated"
  BY <1>f1, <1>f2, <1>f3, <1>f4, <1>f5
     DEF OverlapInv, InProgress, Active, Timed, OnlyMoves
<1>g6. \A d \in Clients : TimerKept(d)'
  BY <1>f1, <1>f2, <1>f3, <1>f4, <1>f5
     DEF OverlapInv, TimerKept, WorkAt, At, SettlePcs, Timed, Active, InProgress, OnlyMoves
<1>g7. \A d \in Clients : WakeOwed(d)'
  BY <1>f1, <1>f2, <1>f3, <1>f4, <1>f5
     DEF OverlapInv, WakeOwed, WorkAt, At, Active, Timed, InProgress, SwitchPcs,
         ActivateWorkPcs, OnlyMoves
<1>g8. \A d \in Clients : IF d \in SkipVote THEN vote'[d] = 0 ELSE VoteOwed(d)'
  BY <1>o, <1>t, <1>f1, <1>f2, <1>f3, <1>f4, <1>f5
     DEF OverlapInv, VoteOwed, WorkAt, One, Active, Timed, InProgress, SwitchPcs,
         ActivateWorkPcs, OnlyMoves
<1> QED
  BY <1>g1, <1>g2, <1>g3, <1>g4, <1>g5, <1>g6, <1>g7, <1>g8 DEF OverlapInv

\* The suspend finds a client that was activated again.
LEMMA UntimeKeeps ==
    ASSUME TypeOK, OverlapInv, NEW t \in Callers, AllLock(t), st[call[t].c] = "timer_set"
    PROVE  OverlapInv'
<1> USE ClientsAssumption, GroupsAssumption
<1>h. \A u \in Callers : call[u].at \notin FreePcs => call[u].c \in Clients
  BY CallerAt
<1>f1. /\ OnlyMoves(t) /\ call[t].at = "x_lock" /\ call'[t].at = "x_next"
       /\ call'[t].c = NoClient /\ call'[t].run = call[t].run
  BY CallerMoves DEF TypeOK, AllLock, SetState, queue, held, CallPcs, Timed
<1>f2. call[t].c \in Clients /\ alive[call[t].c]
  BY <1>f1, <1>h DEF OverlapInv, OverlapCalls, FreePcs
<1>f3. UNCHANGED <<alive, timer, actWork, vote, wake, work>>
  BY DEF TypeOK, AllLock, SetState, queue, held, CallPcs, Timed
<1>f4. \A d \in Clients : st'[d] = IF d = call[t].c THEN "activated" ELSE st[d]
  BY DEF TypeOK, AllLock, SetState, queue, held, CallPcs, Timed
<1>o. \A d \in Clients :
         /\ Owing(d) \in Nat
         /\ Owing(d)' = Owing(d) + One(call'[t].c = d /\ call'[t].at \in {"s_lock", "x_dec"})
                                 - One(call[t].c = d /\ call[t].at \in {"s_lock", "x_dec"})
  BY <1>f1, OwingMoves
<1>t. \A d \in Clients : vote[d] \in Int
  BY DEF TypeOK
<1>g1. OverlapCalls'
  BY <1>f1, <1>f2, <1>f3, <1>f4
     DEF OverlapInv, OverlapCalls, OverlapPcs, FreePcs, AllPcs, OnlyMoves
<1>g2. CallerOwns'
  BY <1>h, <1>f1, <1>f2, <1>f3, <1>f4
     DEF OverlapInv, OverlapCalls, CallerOwns, WorkerOwns, QueueOwns, SwitchPcs, FreePcs,
         WorkAt, InProgress, Active, Timed, OnlyMoves
<1>g3. WorkerOwns'
  BY <1>f1, <1>f2, <1>f3, <1>f4
     DEF OverlapInv, CallerOwns, WorkerOwns, QueueOwns, SwitchPcs, WorkAt, ActivateWorkPcs,
         TimerWorkPcs, InProgress, Active, Timed, OnlyMoves
<1>g4. QueueOwns'
  BY <1>f1, <1>f2, <1>f3, <1>f4
     DEF OverlapInv, CallerOwns, WorkerOwns, QueueOwns, SwitchPcs, WorkAt, InProgress, Active,
         Timed, OnlyMoves
<1>g5. \A d \in Clients : ~alive'[d] => st'[d] = "deactivated"
  BY <1>f1, <1>f2, <1>f3, <1>f4
     DEF OverlapInv, InProgress, Active, Timed, OnlyMoves
<1>g6. \A d \in Clients : TimerKept(d)'
  BY <1>f1, <1>f2, <1>f3, <1>f4
     DEF OverlapInv, TimerKept, WorkAt, At, SettlePcs, Timed, Active, InProgress, OnlyMoves
<1>g7. \A d \in Clients : WakeOwed(d)'
  BY <1>f1, <1>f2, <1>f3, <1>f4
     DEF OverlapInv, WakeOwed, WorkAt, At, Active, Timed, InProgress, SwitchPcs,
         ActivateWorkPcs, OnlyMoves
<1>g8. \A d \in Clients : IF d \in SkipVote THEN vote'[d] = 0 ELSE VoteOwed(d)'
  BY <1>o, <1>t, <1>f1, <1>f2, <1>f3, <1>f4
     DEF OverlapInv, VoteOwed, WorkAt, One, Active, Timed, InProgress, SwitchPcs,
         ActivateWorkPcs, OnlyMoves
<1> QED
  BY <1>g1, <1>g2, <1>g3, <1>g4, <1>g5, <1>g6, <1>g7, <1>g8 DEF OverlapInv

\* The suspend deactivates a client and owes its vote.
LEMMA DropKeeps ==
    ASSUME TypeOK, OverlapInv, NEW t \in Callers, AllLock(t), 
           st[call[t].c] \in {"pending_deact", "pending_resched"}
    PROVE  OverlapInv'
<1> USE ClientsAssumption, GroupsAssumption
<1>h. \A u \in Callers : call[u].at \notin FreePcs => call[u].c \in Clients
  BY CallerAt
<1>m. AllAt(t, "x_dec", call[t].c, call[t].rem, TRUE)
  BY DEF AllLock, Timed
<1>f1. /\ OnlyMoves(t) /\ call[t].at = "x_lock" /\ call'[t].at = "x_dec"
       /\ call'[t].c = call[t].c
  BY <1>m, SuspendMoves DEF AllLock
<1>f2. call[t].c \in Clients /\ alive[call[t].c]
  BY <1>f1, <1>h DEF OverlapInv, OverlapCalls, FreePcs
<1>f3. UNCHANGED <<alive, timer, actWork, vote, wake, work>>
  BY DEF TypeOK, AllLock, SetState, queue, held, CallPcs, Timed
<1>f4. \A d \in Clients : st'[d] = IF d = call[t].c THEN "deactivated" ELSE st[d]
  BY DEF TypeOK, AllLock, SetState, queue, held, CallPcs, Timed
<1>o. \A d \in Clients :
         /\ Owing(d) \in Nat
         /\ Owing(d)' = Owing(d) + One(call'[t].c = d /\ call'[t].at \in {"s_lock", "x_dec"})
                                 - One(call[t].c = d /\ call[t].at \in {"s_lock", "x_dec"})
  BY <1>f1, OwingMoves
<1>t. \A d \in Clients : vote[d] \in Int
  BY DEF TypeOK
<1>g1. OverlapCalls'
  BY <1>f1, <1>f2, <1>f3, <1>f4
     DEF OverlapInv, OverlapCalls, OverlapPcs, FreePcs, AllPcs, OnlyMoves
<1>g2. CallerOwns'
  BY <1>h, <1>f1, <1>f2, <1>f3, <1>f4
     DEF OverlapInv, OverlapCalls, CallerOwns, WorkerOwns, QueueOwns, SwitchPcs, FreePcs,
         WorkAt, InProgress, Active, Timed, OnlyMoves
<1>g3. WorkerOwns'
  BY <1>f1, <1>f2, <1>f3, <1>f4
     DEF OverlapInv, CallerOwns, WorkerOwns, QueueOwns, SwitchPcs, WorkAt, ActivateWorkPcs,
         TimerWorkPcs, InProgress, Active, Timed, OnlyMoves
<1>g4. QueueOwns'
  BY <1>f1, <1>f2, <1>f3, <1>f4
     DEF OverlapInv, CallerOwns, WorkerOwns, QueueOwns, SwitchPcs, WorkAt, InProgress, Active,
         Timed, OnlyMoves
<1>g5. \A d \in Clients : ~alive'[d] => st'[d] = "deactivated"
  BY <1>f1, <1>f2, <1>f3, <1>f4
     DEF OverlapInv, InProgress, Active, Timed, OnlyMoves
<1>g6. \A d \in Clients : TimerKept(d)'
  BY <1>f1, <1>f2, <1>f3, <1>f4
     DEF OverlapInv, TimerKept, WorkAt, At, SettlePcs, Timed, Active, InProgress, OnlyMoves
<1>g7. \A d \in Clients : WakeOwed(d)'
  BY <1>f1, <1>f2, <1>f3, <1>f4
     DEF OverlapInv, WakeOwed, WorkAt, At, Active, Timed, InProgress, SwitchPcs,
         ActivateWorkPcs, OnlyMoves
<1>g8. \A d \in Clients : IF d \in SkipVote THEN vote'[d] = 0 ELSE VoteOwed(d)'
  BY <1>o, <1>t, <1>f1, <1>f2, <1>f3, <1>f4
     DEF OverlapInv, VoteOwed, WorkAt, One, Active, Timed, InProgress, SwitchPcs,
         ActivateWorkPcs, OnlyMoves
<1> QED
  BY <1>g1, <1>g2, <1>g3, <1>g4, <1>g5, <1>g6, <1>g7, <1>g8 DEF OverlapInv

\* The suspend drops the vote it owes.
LEMMA AllDecKeeps ==
    ASSUME TypeOK, OverlapInv, NEW t \in Callers, AllDec(t)
    PROVE  OverlapInv'
<1> USE ClientsAssumption, GroupsAssumption
<1>h. \A u \in Callers : call[u].at \notin FreePcs => call[u].c \in Clients
  BY CallerAt
<1>f1. /\ OnlyMoves(t) /\ call[t].at = "x_dec" /\ call'[t].at = "x_bit"
       /\ call'[t].c = call[t].c /\ call'[t].run = call[t].run
  BY CallerMoves DEF TypeOK, AllDec, DecBounded, Dec, Relax, One, client, queue, CallPcs
<1>f2. call[t].c \in Clients /\ alive[call[t].c]
  BY <1>f1, <1>h DEF OverlapInv, OverlapCalls, FreePcs
<1>f3. UNCHANGED <<alive, st, timer, actWork, work>>
  BY DEF TypeOK, AllDec, DecBounded, Dec, Relax, One, client, queue, CallPcs
<1>f4. \A d \in Clients : vote'[d] = vote[d] - One(d = call[t].c /\ d \notin SkipVote)
  BY DEF TypeOK, AllDec, DecBounded, Dec, Relax, One, client, queue, CallPcs
<1>f5. \A d \in Clients : wake'[d] => wake[d] /\ (d # call[t].c \/ d \notin Apps)
  BY DEF TypeOK, AllDec, DecBounded, Dec, Relax, One, client, queue, CallPcs
<1>o. \A d \in Clients :
         /\ Owing(d) \in Nat
         /\ Owing(d)' = Owing(d) + One(call'[t].c = d /\ call'[t].at \in {"s_lock", "x_dec"})
                                 - One(call[t].c = d /\ call[t].at \in {"s_lock", "x_dec"})
  BY <1>f1, OwingMoves
<1>t. \A d \in Clients : vote[d] \in Int
  BY DEF TypeOK
<1>g1. OverlapCalls'
  BY <1>f1, <1>f2, <1>f3, <1>f4, <1>f5
     DEF OverlapInv, OverlapCalls, OverlapPcs, FreePcs, AllPcs, OnlyMoves
<1>g2. CallerOwns'
  BY <1>h, <1>f1, <1>f2, <1>f3, <1>f4, <1>f5
     DEF OverlapInv, OverlapCalls, CallerOwns, WorkerOwns, QueueOwns, SwitchPcs, FreePcs,
         WorkAt, InProgress, Active, Timed, OnlyMoves
<1>g3. WorkerOwns'
  BY <1>f1, <1>f2, <1>f3, <1>f4, <1>f5
     DEF OverlapInv, CallerOwns, WorkerOwns, QueueOwns, SwitchPcs, WorkAt, ActivateWorkPcs,
         TimerWorkPcs, InProgress, Active, Timed, OnlyMoves
<1>g4. QueueOwns'
  BY <1>f1, <1>f2, <1>f3, <1>f4, <1>f5
     DEF OverlapInv, CallerOwns, WorkerOwns, QueueOwns, SwitchPcs, WorkAt, InProgress, Active,
         Timed, OnlyMoves
<1>g5. \A d \in Clients : ~alive'[d] => st'[d] = "deactivated"
  BY <1>f1, <1>f2, <1>f3, <1>f4, <1>f5
     DEF OverlapInv, InProgress, Active, Timed, OnlyMoves
<1>g6. \A d \in Clients : TimerKept(d)'
  BY <1>f1, <1>f2, <1>f3, <1>f4, <1>f5
     DEF OverlapInv, TimerKept, WorkAt, At, SettlePcs, Timed, Active, InProgress, OnlyMoves
<1>g7. \A d \in Clients : WakeOwed(d)'
  BY <1>f1, <1>f2, <1>f3, <1>f4, <1>f5
     DEF OverlapInv, WakeOwed, WorkAt, At, Active, Timed, InProgress, SwitchPcs,
         ActivateWorkPcs, OnlyMoves
<1>g8. \A d \in Clients : IF d \in SkipVote THEN vote'[d] = 0 ELSE VoteOwed(d)'
  BY <1>o, <1>t, <1>f1, <1>f2, <1>f3, <1>f4, <1>f5
     DEF OverlapInv, VoteOwed, WorkAt, One, Active, Timed, InProgress, SwitchPcs,
         ActivateWorkPcs, OnlyMoves
<1> QED
  BY <1>g1, <1>g2, <1>g3, <1>g4, <1>g5, <1>g6, <1>g7, <1>g8 DEF OverlapInv

\* The worker takes an activation from the queue.
LEMMA WorkKeeps ==
    ASSUME TypeOK, OverlapInv, NEW c \in Clients, ActivateWork(c)
    PROVE  OverlapInv'
<1> USE ClientsAssumption, GroupsAssumption
<1>h. \A u \in Callers : call[u].at \notin FreePcs => call[u].c \in Clients
  BY CallerAt
<1>f1. UNCHANGED <<alive, st, timer, vote, wake, call>> /\ actWork[c] /\ work.at = "idle"
  BY DEF TypeOK, ActivateWork, client, held
<1>f2. \A d \in Clients : actWork'[d] <=> actWork[d] /\ d # c
  BY DEF TypeOK, ActivateWork, client, held
<1>f3. work'.at = "act_inc" /\ work'.c = c
  BY DEF TypeOK, ActivateWork, client, held
<1>o. \A d \in Clients : Owing(d) \in Nat /\ Owing(d)' = Owing(d)
  BY <1>f1, OwingType DEF Owing, At
<1>t. \A d \in Clients : vote[d] \in Int
  BY DEF TypeOK
<1>g1. OverlapCalls'
  BY <1>f1, <1>f2, <1>f3
     DEF OverlapInv, OverlapCalls, OverlapPcs, FreePcs, AllPcs
<1>g2. CallerOwns'
  BY <1>h, <1>f1, <1>f2, <1>f3
     DEF OverlapInv, OverlapCalls, CallerOwns, WorkerOwns, QueueOwns, SwitchPcs, FreePcs,
         WorkAt, InProgress, Active, Timed
<1>g3. WorkerOwns'
  BY <1>f1, <1>f2, <1>f3
     DEF OverlapInv, CallerOwns, WorkerOwns, QueueOwns, SwitchPcs, WorkAt, ActivateWorkPcs,
         TimerWorkPcs, InProgress, Active, Timed
<1>g4. QueueOwns'
  BY <1>f1, <1>f2, <1>f3
     DEF OverlapInv, CallerOwns, WorkerOwns, QueueOwns, SwitchPcs, WorkAt, InProgress, Active,
         Timed
<1>g5. \A d \in Clients : ~alive'[d] => st'[d] = "deactivated"
  BY <1>f1, <1>f2, <1>f3
     DEF OverlapInv, InProgress, Active, Timed
<1>g6. \A d \in Clients : TimerKept(d)'
  BY <1>f1, <1>f2, <1>f3
     DEF OverlapInv, TimerKept, WorkAt, At, SettlePcs, Timed, Active, InProgress
<1>g7. \A d \in Clients : WakeOwed(d)'
  BY <1>f1, <1>f2, <1>f3
     DEF OverlapInv, WakeOwed, WorkAt, At, Active, Timed, InProgress, SwitchPcs, ActivateWorkPcs
<1>g8. \A d \in Clients : IF d \in SkipVote THEN vote'[d] = 0 ELSE VoteOwed(d)'
  BY <1>o, <1>t, <1>f1, <1>f2, <1>f3
     DEF OverlapInv, VoteOwed, WorkAt, One, Active, Timed, InProgress, SwitchPcs,
         ActivateWorkPcs
<1> QED
  BY <1>g1, <1>g2, <1>g3, <1>g4, <1>g5, <1>g6, <1>g7, <1>g8 DEF OverlapInv

\* The worker has the vote of an activation.
LEMMA WorkIncKeeps ==
    ASSUME TypeOK, OverlapInv, ActivateWorkInc
    PROVE  OverlapInv'
<1> USE ClientsAssumption, GroupsAssumption
<1>h. \A u \in Callers : call[u].at \notin FreePcs => call[u].c \in Clients
  BY CallerAt
<1>f1. UNCHANGED <<alive, st, timer, actWork, call>> /\ work.at = "act_inc"
  BY DEF TypeOK, ActivateWorkInc, IncBounded, Inc, StayAwake, WorkGoto, One, client, queue
<1>f2. work'.at = "act_state" /\ work'.c = work.c
  BY DEF TypeOK, ActivateWorkInc, IncBounded, Inc, StayAwake, WorkGoto, One, client, queue
<1>f3. \A d \in Clients : vote'[d] = vote[d] + One(d = work.c /\ d \notin SkipVote)
  BY DEF TypeOK, ActivateWorkInc, IncBounded, Inc, StayAwake, WorkGoto, One, client, queue
<1>f4. \A d \in Clients : wake'[d] => wake[d] \/ (d = work.c /\ d \in Apps)
  BY DEF TypeOK, ActivateWorkInc, IncBounded, Inc, StayAwake, WorkGoto, One, client, queue
<1>o. \A d \in Clients : Owing(d) \in Nat /\ Owing(d)' = Owing(d)
  BY <1>f1, OwingType DEF Owing, At
<1>t. \A d \in Clients : vote[d] \in Int
  BY DEF TypeOK
<1>g1. OverlapCalls'
  BY <1>f1, <1>f2, <1>f3, <1>f4
     DEF OverlapInv, OverlapCalls, OverlapPcs, FreePcs, AllPcs
<1>g2. CallerOwns'
  BY <1>h, <1>f1, <1>f2, <1>f3, <1>f4
     DEF OverlapInv, OverlapCalls, CallerOwns, WorkerOwns, QueueOwns, SwitchPcs, FreePcs,
         WorkAt, InProgress, Active, Timed
<1>g3. WorkerOwns'
  BY <1>f1, <1>f2, <1>f3, <1>f4
     DEF OverlapInv, CallerOwns, WorkerOwns, QueueOwns, SwitchPcs, WorkAt, ActivateWorkPcs,
         TimerWorkPcs, InProgress, Active, Timed
<1>g4. QueueOwns'
  BY <1>f1, <1>f2, <1>f3, <1>f4
     DEF OverlapInv, CallerOwns, WorkerOwns, QueueOwns, SwitchPcs, WorkAt, InProgress, Active,
         Timed
<1>g5. \A d \in Clients : ~alive'[d] => st'[d] = "deactivated"
  BY <1>f1, <1>f2, <1>f3, <1>f4
     DEF OverlapInv, InProgress, Active, Timed
<1>g6. \A d \in Clients : TimerKept(d)'
  BY <1>f1, <1>f2, <1>f3, <1>f4
     DEF OverlapInv, TimerKept, WorkAt, At, SettlePcs, Timed, Active, InProgress
<1>g7. \A d \in Clients : WakeOwed(d)'
  BY <1>f1, <1>f2, <1>f3, <1>f4
     DEF OverlapInv, WakeOwed, WorkAt, At, Active, Timed, InProgress, SwitchPcs, ActivateWorkPcs
<1>g8. \A d \in Clients : IF d \in SkipVote THEN vote'[d] = 0 ELSE VoteOwed(d)'
  BY <1>o, <1>t, <1>f1, <1>f2, <1>f3, <1>f4
     DEF OverlapInv, VoteOwed, WorkAt, One, Active, Timed, InProgress, SwitchPcs,
         ActivateWorkPcs
<1> QED
  BY <1>g1, <1>g2, <1>g3, <1>g4, <1>g5, <1>g6, <1>g7, <1>g8 DEF OverlapInv

\* The worker finds the state it expects, and stores the next.
LEMMA WorkStateKeeps ==
    ASSUME TypeOK, OverlapInv, ActivateWorkState
    PROVE  OverlapInv'
<1> USE ClientsAssumption, GroupsAssumption
<1>h. \A u \in Callers : call[u].at \notin FreePcs => call[u].c \in Clients
  BY CallerAt
<1>f1. UNCHANGED <<alive, timer, actWork, vote, wake, call>> /\ work.at = "act_state"
  BY DEF TypeOK, ActivateWorkState, SetState, WorkGoto, InProgress, queue, held
<1>f2. work.c \in Clients \ SkipVote /\ st[work.c] \in InProgress
  BY <1>f1 DEF OverlapInv, WorkerOwns, ActivateWorkPcs
<1>f3. \/ /\ work'.at = "act_done" /\ work'.c = work.c
          /\ \A d \in Clients : st'[d] = IF d = work.c THEN "activated" ELSE st[d]
       \/ /\ work'.at = "act_undo" /\ work'.c = work.c
          /\ \A d \in Clients : st'[d] = IF d = work.c THEN "deactivated" ELSE st[d]
  BY <1>f2 DEF TypeOK, ActivateWorkState, SetState, WorkGoto, InProgress, queue, held
<1>o. \A d \in Clients : Owing(d) \in Nat /\ Owing(d)' = Owing(d)
  BY <1>f1, OwingType DEF Owing, At
<1>t. \A d \in Clients : vote[d] \in Int
  BY DEF TypeOK
<1>g1. OverlapCalls'
  BY <1>f1, <1>f2, <1>f3
     DEF OverlapInv, OverlapCalls, OverlapPcs, FreePcs, AllPcs
<1>g2. CallerOwns'
  BY <1>h, <1>f1, <1>f2, <1>f3
     DEF OverlapInv, OverlapCalls, CallerOwns, WorkerOwns, QueueOwns, SwitchPcs, FreePcs,
         WorkAt, InProgress, Active, Timed
<1>g3. WorkerOwns'
  BY <1>f1, <1>f2, <1>f3
     DEF OverlapInv, CallerOwns, WorkerOwns, QueueOwns, SwitchPcs, WorkAt, ActivateWorkPcs,
         TimerWorkPcs, InProgress, Active, Timed
<1>g4. QueueOwns'
  BY <1>f1, <1>f2, <1>f3
     DEF OverlapInv, CallerOwns, WorkerOwns, QueueOwns, SwitchPcs, WorkAt, InProgress, Active,
         Timed
<1>g5. \A d \in Clients : ~alive'[d] => st'[d] = "deactivated"
  BY <1>f1, <1>f2, <1>f3
     DEF OverlapInv, InProgress, Active, Timed
<1>g6. \A d \in Clients : TimerKept(d)'
  BY <1>f1, <1>f2, <1>f3
     DEF OverlapInv, TimerKept, WorkAt, At, SettlePcs, Timed, Active, InProgress
<1>g7. \A d \in Clients : WakeOwed(d)'
  BY <1>f1, <1>f2, <1>f3
     DEF OverlapInv, WakeOwed, WorkAt, At, Active, Timed, InProgress, SwitchPcs, ActivateWorkPcs
<1>g8. \A d \in Clients : IF d \in SkipVote THEN vote'[d] = 0 ELSE VoteOwed(d)'
  BY <1>o, <1>t, <1>f1, <1>f2, <1>f3
     DEF OverlapInv, VoteOwed, WorkAt, One, Active, Timed, InProgress, SwitchPcs,
         ActivateWorkPcs
<1> QED
  BY <1>g1, <1>g2, <1>g3, <1>g4, <1>g5, <1>g6, <1>g7, <1>g8 DEF OverlapInv

\* The worker drops the vote of an activation that was withdrawn.
LEMMA WorkDecKeeps ==
    ASSUME TypeOK, OverlapInv, ActivateWorkDec
    PROVE  OverlapInv'
<1> USE ClientsAssumption, GroupsAssumption
<1>h. \A u \in Callers : call[u].at \notin FreePcs => call[u].c \in Clients
  BY CallerAt
<1>f1. UNCHANGED <<alive, st, timer, actWork, call>> /\ work.at = "act_dec"
  BY DEF TypeOK, ActivateWorkDec, DecBounded, Dec, Relax, WorkDone, NoWork, One, client, queue
<1>f2. work'.at = "idle"
  BY DEF TypeOK, ActivateWorkDec, DecBounded, Dec, Relax, WorkDone, NoWork, One, client, queue
<1>f3. \A d \in Clients : vote'[d] = vote[d] - One(d = work.c /\ d \notin SkipVote)
  BY DEF TypeOK, ActivateWorkDec, DecBounded, Dec, Relax, WorkDone, NoWork, One, client, queue
<1>f4. \A d \in Clients : wake'[d] => wake[d] /\ (d # work.c \/ d \notin Apps)
  BY DEF TypeOK, ActivateWorkDec, DecBounded, Dec, Relax, WorkDone, NoWork, One, client, queue
<1>o. \A d \in Clients : Owing(d) \in Nat /\ Owing(d)' = Owing(d)
  BY <1>f1, OwingType DEF Owing, At
<1>t. \A d \in Clients : vote[d] \in Int
  BY DEF TypeOK
<1>g1. OverlapCalls'
  BY <1>f1, <1>f2, <1>f3, <1>f4
     DEF OverlapInv, OverlapCalls, OverlapPcs, FreePcs, AllPcs
<1>g2. CallerOwns'
  BY <1>h, <1>f1, <1>f2, <1>f3, <1>f4
     DEF OverlapInv, OverlapCalls, CallerOwns, WorkerOwns, QueueOwns, SwitchPcs, FreePcs,
         WorkAt, InProgress, Active, Timed
<1>g3. WorkerOwns'
  BY <1>f1, <1>f2, <1>f3, <1>f4
     DEF OverlapInv, CallerOwns, WorkerOwns, QueueOwns, SwitchPcs, WorkAt, ActivateWorkPcs,
         TimerWorkPcs, InProgress, Active, Timed
<1>g4. QueueOwns'
  BY <1>f1, <1>f2, <1>f3, <1>f4
     DEF OverlapInv, CallerOwns, WorkerOwns, QueueOwns, SwitchPcs, WorkAt, InProgress, Active,
         Timed
<1>g5. \A d \in Clients : ~alive'[d] => st'[d] = "deactivated"
  BY <1>f1, <1>f2, <1>f3, <1>f4
     DEF OverlapInv, InProgress, Active, Timed
<1>g6. \A d \in Clients : TimerKept(d)'
  BY <1>f1, <1>f2, <1>f3, <1>f4
     DEF OverlapInv, TimerKept, WorkAt, At, SettlePcs, Timed, Active, InProgress
<1>g7. \A d \in Clients : WakeOwed(d)'
  BY <1>f1, <1>f2, <1>f3, <1>f4
     DEF OverlapInv, WakeOwed, WorkAt, At, Active, Timed, InProgress, SwitchPcs, ActivateWorkPcs
<1>g8. \A d \in Clients : IF d \in SkipVote THEN vote'[d] = 0 ELSE VoteOwed(d)'
  BY <1>o, <1>t, <1>f1, <1>f2, <1>f3, <1>f4
     DEF OverlapInv, VoteOwed, WorkAt, One, Active, Timed, InProgress, SwitchPcs,
         ActivateWorkPcs
<1> QED
  BY <1>g1, <1>g2, <1>g3, <1>g4, <1>g5, <1>g6, <1>g7, <1>g8 DEF OverlapInv

\* A timer expires.
LEMMA TimerKeeps ==
    ASSUME TypeOK, OverlapInv, NEW c \in Clients, TimerWork(c)
    PROVE  OverlapInv'
<1> USE ClientsAssumption, GroupsAssumption
<1>h. \A u \in Callers : call[u].at \notin FreePcs => call[u].c \in Clients
  BY CallerAt
<1>f1. UNCHANGED <<alive, st, actWork, vote, wake, call>> /\ work.at = "idle"
  BY DEF TypeOK, TimerWork, client, held
<1>f2. \A d \in Clients : timer'[d] <=> timer[d] /\ d # c
  BY DEF TypeOK, TimerWork, client, held
<1>f3. work'.at = "tmr_state" /\ work'.c = c
  BY DEF TypeOK, TimerWork, client, held
<1>o. \A d \in Clients : Owing(d) \in Nat /\ Owing(d)' = Owing(d)
  BY <1>f1, OwingType DEF Owing, At
<1>t. \A d \in Clients : vote[d] \in Int
  BY DEF TypeOK
<1>g1. OverlapCalls'
  BY <1>f1, <1>f2, <1>f3
     DEF OverlapInv, OverlapCalls, OverlapPcs, FreePcs, AllPcs
<1>g2. CallerOwns'
  BY <1>h, <1>f1, <1>f2, <1>f3
     DEF OverlapInv, OverlapCalls, CallerOwns, WorkerOwns, QueueOwns, SwitchPcs, FreePcs,
         WorkAt, InProgress, Active, Timed
<1>g3. WorkerOwns'
  BY <1>f1, <1>f2, <1>f3
     DEF OverlapInv, CallerOwns, WorkerOwns, QueueOwns, SwitchPcs, WorkAt, ActivateWorkPcs,
         TimerWorkPcs, InProgress, Active, Timed
<1>g4. QueueOwns'
  BY <1>f1, <1>f2, <1>f3
     DEF OverlapInv, CallerOwns, WorkerOwns, QueueOwns, SwitchPcs, WorkAt, InProgress, Active,
         Timed
<1>g5. \A d \in Clients : ~alive'[d] => st'[d] = "deactivated"
  BY <1>f1, <1>f2, <1>f3
     DEF OverlapInv, InProgress, Active, Timed
<1>g6. \A d \in Clients : TimerKept(d)'
  BY <1>f1, <1>f2, <1>f3
     DEF OverlapInv, TimerKept, WorkAt, At, SettlePcs, Timed, Active, InProgress
<1>g7. \A d \in Clients : WakeOwed(d)'
  BY <1>f1, <1>f2, <1>f3
     DEF OverlapInv, WakeOwed, WorkAt, At, Active, Timed, InProgress, SwitchPcs, ActivateWorkPcs
<1>g8. \A d \in Clients : IF d \in SkipVote THEN vote'[d] = 0 ELSE VoteOwed(d)'
  BY <1>o, <1>t, <1>f1, <1>f2, <1>f3
     DEF OverlapInv, VoteOwed, WorkAt, One, Active, Timed, InProgress, SwitchPcs,
         ActivateWorkPcs
<1> QED
  BY <1>g1, <1>g2, <1>g3, <1>g4, <1>g5, <1>g6, <1>g7, <1>g8 DEF OverlapInv

\* The timer's work does not deactivate: the client was activated again, or is
\* timed again, or was deactivated by a suspend.
LEMMA TimerStateKeeps ==
    ASSUME TypeOK, OverlapInv, TimerWorkState, work.c \in Clients, st[work.c] # "pending_deact"
    PROVE  OverlapInv'
<1> USE ClientsAssumption, GroupsAssumption
<1>h. \A u \in Callers : call[u].at \notin FreePcs => call[u].c \in Clients
  BY CallerAt
<1>f1. UNCHANGED <<alive, actWork, vote, wake, call>> /\ work.at = "tmr_state"
  BY DEF TypeOK, TimerWorkState, SetState, QueueTimer, WorkGoto, WorkDone, NoWork, Timed,
         queue, held
<1>f2. work'.at = "idle"
  BY DEF TypeOK, TimerWorkState, SetState, QueueTimer, WorkGoto, WorkDone, NoWork, Timed,
         queue, held
<1>f3. \A d \in Clients : d # work.c => st'[d] = st[d]
  BY DEF TypeOK, TimerWorkState, SetState, QueueTimer, WorkGoto, WorkDone, NoWork, Timed,
         queue, held
<1>f4. \/ st'[work.c] = st[work.c] /\ st[work.c] \notin Timed
       \/ st[work.c] = "timer_set" /\ st'[work.c] = "activated"
       \/ st[work.c] = "pending_resched" /\ st'[work.c] = "pending_deact"
  <2>1. CASE st[work.c] = "timer_set" /\ SetState(work.c, "activated")
    BY <2>1 DEF TypeOK, SetState
  <2>2. CASE st[work.c] = "pending_resched" /\ SetState(work.c, "pending_deact")
    BY <2>2 DEF TypeOK, SetState
  <2>3. CASE st[work.c] \notin Timed /\ UNCHANGED st
    BY <2>3
  <2> QED
    BY <2>1, <2>2, <2>3 DEF TimerWorkState
<1>f5. \A d \in Clients : timer[d] => timer'[d]
  BY DEF TypeOK, TimerWorkState, SetState, QueueTimer, WorkGoto, WorkDone, NoWork, Timed,
         queue, held
<1>f6. st'[work.c] = "pending_deact" =>
          timer'[work.c] \/ \E u \in Callers : call[u].c = work.c /\ call[u].at \in SettlePcs
  BY DEF TypeOK, TimerWorkState, SetState, QueueTimer, CancelPcs, SettlePcs, OverlapInv,
         OverlapCalls, OverlapPcs, AllPcs
<1>o. \A d \in Clients : Owing(d) \in Nat /\ Owing(d)' = Owing(d)
  BY <1>f1, OwingType DEF Owing, At
<1>t. \A d \in Clients : vote[d] \in Int
  BY DEF TypeOK
<1>g1. OverlapCalls'
  BY <1>f1, <1>f2, <1>f3, <1>f4, <1>f5, <1>f6
     DEF OverlapInv, OverlapCalls, OverlapPcs, FreePcs, AllPcs
<1>g2. CallerOwns'
  BY <1>h, <1>f1, <1>f2, <1>f3, <1>f4, <1>f5, <1>f6
     DEF OverlapInv, OverlapCalls, CallerOwns, WorkerOwns, QueueOwns, SwitchPcs, FreePcs,
         WorkAt, InProgress, Active, Timed
<1>g3. WorkerOwns'
  BY <1>f1, <1>f2, <1>f3, <1>f4, <1>f5, <1>f6
     DEF OverlapInv, CallerOwns, WorkerOwns, QueueOwns, SwitchPcs, WorkAt, ActivateWorkPcs,
         TimerWorkPcs, InProgress, Active, Timed
<1>g4. QueueOwns'
  BY <1>f1, <1>f2, <1>f3, <1>f4, <1>f5, <1>f6
     DEF OverlapInv, CallerOwns, WorkerOwns, QueueOwns, SwitchPcs, WorkAt, InProgress, Active,
         Timed
<1>g5. \A d \in Clients : ~alive'[d] => st'[d] = "deactivated"
  BY <1>f1, <1>f2, <1>f3, <1>f4, <1>f5, <1>f6
     DEF OverlapInv, InProgress, Active, Timed
<1>g6. \A d \in Clients : TimerKept(d)'
  BY <1>f1, <1>f2, <1>f3, <1>f4, <1>f5, <1>f6
     DEF OverlapInv, TimerKept, WorkAt, At, SettlePcs, Timed, Active, InProgress
<1>g7. \A d \in Clients : WakeOwed(d)'
  BY <1>f1, <1>f2, <1>f3, <1>f4, <1>f5, <1>f6
     DEF OverlapInv, WakeOwed, WorkAt, At, Active, Timed, InProgress, SwitchPcs, ActivateWorkPcs
<1>g8. \A d \in Clients : IF d \in SkipVote THEN vote'[d] = 0 ELSE VoteOwed(d)'
  BY <1>o, <1>t, <1>f1, <1>f2, <1>f3, <1>f4, <1>f5, <1>f6
     DEF OverlapInv, VoteOwed, WorkAt, One, Active, Timed, InProgress, SwitchPcs,
         ActivateWorkPcs
<1> QED
  BY <1>g1, <1>g2, <1>g3, <1>g4, <1>g5, <1>g6, <1>g7, <1>g8 DEF OverlapInv

\* The timer's work deactivates its client and owes its vote.
LEMMA TimerDropKeeps ==
    ASSUME TypeOK, OverlapInv, TimerWorkState, work.c \in Clients, st[work.c] = "pending_deact"
    PROVE  OverlapInv'
<1> USE ClientsAssumption, GroupsAssumption
<1>h. \A u \in Callers : call[u].at \notin FreePcs => call[u].c \in Clients
  BY CallerAt
<1>f1. UNCHANGED <<alive, timer, actWork, vote, wake, call>> /\ work.at = "tmr_state"
  BY DEF TypeOK, TimerWorkState, SetState, QueueTimer, WorkGoto, WorkDone, NoWork, Timed,
         queue, held
<1>f2. work'.at = "tmr_dec" /\ work'.c = work.c
  BY DEF TypeOK, TimerWorkState, SetState, QueueTimer, WorkGoto, WorkDone, NoWork, Timed,
         queue, held
<1>f3. \A d \in Clients : st'[d] = IF d = work.c THEN "deactivated" ELSE st[d]
  BY DEF TypeOK, TimerWorkState, SetState, QueueTimer, WorkGoto, WorkDone, NoWork, Timed,
         queue, held
<1>o. \A d \in Clients : Owing(d) \in Nat /\ Owing(d)' = Owing(d)
  BY <1>f1, OwingType DEF Owing, At
<1>t. \A d \in Clients : vote[d] \in Int
  BY DEF TypeOK
<1>g1. OverlapCalls'
  BY <1>f1, <1>f2, <1>f3
     DEF OverlapInv, OverlapCalls, OverlapPcs, FreePcs, AllPcs
<1>g2. CallerOwns'
  BY <1>h, <1>f1, <1>f2, <1>f3
     DEF OverlapInv, OverlapCalls, CallerOwns, WorkerOwns, QueueOwns, SwitchPcs, FreePcs,
         WorkAt, InProgress, Active, Timed
<1>g3. WorkerOwns'
  BY <1>f1, <1>f2, <1>f3
     DEF OverlapInv, CallerOwns, WorkerOwns, QueueOwns, SwitchPcs, WorkAt, ActivateWorkPcs,
         TimerWorkPcs, InProgress, Active, Timed
<1>g4. QueueOwns'
  BY <1>f1, <1>f2, <1>f3
     DEF OverlapInv, CallerOwns, WorkerOwns, QueueOwns, SwitchPcs, WorkAt, InProgress, Active,
         Timed
<1>g5. \A d \in Clients : ~alive'[d] => st'[d] = "deactivated"
  BY <1>f1, <1>f2, <1>f3
     DEF OverlapInv, InProgress, Active, Timed
<1>g6. \A d \in Clients : TimerKept(d)'
  BY <1>f1, <1>f2, <1>f3
     DEF OverlapInv, TimerKept, WorkAt, At, SettlePcs, Timed, Active, InProgress
<1>g7. \A d \in Clients : WakeOwed(d)'
  BY <1>f1, <1>f2, <1>f3
     DEF OverlapInv, WakeOwed, WorkAt, At, Active, Timed, InProgress, SwitchPcs, ActivateWorkPcs
<1>g8. \A d \in Clients : IF d \in SkipVote THEN vote'[d] = 0 ELSE VoteOwed(d)'
  BY <1>o, <1>t, <1>f1, <1>f2, <1>f3
     DEF OverlapInv, VoteOwed, WorkAt, One, Active, Timed, InProgress, SwitchPcs,
         ActivateWorkPcs
<1> QED
  BY <1>g1, <1>g2, <1>g3, <1>g4, <1>g5, <1>g6, <1>g7, <1>g8 DEF OverlapInv

\* The timer's work drops the vote it owes.
LEMMA TimerDecKeeps ==
    ASSUME TypeOK, OverlapInv, TimerWorkDec
    PROVE  OverlapInv'
<1> USE ClientsAssumption, GroupsAssumption
<1>h. \A u \in Callers : call[u].at \notin FreePcs => call[u].c \in Clients
  BY CallerAt
<1>f1. UNCHANGED <<alive, st, timer, actWork, call>> /\ work.at = "tmr_dec"
  BY DEF TypeOK, TimerWorkDec, DecBounded, Dec, Relax, WorkGoto, One, client, queue
<1>f2. work'.at = "tmr_bit" /\ work'.c = work.c
  BY DEF TypeOK, TimerWorkDec, DecBounded, Dec, Relax, WorkGoto, One, client, queue
<1>f3. \A d \in Clients : vote'[d] = vote[d] - One(d = work.c /\ d \notin SkipVote)
  BY DEF TypeOK, TimerWorkDec, DecBounded, Dec, Relax, WorkGoto, One, client, queue
<1>f4. \A d \in Clients : wake'[d] => wake[d] /\ (d # work.c \/ d \notin Apps)
  BY DEF TypeOK, TimerWorkDec, DecBounded, Dec, Relax, WorkGoto, One, client, queue
<1>o. \A d \in Clients : Owing(d) \in Nat /\ Owing(d)' = Owing(d)
  BY <1>f1, OwingType DEF Owing, At
<1>t. \A d \in Clients : vote[d] \in Int
  BY DEF TypeOK
<1>g1. OverlapCalls'
  BY <1>f1, <1>f2, <1>f3, <1>f4
     DEF OverlapInv, OverlapCalls, OverlapPcs, FreePcs, AllPcs
<1>g2. CallerOwns'
  BY <1>h, <1>f1, <1>f2, <1>f3, <1>f4
     DEF OverlapInv, OverlapCalls, CallerOwns, WorkerOwns, QueueOwns, SwitchPcs, FreePcs,
         WorkAt, InProgress, Active, Timed
<1>g3. WorkerOwns'
  BY <1>f1, <1>f2, <1>f3, <1>f4
     DEF OverlapInv, CallerOwns, WorkerOwns, QueueOwns, SwitchPcs, WorkAt, ActivateWorkPcs,
         TimerWorkPcs, InProgress, Active, Timed
<1>g4. QueueOwns'
  BY <1>f1, <1>f2, <1>f3, <1>f4
     DEF OverlapInv, CallerOwns, WorkerOwns, QueueOwns, SwitchPcs, WorkAt, InProgress, Active,
         Timed
<1>g5. \A d \in Clients : ~alive'[d] => st'[d] = "deactivated"
  BY <1>f1, <1>f2, <1>f3, <1>f4
     DEF OverlapInv, InProgress, Active, Timed
<1>g6. \A d \in Clients : TimerKept(d)'
  BY <1>f1, <1>f2, <1>f3, <1>f4
     DEF OverlapInv, TimerKept, WorkAt, At, SettlePcs, Timed, Active, InProgress
<1>g7. \A d \in Clients : WakeOwed(d)'
  BY <1>f1, <1>f2, <1>f3, <1>f4
     DEF OverlapInv, WakeOwed, WorkAt, At, Active, Timed, InProgress, SwitchPcs, ActivateWorkPcs
<1>g8. \A d \in Clients : IF d \in SkipVote THEN vote'[d] = 0 ELSE VoteOwed(d)'
  BY <1>o, <1>t, <1>f1, <1>f2, <1>f3, <1>f4
     DEF OverlapInv, VoteOwed, WorkAt, One, Active, Timed, InProgress, SwitchPcs,
         ActivateWorkPcs
<1> QED
  BY <1>g1, <1>g2, <1>g3, <1>g4, <1>g5, <1>g6, <1>g7, <1>g8 DEF OverlapInv

\* A step of a caller that only moves on.
LEMMA CallerGoesOn ==
    ASSUME TypeOK, OverlapInv, NEW t \in Callers,
           \/ AllDeferred(t) \/ ActivateNowBit(t) \/ SyncBit(t) \/ SyncScale(t) \/ AllCheck(t)
           \/ AllBit(t) \/ AllDone(t) \/ WaitComplete(t)
           \/ AllLock(t) /\ st[call[t].c] \notin Timed
    PROVE  OverlapInv'
<1> USE DEF OverlapPcs, FreePcs, AllPcs, SwitchPcs, SettlePcs, client, queue, held
<1>h0. \A u \in Callers : call[u].at \notin FreePcs => call[u].c \in Clients
  BY CallerAt
<1>h1. OverlapCalls
  BY DEF OverlapInv
<1>h2. /\ call[t].c = NoClient <=> call[t].at \in FreePcs
       /\ call[t].c \in Clients => alive[call[t].c]
       /\ call[t].run => call[t].at \in AllPcs
       /\ call[t].at \in OverlapPcs
  BY <1>h1 DEF OverlapCalls
<1>1. CASE AllDeferred(t)
  <2>1. /\ OnlyMoves(t) /\ call[t].at = "idle" /\ call'[t].at = "x_next"
        /\ call'[t].c = NoClient /\ ~call'[t].run
    BY <1>1, SuspendMoves DEF AllDeferred
  <2> QED
    BY <1>1, <2>1, ClientsAssumption, QuietCall DEF AllDeferred
<1>2. CASE ActivateNowBit(t)
  <2>1. /\ OnlyMoves(t) /\ call[t].at = "a_bit" /\ call'[t].at = "idle"
        /\ call'[t].c = NoClient /\ ~call'[t].run
    BY <1>2, CallerMoves DEF ActivateNowBit
  <2> QED
    BY <1>2, <2>1, ClientsAssumption, QuietCall DEF ActivateNowBit
<1>3. CASE SyncBit(t)
  <2>1. /\ OnlyMoves(t) /\ call[t].at = "s_bit" /\ call'[t].at = "s_scale"
        /\ call'[t].c = call[t].c /\ call'[t].run = call[t].run
    BY <1>3, CallerMoves DEF SyncBit, CallPcs
  <2> QED
    BY <1>3, <1>h2, <2>1, QuietCall DEF SyncBit
<1>4. CASE SyncScale(t)
  <2>1. /\ OnlyMoves(t) /\ call[t].at \in {"s_scale", "d_scale"} /\ call'[t].at = "idle"
        /\ call'[t].c = NoClient /\ ~call'[t].run
    BY <1>4, CallerMoves DEF SyncScale
  <2> QED
    BY <1>4, <2>1, ClientsAssumption, QuietCall DEF SyncScale
<1>5. CASE AllCheck(t)
  <2>1. /\ OnlyMoves(t) /\ call[t].at = "x_cwait"
        /\ call'[t].at = (IF st[call[t].c] \in InProgress THEN "x_wait" ELSE "x_lock")
        /\ call'[t].c = call[t].c /\ call'[t].run = call[t].run
    BY <1>5, CallerMoves DEF AllCheck, CallPcs, WaitPcs
  <2>2. \/ call'[t].at = "x_wait" /\ st[call[t].c] \notin Timed
        \/ call'[t].at = "x_lock"
    BY <2>1 DEF InProgress, Timed
  <2> QED
    BY <1>5, <1>h2, <2>1, <2>2, QuietCall DEF AllCheck
<1>6. CASE AllBit(t)
  <2>1. /\ OnlyMoves(t) /\ call[t].at = "x_bit" /\ call'[t].at = "x_next"
        /\ call'[t].c = NoClient /\ call'[t].run = call[t].run
    BY <1>6, CallerMoves DEF AllBit
  <2> QED
    BY <1>6, <1>h2, <2>1, ClientsAssumption, QuietCall DEF AllBit
<1>7. CASE AllDone(t)
  <2>1. /\ OnlyMoves(t) /\ call[t].at = "x_next" /\ call'[t].at = "idle"
        /\ call'[t].c = NoClient /\ ~call'[t].run
    BY <1>7, CallerMoves DEF AllDone
  <2> QED
    BY <1>7, <2>1, ClientsAssumption, QuietCall DEF AllDone
<1>8. CASE WaitComplete(t)
  <2>1. call[t].at \in {"s_wait", "x_wait"}
    BY <1>8, <1>h2 DEF WaitComplete, WaitPcs
  <2>2. CASE call[t].at = "s_wait"
    <3>1. Goto(t, "s_switch")
      BY <1>8, <2>2 DEF WaitComplete
    <3>2. /\ OnlyMoves(t) /\ call'[t].at = "s_switch"
          /\ call'[t].c = call[t].c /\ call'[t].run = call[t].run
      BY <3>1, CallerMoves DEF CallPcs
    <3> QED
      BY <1>8, <1>h2, <2>2, <3>2, QuietCall DEF WaitComplete
  <2>3. CASE call[t].at = "x_wait"
    <3>1. Continue(t)
      BY <1>8, <2>3 DEF WaitComplete
    <3>2. /\ OnlyMoves(t) /\ call'[t].at = "x_next"
          /\ call'[t].c = NoClient /\ call'[t].run = call[t].run
      BY <3>1, CallerMoves
    <3> QED
      BY <1>8, <1>h2, <2>3, <3>2, ClientsAssumption, QuietCall DEF WaitComplete
  <2> QED
    BY <2>1, <2>2, <2>3
<1>9. CASE AllLock(t) /\ st[call[t].c] \notin Timed
  <2>1. Continue(t) /\ UNCHANGED st
    BY <1>9 DEF AllLock, Timed
  <2>2. /\ OnlyMoves(t) /\ call[t].at = "x_lock" /\ call'[t].at = "x_next"
        /\ call'[t].c = NoClient /\ call'[t].run = call[t].run
    BY <1>9, <2>1, CallerMoves DEF AllLock
  <2> QED
    BY <1>9, <1>h2, <2>1, <2>2, ClientsAssumption, QuietCall DEF AllLock
<1> QED
  BY <1>1, <1>2, <1>3, <1>4, <1>5, <1>6, <1>7, <1>8, <1>9

\* A synchronous activation starts, or goes on after its wait.
LEMMA SyncStarts ==
    ASSUME TypeOK, OverlapInv, NEW t \in Callers,
           (\E c \in Clients : ActivateSync(t, c)) \/ SyncSwitch(t)
    PROVE  OverlapInv'
<1> USE DEF OverlapPcs, FreePcs, AllPcs, SwitchPcs, SettlePcs, client, queue, held
<1>h0. \A u \in Callers : call[u].at \notin FreePcs => call[u].c \in Clients
  BY CallerAt
<1>h1. OverlapCalls
  BY DEF OverlapInv
<1>h2. /\ call[t].c \in Clients => alive[call[t].c]
       /\ call[t].run => call[t].at \in AllPcs
  BY <1>h1 DEF OverlapCalls
<1>1. ASSUME NEW c \in Clients, alive[c], SyncOn(t, c),
             call[t].at = "idle" \/ (call[t].at = "s_switch" /\ call[t].c = c),
             UNCHANGED <<alive, timer, actWork, vote, wake, work>>
      PROVE  OverlapInv'
  <2>1. CASE st[c] \in Active
    BY <1>1, <2>1, SyncAgainKeeps
  <2>2. CASE st[c] \in InProgress
    <3>1. Return(t) /\ UNCHANGED st
      BY <1>1, <2>2 DEF SyncOn, Active, Timed, InProgress
    <3>2. /\ OnlyMoves(t) /\ call'[t].at = "idle"
          /\ call'[t].c = NoClient /\ ~call'[t].run
      BY <3>1, CallerMoves
    <3> QED
      BY <1>1, <3>1, <3>2, ClientsAssumption, QuietCall
  <2>3. CASE st[c] = "deactivated" /\ c \notin SkipVote
    BY <1>1, <2>3, SyncOnKeeps
  <2>4. CASE st[c] = "deactivated" /\ c \in SkipVote
    BY <1>1, <2>4, SyncSkipKeeps
  <2> QED
    BY <2>1, <2>2, <2>3, <2>4 DEF TypeOK, States
<1>2. ASSUME NEW c \in Clients, ActivateSync(t, c) PROVE OverlapInv'
  <2>1. CASE st[c] \in InProgress
    <3>1. Enter(t, c, "s_wait") /\ UNCHANGED st
      BY <1>2, <2>1 DEF ActivateSync
    <3>2. /\ OnlyMoves(t) /\ call'[t].at = "s_wait"
          /\ call'[t].c = c /\ call'[t].run = call[t].run
      BY <3>1, CallerMoves DEF CallPcs, WaitPcs
    <3>3. call[t].at = "idle" /\ alive[c] /\ c # NoClient
      BY <1>2, ClientsAssumption DEF ActivateSync, MayCall
    <3> QED
      BY <1>2, <1>h2, <3>1, <3>2, <3>3, QuietCall DEF ActivateSync
  <2>2. CASE st[c] \notin InProgress
    BY <1>1, <1>2, <2>2 DEF ActivateSync, MayCall
  <2> QED
    BY <2>1, <2>2
<1>3. CASE SyncSwitch(t)
  BY <1>1, <1>3, <1>h0, <1>h2 DEF SyncSwitch
<1> QED
  BY <1>2, <1>3

\* A step of the worker that only moves on.
LEMMA WorkerGoesOn ==
    ASSUME TypeOK, OverlapInv,
           \/ ScaleWork \/ ActivateWorkComplete \/ ActivateWorkBit \/ TimerWorkBit \/ WorkScale
    PROVE  OverlapInv'
<1> USE DEF ActivateWorkPcs, TimerWorkPcs, client, queue, held
<1>1. CASE ScaleWork
  <2>1. work.at = "idle" /\ work'.at = "scale"
    BY <1>1 DEF TypeOK, ScaleWork, WorkGoto
  <2> QED
    BY <1>1, <2>1, QuietWork DEF ScaleWork
<1>2. CASE ActivateWorkComplete
  <2>1. /\ work.at \in {"act_done", "act_undo"} /\ work'.c = work.c
        /\ work'.at = IF work.at = "act_undo" THEN "act_dec" ELSE "act_bit"
    BY <1>2 DEF TypeOK, ActivateWorkComplete, WorkGoto
  <2> QED
    BY <1>2, <2>1, QuietWork DEF ActivateWorkComplete
<1>3. CASE ActivateWorkBit
  <2>1. work.at = "act_bit" /\ work'.at = "act_scale" /\ work'.c = work.c
    BY <1>3 DEF TypeOK, ActivateWorkBit, WorkGoto
  <2> QED
    BY <1>3, <2>1, QuietWork DEF ActivateWorkBit
<1>4. CASE TimerWorkBit
  <2>1. work.at = "tmr_bit" /\ work'.at = "tmr_scale" /\ work'.c = work.c
    BY <1>4 DEF TypeOK, TimerWorkBit, WorkGoto
  <2> QED
    BY <1>4, <2>1, QuietWork DEF TimerWorkBit
<1>5. CASE WorkScale
  <2>1. work.at \in {"scale", "act_scale", "tmr_scale"} /\ work'.at = "idle"
    BY <1>5 DEF TypeOK, WorkScale, WorkDone, NoWork
  <2> QED
    BY <1>5, <2>1, QuietWork DEF WorkScale
<1> QED
  BY <1>1, <1>2, <1>3, <1>4, <1>5

\* Every step of the overlapping calls keeps the invariant.
LEMMA OverlapStep ==
    ASSUME Ops \subseteq OverlapOps, TypeOK, OverlapInv, [Next]_vars
    PROVE  OverlapInv'
<1>1. CASE UNCHANGED vars
  <2>1. UNCHANGED <<alive, st, timer, actWork, vote, wake, work, call>>
    BY <1>1 DEF vars, client, queue, held
  <2>2. /\ OverlapCalls' <=> OverlapCalls
        /\ CallerOwns' <=> CallerOwns
        /\ WorkerOwns' <=> WorkerOwns
        /\ QueueOwns' <=> QueueOwns
    BY <2>1 DEF OverlapCalls, CallerOwns, WorkerOwns, QueueOwns, WorkAt
  <2>3. \A d \in Clients : /\ TimerKept(d)' <=> TimerKept(d)
                           /\ WakeOwed(d)' <=> WakeOwed(d)
                           /\ VoteOwed(d)' <=> VoteOwed(d)
    BY <2>1 DEF TimerKept, WakeOwed, VoteOwed, WorkAt, At, Owing
  <2> QED
    BY <2>1, <2>2, <2>3 DEF OverlapInv
<1>2. CASE Next
  <2>0. OverlapNext
    BY <1>2, OverlapCases DEF OverlapInv
  <2>1. ASSUME NEW c \in Clients, Register(c) \/ ActivateWork(c) \/ TimerWork(c)
        PROVE  OverlapInv'
    BY <2>1, RegisterKeeps, WorkKeeps, TimerKeeps
  <2>2. ASSUME NEW t \in Callers, NEW c \in Clients,
               \/ ActivateAgain(t, c) \/ ActivateNow(t, c) \/ ActivateLater(t, c)
               \/ ActivateSync(t, c) \/ DeferredDeactivate(t, c) \/ AllNext(t, c)
        PROVE  OverlapInv'
    BY <2>2, AgainKeeps, NowKeeps, LaterKeeps, SyncStarts, DeferredKeeps, NextKeeps
  <2>3. ASSUME NEW t \in Callers, AllLock(t) PROVE OverlapInv'
    <3>1. CASE st[call[t].c] = "timer_set"
      BY <2>3, <3>1, UntimeKeeps
    <3>2. CASE st[call[t].c] \in {"pending_deact", "pending_resched"}
      BY <2>3, <3>2, DropKeeps
    <3>3. CASE st[call[t].c] \notin Timed
      BY <2>3, <3>3, CallerGoesOn
    <3> QED
      BY <3>1, <3>2, <3>3 DEF Timed
  <2>4. ASSUME NEW t \in Callers, SyncSwitch(t) \/ SyncInc(t) \/ SyncLock(t) \/ AllDec(t)
        PROVE  OverlapInv'
    BY <2>4, SyncStarts, IncKeeps, LockKeeps, AllDecKeeps
  <2>5. ASSUME NEW t \in Callers,
               \/ AllDeferred(t) \/ ActivateNowBit(t) \/ SyncBit(t) \/ SyncScale(t)
               \/ AllCheck(t) \/ AllBit(t) \/ AllDone(t) \/ WaitComplete(t)
        PROVE  OverlapInv'
    BY <2>5, CallerGoesOn
  <2>6. CASE TimerWorkState
    <3>1. work.c \in Clients
      BY <2>6 DEF TimerWorkState, OverlapInv, WorkerOwns, TimerWorkPcs
    <3> QED
      BY <2>6, <3>1, TimerStateKeeps, TimerDropKeeps
  <2>7. CASE \/ ActivateWorkInc \/ ActivateWorkState \/ ActivateWorkDec \/ TimerWorkDec
    BY <2>7, WorkIncKeeps, WorkStateKeeps, WorkDecKeeps, TimerDecKeeps
  <2>8. CASE \/ ScaleWork \/ ActivateWorkComplete \/ ActivateWorkBit \/ TimerWorkBit
             \/ WorkScale
    BY <2>8, WorkerGoesOn
  <2> QED
    BY ONLY <2>0, <2>1, <2>2, <2>3, <2>4, <2>5, <2>6, <2>7, <2>8 DEF OverlapNext, WorkStep
<1> QED
  BY <1>1, <1>2

\* However the activations and the suspend of the AP overlap on one client, an
\* activation has one owner, votes and wakeup sources are accounted for, and
\* no timer is lost (ipa_pm.c:406-514, 933-1008, 1082-1122, 1131-1187).
THEOREM OverlapInductive ==
    ASSUME Ops \subseteq OverlapOps PROVE Spec => [](TypeOK /\ OverlapInv)
<1>1. Init => TypeOK /\ OverlapInv
  BY InitType, OverlapInit
<1>2. TypeOK /\ OverlapInv /\ [Next]_vars => (TypeOK /\ OverlapInv)'
  BY TypeStep, OverlapStep
<1> QED
  BY <1>1, <1>2, PTL DEF Spec

\* The votes are balanced however the calls overlap: two suspends and an
\* activation on one client cannot lose a vote or leave one behind.
THEOREM OverlapVotes == ASSUME Ops \subseteq OverlapOps PROVE Spec => []VotesBalanced
<1>1. TypeOK /\ OverlapInv => VotesBalanced
  <2> SUFFICES ASSUME TypeOK, OverlapInv, NEW c \in Clients \ SkipVote
               PROVE  vote[c] = One(st[c] \in Active)
                        + One(WorkAt(c, {"act_state", "act_undo", "act_dec", "tmr_dec"}))
                        + Cardinality(At(c, {"s_lock", "x_dec"}))
                        - Cardinality(At(c, {"d_set"}))
    BY DEF VotesBalanced
  <2>1. At(c, {"d_set"}) = {}
    BY DEF OverlapInv, OverlapCalls, OverlapPcs, AllPcs, At
  <2>2. Cardinality(At(c, {"d_set"})) = 0
    BY <2>1, FS_EmptySet
  <2>3. VoteOwed(c) /\ Owing(c) \in Nat
    BY OwingType DEF OverlapInv
  <2> QED
    BY <2>2, <2>3 DEF VoteOwed, Owing, One
<1> QED
  BY <1>1, OverlapInductive, PTL

\* No vote is dropped twice, however the calls overlap.
THEOREM OverlapNoUnderflow == ASSUME Ops \subseteq OverlapOps PROVE Spec => []NoVoteUnderflow
<1>1. TypeOK /\ OverlapInv => NoVoteUnderflow
  <2> SUFFICES ASSUME TypeOK, OverlapInv, NEW c \in Clients PROVE vote[c] >= 0
    BY DEF NoVoteUnderflow
  <2>1. IF c \in SkipVote THEN vote[c] = 0 ELSE VoteOwed(c)
    BY DEF OverlapInv
  <2> QED
    BY <2>1, OwingType DEF VoteOwed, One
<1> QED
  BY <1>1, OverlapInductive, PTL

\* However the calls overlap, a client in a timed state is never forgotten.
THEOREM OverlapTimers == ASSUME Ops \subseteq OverlapOps PROVE Spec => []TimerCovered
<1>1. TypeOK /\ OverlapInv => TimerCovered
  <2> SUFFICES ASSUME TypeOK, OverlapInv, NEW c \in Clients, st[c] \in Timed,
                      ~timer[c], ~WorkAt(c, {"tmr_state"})
               PROVE  At(c, {"d_cwait", "d_wait", "d_lock", "d_dec", "d_set",
                             "x_cwait", "x_lock"}) # {}
    BY DEF TimerCovered
  <2>1. At(c, SettlePcs) # {}
    BY DEF OverlapInv, TimerKept
  <2> QED
    BY <2>1 DEF At, SettlePcs
<1> QED
  BY <1>1, OverlapInductive, PTL

\* However the calls overlap, an idle client holds no wakeup source.
THEOREM OverlapWake == ASSUME Ops \subseteq OverlapOps PROVE Spec => []NoWakeLeak
<1>1. TypeOK /\ OverlapInv => NoWakeLeak
  BY DEF OverlapInv, WakeOwed, WorkAt, At, NoWakeLeak, AtRest, Busy, Active, Timed
<1> QED
  BY <1>1, OverlapInductive, PTL

-----------------------------------------------------------------------------
(* The clock scaling after overlapping calls.                              *)

SameActive == \A c \in Clients : (alive'[c] /\ st'[c] \in Active) <=> (alive[c] /\ st[c] \in Active)

\* A step changes what is active only if a scaling is due after it.
LEMMA OverlapActive ==
    ASSUME TypeOK, OverlapInv, OverlapNext
    PROVE  OverlapDue' \/ SameActive
<1> USE DEF TypeOK, States, Active, Timed, InProgress, SameActive
<1>h. /\ \A c \in Clients : ~alive[c] => st[c] = "deactivated"
      /\ \A t \in Callers : call[t].at \notin FreePcs => call[t].c \in Clients
  BY CallerAt DEF OverlapInv
<1>1. ASSUME UNCHANGED <<alive, st>> PROVE SameActive
  BY <1>1
<1>2. ASSUME NEW c \in Clients, Register(c) PROVE SameActive
  BY <1>2, <1>h DEF Register, SetState
<1>3. ASSUME NEW c \in Clients, ActivateWork(c) \/ TimerWork(c) PROVE SameActive
  BY <1>1, <1>3 DEF ActivateWork, TimerWork, client
<1>4. ASSUME NEW t \in Callers, NEW c \in Clients, ActivateNow(t, c) PROVE OverlapDue'
  <2>1. call'[t].at = "a_bit"
    BY <1>4 DEF ActivateNow, Enter, CallRecs
  <2> QED
    BY <2>1 DEF OverlapDue, CallDue
<1>5. ASSUME NEW t \in Callers, NEW c \in Clients,
             ActivateAgain(t, c) \/ ActivateLater(t, c) \/ DeferredDeactivate(t, c)
      PROVE  SameActive
  BY <1>5 DEF ActivateAgain, ActivateLater, DeferredDeactivate, SetState, Reactivated, Deferred
<1>6. ASSUME NEW t \in Callers, NEW c \in Clients, SyncOn(t, c), UNCHANGED alive
      PROVE  OverlapDue' \/ SameActive
  <2>1. CASE st[c] = "deactivated" /\ c \in SkipVote
    <3>1. Enter(t, c, "s_bit")
      BY <1>6, <2>1 DEF SyncOn
    <3>2. call'[t].at = "s_bit"
      BY <3>1 DEF Enter, CallRecs
    <3> QED
      BY <3>2 DEF OverlapDue, CallDue
  <2>2. CASE ~(st[c] = "deactivated" /\ c \in SkipVote)
    BY <1>6, <2>2 DEF SyncOn, SetState, Reactivated
  <2> QED
    BY <2>1, <2>2
<1>7. ASSUME NEW t \in Callers, NEW c \in Clients, ActivateSync(t, c)
      PROVE  OverlapDue' \/ SameActive
  BY <1>1, <1>6, <1>7 DEF ActivateSync
<1>8. ASSUME NEW t \in Callers, SyncSwitch(t) PROVE OverlapDue' \/ SameActive
  BY <1>6, <1>8, <1>h DEF SyncSwitch, FreePcs
<1>9. ASSUME NEW t \in Callers, SyncLock(t) PROVE OverlapDue'
  <2>1. call'[t].at = "s_bit"
    BY <1>9 DEF SyncLock, Goto, CallRecs
  <2> QED
    BY <2>1 DEF OverlapDue, CallDue
<1>10. ASSUME NEW t \in Callers, AllLock(t) PROVE OverlapDue' \/ SameActive
  <2>0. call[t].c \in Clients
    BY <1>10, <1>h DEF AllLock, FreePcs
  <2>1. CASE st[call[t].c] \in {"pending_deact", "pending_resched"}
    <3>1. AllAt(t, "x_dec", call[t].c, call[t].rem, TRUE)
      BY <1>10, <2>1 DEF AllLock
    <3>2. call'[t].run
      BY <3>1 DEF AllAt
    <3> QED
      BY <3>2 DEF OverlapDue, CallDue
  <2>2. CASE st[call[t].c] \notin {"pending_deact", "pending_resched"}
    BY <1>10, <2>0, <2>2 DEF AllLock, SetState
  <2> QED
    BY <2>1, <2>2
<1>11. ASSUME NEW t \in Callers, NEW c \in Clients, AllNext(t, c) PROVE SameActive
  BY <1>1, <1>11 DEF AllNext, client
<1>12. ASSUME NEW t \in Callers,
              \/ AllDeferred(t) \/ ActivateNowBit(t) \/ SyncInc(t) \/ SyncBit(t) \/ SyncScale(t)
              \/ AllCheck(t) \/ AllDec(t) \/ AllBit(t) \/ AllDone(t) \/ WaitComplete(t)
       PROVE  SameActive
  BY <1>1, <1>12 DEF AllDeferred, ActivateNowBit, SyncInc, SyncBit, SyncScale, AllCheck, AllDec,
                     AllBit, AllDone, WaitComplete, client
<1>13. CASE ActivateWorkState
  <2>1. work.c \in Clients
    BY <1>13 DEF OverlapInv, WorkerOwns, ActivateWorkState, ActivateWorkPcs
  <2>2. CASE st[work.c] = "deact_progress"
    BY <1>13, <2>1, <2>2 DEF ActivateWorkState, SetState
  <2>3. CASE st[work.c] # "deact_progress"
    BY <1>13, <2>3 DEF ActivateWorkState, WorkGoto, OverlapDue, WorkerDue
  <2> QED
    BY <2>2, <2>3
<1>14. CASE TimerWorkState
  <2>1. work.c \in Clients
    BY <1>14 DEF OverlapInv, WorkerOwns, TimerWorkState, TimerWorkPcs
  <2>2. CASE st[work.c] = "pending_deact"
    BY <1>14, <2>2 DEF TimerWorkState, WorkGoto, OverlapDue, WorkerDue
  <2>3. CASE st[work.c] # "pending_deact"
    BY <1>14, <2>1, <2>3 DEF TimerWorkState, SetState
  <2> QED
    BY <2>2, <2>3
<1>15. CASE \/ ScaleWork \/ ActivateWorkInc \/ ActivateWorkComplete \/ ActivateWorkDec
            \/ ActivateWorkBit \/ TimerWorkDec \/ TimerWorkBit \/ WorkScale
  BY <1>1, <1>15 DEF ScaleWork, ActivateWorkInc, ActivateWorkComplete, ActivateWorkDec,
                     ActivateWorkBit, TimerWorkDec, TimerWorkBit, WorkScale, client
<1> QED
  BY ONLY OverlapNext, <1>2, <1>3, <1>4, <1>5, <1>7, <1>8, <1>9, <1>10, <1>11, <1>12,
          <1>13, <1>14, <1>15
     DEF OverlapNext, WorkStep

\* A scaling that is due stays due until it runs, and then the aggregate is
\* that of the active clients, or no vote was there to open the clocks.
LEMMA OverlapDueMoves ==
    ASSUME TypeOK, OverlapInv, OverlapNext, OverlapDue, ~OverlapDue'
    PROVE  /\ UNCHANGED <<alive, st>>
           /\ agg' = ActiveClients \/ \A c \in Clients : vote[c] <= 0
<1> DEFINE Goal == /\ UNCHANGED <<alive, st>>
                   /\ agg' = ActiveClients \/ \A c \in Clients : vote[c] <= 0
<1>h. \A t \in Callers : call[t].at \in OverlapPcs /\ (call[t].run => call[t].at \in AllPcs)
  BY DEF OverlapInv, OverlapCalls
<1>1. ASSUME scaleWork => scaleWork', WorkerDue => WorkerDue',
             \A t \in Callers : CallDue(t) => CallDue(t)'
      PROVE  FALSE
  BY <1>1 DEF OverlapDue
<1>2. ASSUME scaleWork' = scaleWork, work' = work, call' = call PROVE FALSE
  BY <1>1, <1>2 DEF WorkerDue, CallDue
<1>3. ASSUME NEW t \in Callers, OnlyMoves(t), scaleWork' = scaleWork, work' = work,
             CallDue(t) => CallDue(t)'
      PROVE  FALSE
  <2>1. \A u \in Callers : CallDue(u) => CallDue(u)'
    BY <1>3 DEF OnlyMoves, CallDue
  <2> QED
    BY <1>1, <1>3, <2>1 DEF WorkerDue
<1>4. ASSUME NEW c \in Clients, Register(c) PROVE FALSE
  BY <1>2, <1>4 DEF Register, queue
<1>5. ASSUME NEW c \in Clients, ActivateWork(c) \/ TimerWork(c) PROVE FALSE
  <2>1. ~WorkerDue /\ call' = call /\ scaleWork' = scaleWork
    BY <1>5 DEF ActivateWork, TimerWork, WorkerDue
  <2> QED
    BY <1>1, <2>1 DEF CallDue
<1>6. ASSUME NEW t \in Callers, NEW c \in Clients,
             ActivateAgain(t, c) \/ ActivateLater(t, c) \/ DeferredDeactivate(t, c)
      PROVE  FALSE
  BY <1>2, <1>6 DEF ActivateAgain, ActivateLater, DeferredDeactivate, queue
<1>7. ASSUME NEW t \in Callers, NEW c \in Clients, ActivateNow(t, c) PROVE FALSE
  <2>1. call'[t].at = "a_bit"
    BY <1>7, CallerMoves DEF ActivateNow, CallPcs
  <2> QED
    BY <2>1 DEF OverlapDue, CallDue
<1>8. ASSUME NEW t \in Callers, NEW c \in Clients, SyncOn(t, c),
             call[t].at \in {"idle", "s_switch"}, scaleWork' = scaleWork, work' = work
      PROVE  FALSE
  <2>1. OnlyMoves(t)
    BY <1>8, CallerMoves DEF SyncOn, CallPcs
  <2>2. ~CallDue(t)
    BY <1>8, <1>h DEF CallDue, AllPcs
  <2> QED
    BY <1>3, <1>8, <2>1, <2>2
<1>9. ASSUME NEW t \in Callers, NEW c \in Clients, ActivateSync(t, c) PROVE FALSE
  <2>0. call[t].at = "idle" /\ scaleWork' = scaleWork /\ work' = work
    BY <1>9 DEF ActivateSync, MayCall, queue
  <2>1. CASE SyncOn(t, c)
    BY <1>8, <2>0, <2>1
  <2>2. CASE Enter(t, c, "s_wait")
    <3>1. OnlyMoves(t) /\ ~CallDue(t)
      BY <1>h, <2>0, <2>2, CallerMoves DEF CallPcs, WaitPcs, CallDue, AllPcs
    <3> QED
      BY <1>3, <2>0, <3>1
  <2> QED
    BY <1>9, <2>1, <2>2 DEF ActivateSync
<1>10. ASSUME NEW t \in Callers, SyncSwitch(t) PROVE FALSE
  <2>1. call[t].at = "s_switch" /\ call[t].c \in Clients
    BY <1>10, CallerAt DEF SyncSwitch, FreePcs
  <2> QED
    BY <1>8, <1>10, <2>1 DEF SyncSwitch, queue
<1>11. ASSUME NEW t \in Callers, NEW c \in Clients, AllNext(t, c) PROVE FALSE
  <2>1. OnlyMoves(t) /\ call'[t].run = call[t].run /\ call[t].at = "x_next"
    BY <1>11, SuspendMoves DEF AllNext
  <2> QED
    BY <1>3, <1>11, <2>1 DEF AllNext, CallDue, queue
<1>12. ASSUME NEW t \in Callers, AllDeferred(t) PROVE FALSE
  <2>1. OnlyMoves(t) /\ call[t].at = "idle"
    BY <1>12, SuspendMoves DEF AllDeferred
  <2>2. ~CallDue(t)
    BY <1>h, <2>1 DEF CallDue, AllPcs
  <2> QED
    BY <1>3, <1>12, <2>1, <2>2 DEF AllDeferred, queue
<1>13. ASSUME NEW t \in Callers, ActivateNowBit(t) PROVE FALSE
  BY <1>13 DEF ActivateNowBit, OverlapDue
<1>14. ASSUME NEW t \in Callers, SyncInc(t) \/ SyncLock(t) \/ SyncBit(t) \/ AllCheck(t) \/ AllDec(t)
       PROVE  FALSE
  <2>1. /\ OnlyMoves(t) /\ call'[t].run = call[t].run
        /\ call[t].at \notin {"a_bit", "s_scale"}
        /\ call[t].at = "s_bit" => call'[t].at = "s_scale"
    BY <1>14, CallerMoves DEF SyncInc, SyncLock, SyncBit, AllCheck, AllDec, CallPcs, WaitPcs
  <2>2. CallDue(t) => CallDue(t)'
    BY <2>1 DEF CallDue
  <2>3. scaleWork' = scaleWork /\ work' = work
    BY <1>14 DEF SyncInc, SyncLock, SyncBit, AllCheck, AllDec, queue
  <2> QED
    BY <1>3, <2>1, <2>2, <2>3
<1>15. ASSUME NEW t \in Callers, Continue(t), scaleWork' = scaleWork, work' = work,
              call[t].at \in AllPcs
       PROVE  FALSE
  <2>1. OnlyMoves(t) /\ call'[t].run = call[t].run
    BY <1>15, CallerMoves
  <2> QED
    BY <1>3, <1>15, <2>1 DEF CallDue, AllPcs
<1>16. ASSUME NEW t \in Callers, AllBit(t) PROVE FALSE
  BY <1>15, <1>16 DEF AllBit, AllPcs, queue
<1>17. ASSUME NEW t \in Callers, AllLock(t) PROVE FALSE
  <2>0. call[t].at = "x_lock" /\ scaleWork' = scaleWork /\ work' = work
    BY <1>17 DEF AllLock, queue
  <2>1. CASE Continue(t)
    BY <1>15, <2>0, <2>1 DEF AllPcs
  <2>2. CASE AllAt(t, "x_dec", call[t].c, call[t].rem, TRUE)
    <3>1. call'[t].run
      BY <2>2, SuspendMoves
    <3> QED
      BY <3>1 DEF OverlapDue, CallDue
  <2> QED
    BY <1>17, <2>1, <2>2 DEF AllLock
<1>18. ASSUME NEW t \in Callers, WaitComplete(t) PROVE FALSE
  <2>0. /\ call[t].at \in {"s_wait", "x_wait"} /\ scaleWork' = scaleWork /\ work' = work
    BY <1>18, <1>h DEF WaitComplete, WaitPcs, OverlapPcs, AllPcs, queue
  <2>1. CASE call[t].at = "x_wait"
    <3>1. Continue(t)
      BY <1>18, <2>1 DEF WaitComplete
    <3> QED
      BY <1>15, <2>0, <2>1, <3>1 DEF AllPcs
  <2>2. CASE call[t].at = "s_wait"
    <3>1. Goto(t, "s_switch")
      BY <1>18, <2>2 DEF WaitComplete
    <3>2. OnlyMoves(t) /\ ~CallDue(t)
      BY <1>h, <2>2, <3>1, CallerMoves DEF CallPcs, CallDue, AllPcs
    <3> QED
      BY <1>3, <2>0, <3>2
  <2> QED
    BY <2>0, <2>1, <2>2
<1>19. ASSUME NEW t \in Callers, SyncScale(t) PROVE Goal
  BY <1>19 DEF SyncScale, DoClkScaling, ActiveClients, client
<1>20. ASSUME NEW t \in Callers, AllDone(t) PROVE Goal
  <2>1. CASE call[t].run
    BY <1>20, <2>1 DEF AllDone, DoClkScaling, ActiveClients, client
  <2>2. CASE ~call[t].run
    <3>1. OnlyMoves(t) /\ ~CallDue(t)
      BY <1>20, <2>2, CallerMoves DEF AllDone, CallDue
    <3> QED
      BY <1>3, <1>20, <3>1 DEF AllDone, queue
  <2> QED
    BY <2>1, <2>2
<1>21. CASE ScaleWork
  BY <1>21 DEF ScaleWork, WorkGoto, TypeOK, OverlapDue, WorkerDue
<1>22. ASSUME call' = call, scaleWork' = scaleWork, WorkerDue => WorkerDue' PROVE FALSE
  BY <1>1, <1>22 DEF CallDue
<1>23. CASE ActivateWorkInc \/ ActivateWorkState \/ ActivateWorkDec \/ TimerWorkState
  <2>1. call' = call /\ scaleWork' = scaleWork /\ ~WorkerDue
    BY <1>23 DEF ActivateWorkInc, ActivateWorkState, ActivateWorkDec, TimerWorkState, WorkerDue,
                 queue
  <2> QED
    BY <1>22, <2>1
<1>24. CASE ActivateWorkComplete \/ ActivateWorkBit \/ TimerWorkDec \/ TimerWorkBit
  <2>1. call' = call /\ scaleWork' = scaleWork
    BY <1>24 DEF ActivateWorkComplete, ActivateWorkBit, TimerWorkDec, TimerWorkBit, queue
  <2>2. WorkerDue => WorkerDue'
    BY <1>24 DEF ActivateWorkComplete, ActivateWorkBit, TimerWorkDec, TimerWorkBit, WorkGoto,
                 TypeOK, WorkerDue
  <2> QED
    BY <1>22, <2>1, <2>2
<1>25. CASE WorkScale
  BY <1>25 DEF WorkScale, DoClkScaling, ActiveClients, client
<1> QED
  BY ONLY OverlapNext, <1>4, <1>5, <1>6, <1>7, <1>9, <1>10, <1>11, <1>12, <1>13, <1>14, <1>16,
          <1>17, <1>18, <1>19, <1>20, <1>21, <1>23, <1>24, <1>25
     DEF OverlapNext, WorkStep

\* Only a scaling changes the aggregate.
LEMMA OverlapAggMoves ==
    ASSUME OverlapNext, agg' # agg
    PROVE  UNCHANGED <<alive, st>> /\ agg' = ActiveClients
<1>1. ASSUME NEW c \in Clients, Register(c) \/ ActivateWork(c) \/ TimerWork(c) PROVE FALSE
  BY <1>1 DEF Register, ActivateWork, TimerWork, scaled
<1>2. ASSUME NEW t \in Callers, NEW c \in Clients,
             \/ ActivateAgain(t, c) \/ ActivateNow(t, c) \/ ActivateLater(t, c)
             \/ ActivateSync(t, c) \/ DeferredDeactivate(t, c) \/ AllNext(t, c)
      PROVE  FALSE
  BY <1>2 DEF ActivateAgain, ActivateNow, ActivateLater, ActivateSync, DeferredDeactivate,
              AllNext, scaled
<1>3. ASSUME NEW t \in Callers,
             \/ AllDeferred(t) \/ ActivateNowBit(t) \/ SyncSwitch(t) \/ SyncInc(t) \/ SyncLock(t)
             \/ SyncBit(t) \/ AllCheck(t) \/ AllLock(t) \/ AllDec(t) \/ AllBit(t)
             \/ WaitComplete(t)
      PROVE  FALSE
  BY <1>3 DEF AllDeferred, ActivateNowBit, SyncSwitch, SyncInc, SyncLock, SyncBit, AllCheck,
              AllLock, AllDec, AllBit, WaitComplete, scaled
<1>4. ASSUME NEW t \in Callers, SyncScale(t) \/ AllDone(t)
      PROVE  UNCHANGED <<alive, st>> /\ agg' = ActiveClients
  BY <1>4 DEF SyncScale, AllDone, DoClkScaling, ActiveClients, client
<1>5. CASE \/ ScaleWork \/ ActivateWorkInc \/ ActivateWorkState \/ ActivateWorkComplete
           \/ ActivateWorkDec \/ ActivateWorkBit \/ TimerWorkState \/ TimerWorkDec \/ TimerWorkBit
  BY <1>5 DEF ScaleWork, ActivateWorkInc, ActivateWorkState, ActivateWorkComplete, ActivateWorkDec,
              ActivateWorkBit, TimerWorkState, TimerWorkDec, TimerWorkBit, scaled
<1>6. CASE WorkScale
  BY <1>6 DEF WorkScale, DoClkScaling, ActiveClients, client
<1> QED
  BY ONLY OverlapNext, <1>1, <1>2, <1>3, <1>4, <1>5, <1>6 DEF OverlapNext, WorkStep

\* Every step of the overlapping calls keeps the invariant of the scaling.
LEMMA OverlapScaleStep ==
    ASSUME Ops \subseteq OverlapOps, TypeOK, OverlapInv, OverlapScaled, [Next]_vars
    PROVE  OverlapScaled'
<1>1. CASE UNCHANGED vars
  BY <1>1 DEF OverlapScaled, OverlapDue, WorkerDue, CallDue, ActiveClients, vars, client, queue,
              held, scaled
<1>2. CASE Next
  <2>1. OverlapNext
    BY <1>2, OverlapCases DEF OverlapInv
  <2> SUFFICES ASSUME ~OverlapDue'
               PROVE  \/ agg' = ActiveClients'
                      \/ \A c \in Clients \ SkipVote : st'[c] \notin Active
    BY DEF OverlapScaled
  <2>2. SameActive
    BY <2>1, OverlapActive
  <2>3. ActiveClients' = ActiveClients
    BY <2>2 DEF SameActive, ActiveClients
  <2>4. CASE OverlapDue
    <3>1. CASE UNCHANGED st /\ \A c \in Clients : vote[c] <= 0
      <4>1. ASSUME NEW c \in Clients \ SkipVote PROVE st[c] \notin Active
        <5>1. VoteOwed(c) /\ vote[c] <= 0 /\ Owing(c) \in Nat
          BY <3>1, OwingType DEF OverlapInv
        <5> QED
          BY <5>1 DEF VoteOwed, One
      <4> QED
        BY <3>1, <4>1
    <3> QED
      BY <2>1, <2>3, <2>4, <3>1, OverlapDueMoves
  <2>5. CASE ~OverlapDue
    <3>1. CASE agg' # agg
      BY <2>1, <2>3, <3>1, OverlapAggMoves
    <3>2. CASE agg' = agg /\ agg = ActiveClients
      BY <2>3, <3>2
    <3>3. CASE \A c \in Clients \ SkipVote : st[c] \notin Active
      <4>1. /\ \A c \in Clients : ~alive'[c] => st'[c] = "deactivated"
            /\ "deactivated" \notin Active
        BY OverlapStep DEF OverlapInv, Active, Timed
      <4> QED
        BY <2>2, <3>3, <4>1 DEF SameActive
    <3> QED
      BY <2>5, <3>1, <3>2, <3>3 DEF OverlapScaled
  <2> QED
    BY <2>4, <2>5
<1> QED
  BY <1>1, <1>2

\* However the calls overlap, once everything is done and some client votes, the
\* aggregated throughput is that of the active clients: the suspend's one
\* scaling at its end covers every client it deactivated on its way.
THEOREM OverlapAggregate == ASSUME Ops \subseteq OverlapOps PROVE Spec => []AggregateCurrent
<1>1. Init => OverlapScaled
  BY DEF Init, All, OverlapScaled, Active, Timed
<1>2. TypeOK /\ OverlapInv /\ OverlapScaled /\ [Next]_vars => OverlapScaled'
  BY OverlapScaleStep
<1>3. TypeOK /\ OverlapInv /\ OverlapScaled => AggregateCurrent
  <2> SUFFICES ASSUME TypeOK, OverlapInv, OverlapScaled, work.at = "idle", ~scaleWork,
                      \A t \in Callers : call[t].at = "idle",
                      \A c \in Clients : AtRest(c), NEW d \in Clients, vote[d] > 0
               PROVE  agg = ActiveClients
    BY DEF AggregateCurrent, ActiveClients
  <2>1. ~OverlapDue
    BY DEF OverlapDue, WorkerDue, CallDue, OverlapInv, OverlapCalls, AllPcs
  <2>2. d \notin SkipVote /\ VoteOwed(d)
    BY DEF OverlapInv
  <2>3. Owing(d) = 0
    <3>1. At(d, {"s_lock", "x_dec"}) = {}
      BY DEF At
    <3> QED
      BY <3>1, FS_EmptySet DEF Owing
  <2>4. st[d] \in Active
    BY <2>2, <2>3 DEF VoteOwed, WorkAt, One
  <2> QED
    BY <2>1, <2>2, <2>4 DEF OverlapScaled
<1> QED
  BY <1>1, <1>2, <1>3, OverlapInductive, PTL DEF Spec

-----------------------------------------------------------------------------
(* Without the suspend no work function finds a state it does not expect.  *)

PlainOps == {"activate", "activate_sync", "deferred"}

PlainInv ==
    /\ ~warned /\ \A t \in Callers : call[t].at \notin AllPcs
    /\ \A c \in Clients : /\ timer[c] \/ WorkAt(c, {"tmr_state"}) => st[c] \in Timed
                          /\ timer[c] => ~WorkAt(c, {"tmr_state"})

\* A timed client stays timed, and no other is given a timer, unless its timer
\* runs.
LEMMA PlainKeeps ==
    ASSUME OverlapInv, PlainInv, UNCHANGED <<warned, work>>, \A t \in Callers : call'[t].at \notin AllPcs,
           \A c \in Clients : /\ st[c] \in Timed => st'[c] \in Timed
                              /\ timer'[c] => timer[c] \/ (st[c] \notin Timed /\ st'[c] \in Timed)
    PROVE  PlainInv'
<1>1. ASSUME NEW c \in Clients, timer'[c] \/ WorkAt(c, {"tmr_state"})' PROVE st'[c] \in Timed
  BY <1>1 DEF PlainInv, WorkAt
<1>2. ASSUME NEW c \in Clients, timer'[c] PROVE ~WorkAt(c, {"tmr_state"})'
  BY <1>2 DEF PlainInv, WorkAt
<1> QED
  BY <1>1, <1>2 DEF PlainInv

\* Every step of these calls keeps the timers with the timed clients.
LEMMA PlainStep ==
    ASSUME Ops \subseteq PlainOps, TypeOK, OverlapInv, PlainInv, [Next]_vars
    PROVE  PlainInv'
<1> USE DEF client, queue, held, scaled
<1>h. \A t \in Callers : call[t].at \notin AllPcs
  BY DEF PlainInv
<1>k. ASSUME UNCHANGED <<warned, work, timer>>, \A t \in Callers : call'[t].at \notin AllPcs,
             \A c \in Clients : st[c] \in Timed => st'[c] \in Timed
      PROVE  PlainInv'
  BY <1>k, PlainKeeps
<1>c. ASSUME NEW t \in Callers, OnlyMoves(t), call'[t].at \notin AllPcs
      PROVE  \A u \in Callers : call'[u].at \notin AllPcs
  BY <1>c, <1>h DEF OnlyMoves
<1>1. CASE UNCHANGED vars
  BY <1>1, <1>h, <1>k DEF vars
<1>2. ASSUME NEW c \in Clients, Register(c) PROVE PlainInv'
  <2>1. st[c] = "deactivated"
    BY <1>2 DEF Register, OverlapInv
  <2>2. \A d \in Clients : st[d] \in Timed => st'[d] \in Timed
    BY <1>2, <2>1 DEF TypeOK, Register, SetState, Timed
  <2> QED
    BY <1>2, <1>h, <1>k, <2>2 DEF Register
<1>3. ASSUME NEW c \in Clients, ActivateWork(c) PROVE PlainInv'
  <2>1. work'.at = "act_inc" /\ UNCHANGED <<st, timer, warned, call>>
    BY <1>3 DEF ActivateWork
  <2> QED
    BY <2>1 DEF PlainInv, WorkAt
<1>4. ASSUME NEW c \in Clients, TimerWork(c) PROVE PlainInv'
  <2>1. /\ work.at = "idle" /\ timer[c] /\ UNCHANGED <<st, warned, call>>
        /\ work'.at = "tmr_state" /\ work'.c = c
    BY <1>4 DEF TimerWork
  <2>2. \A d \in Clients : timer'[d] <=> timer[d] /\ d # c
    BY <1>4 DEF TypeOK, TimerWork
  <2> QED
    BY <2>1, <2>2 DEF PlainInv, WorkAt
<1>5. ASSUME NEW t \in Callers, NEW c \in Clients, ActivateAgain(t, c) PROVE PlainInv'
  <2>1. \A d \in Clients : st[d] \in Timed => st'[d] \in Timed
    BY <1>5 DEF TypeOK, ActivateAgain, SetState, Reactivated, Timed, InProgress
  <2> QED
    BY <1>5, <1>h, <1>k, <2>1 DEF ActivateAgain
<1>6. ASSUME NEW t \in Callers, NEW c \in Clients, ActivateNow(t, c) PROVE PlainInv'
  <2>1. \A d \in Clients : st[d] \in Timed => st'[d] \in Timed
    BY <1>6 DEF TypeOK, ActivateNow, SetState, Timed
  <2>2. OnlyMoves(t) /\ call'[t].at = "a_bit"
    BY <1>6, CallerMoves DEF ActivateNow, CallPcs
  <2> QED
    BY <1>6, <1>c, <1>k, <2>1, <2>2 DEF ActivateNow, AllPcs
<1>7. ASSUME NEW t \in Callers, NEW c \in Clients, ActivateLater(t, c) PROVE PlainInv'
  <2>1. \A d \in Clients : st[d] \in Timed => st'[d] \in Timed
    BY <1>7 DEF TypeOK, ActivateLater, SetState, Timed
  <2> QED
    BY <1>7, <1>h, <1>k, <2>1 DEF ActivateLater
<1>8. ASSUME NEW t \in Callers, NEW c \in Clients, DeferredDeactivate(t, c) PROVE PlainInv'
  <2>1. \A d \in Clients : d # c => st'[d] = st[d] /\ timer'[d] = timer[d]
    BY <1>8 DEF TypeOK, DeferredDeactivate, SetState, QueueTimer
  <2>2. st'[c] = Deferred(st[c])
    BY <1>8 DEF TypeOK, DeferredDeactivate, SetState
  <2>3. st[c] # "activated" => timer'[c] = timer[c]
    BY <1>8 DEF DeferredDeactivate
  <2>4. \A d \in Clients : /\ st[d] \in Timed => st'[d] \in Timed
                           /\ timer'[d] => timer[d] \/ (st[d] \notin Timed /\ st'[d] \in Timed)
    BY <2>1, <2>2, <2>3 DEF Deferred, Timed
  <2> QED
    BY <1>8, <1>h, <2>4, PlainKeeps DEF DeferredDeactivate
<1>9. ASSUME NEW t \in Callers, NEW c \in Clients, SyncOn(t, c), UNCHANGED <<warned, work, timer>>
      PROVE  PlainInv'
  <2>1. \A d \in Clients : st[d] \in Timed => st'[d] \in Timed
    BY <1>9 DEF TypeOK, SyncOn, SetState, Reactivated, Timed
  <2>2. OnlyMoves(t) /\ call'[t].at \in {"idle", "s_inc", "s_bit"}
    BY <1>9, CallerMoves DEF SyncOn, CallPcs
  <2> QED
    BY <1>9, <1>c, <1>k, <2>1, <2>2 DEF AllPcs
<1>10. ASSUME NEW t \in Callers, NEW c \in Clients, ActivateSync(t, c) PROVE PlainInv'
  <2>1. CASE Enter(t, c, "s_wait") /\ UNCHANGED st
    <3>1. OnlyMoves(t) /\ call'[t].at = "s_wait"
      BY <2>1, CallerMoves DEF CallPcs, WaitPcs
    <3> QED
      BY <1>10, <1>c, <1>k, <2>1, <3>1 DEF ActivateSync, AllPcs
  <2>2. CASE SyncOn(t, c)
    BY <1>9, <1>10, <2>2 DEF ActivateSync
  <2> QED
    BY <1>10, <2>1, <2>2 DEF ActivateSync
<1>11. ASSUME NEW t \in Callers, SyncSwitch(t) PROVE PlainInv'
  BY <1>9, <1>11, CallerAt DEF SyncSwitch, FreePcs
<1>12. ASSUME NEW t \in Callers, SyncLock(t) PROVE PlainInv'
  <2>1. call[t].c \in Clients /\ st[call[t].c] \in InProgress
    BY <1>12, CallerAt DEF SyncLock, FreePcs, OverlapInv, CallerOwns, SwitchPcs
  <2>2. \A d \in Clients : st[d] \in Timed => st'[d] \in Timed
    BY <1>12, <2>1 DEF TypeOK, SyncLock, SetState, Timed, InProgress
  <2>3. OnlyMoves(t) /\ call'[t].at = "s_bit"
    BY <1>12, CallerMoves DEF SyncLock, CallPcs
  <2> QED
    BY <1>12, <1>c, <1>k, <2>2, <2>3 DEF SyncLock, AllPcs
<1>13. ASSUME NEW t \in Callers,
              ActivateNowBit(t) \/ SyncInc(t) \/ SyncBit(t) \/ SyncScale(t)
       PROVE  PlainInv'
  <2>1. OnlyMoves(t) /\ call'[t].at \in {"idle", "s_lock", "s_scale"}
    BY <1>13, CallerMoves DEF ActivateNowBit, SyncInc, SyncBit, SyncScale, CallPcs
  <2>2. UNCHANGED <<st, warned, work, timer>>
    BY <1>13 DEF ActivateNowBit, SyncInc, SyncBit, SyncScale
  <2> QED
    BY <1>c, <1>k, <2>1, <2>2 DEF AllPcs
<1>14. ASSUME NEW t \in Callers, WaitComplete(t) PROVE PlainInv'
  <2>1. call[t].at = "s_wait"
    BY <1>14, <1>h DEF WaitComplete, WaitPcs, OverlapInv, OverlapCalls, OverlapPcs, AllPcs
  <2>2. Goto(t, "s_switch")
    BY <1>14, <2>1 DEF WaitComplete
  <2>3. OnlyMoves(t) /\ call'[t].at = "s_switch"
    BY <2>2, CallerMoves DEF CallPcs
  <2> QED
    BY <1>14, <1>c, <1>k, <2>3 DEF WaitComplete, AllPcs
<1>15. CASE ActivateWorkState
  <2>1. work.c \in Clients /\ st[work.c] \in InProgress /\ work.at = "act_state"
    BY <1>15 DEF ActivateWorkState, OverlapInv, WorkerOwns, ActivateWorkPcs
  <2>2. \A d \in Clients : st[d] \in Timed => st'[d] \in Timed
    BY <1>15, <2>1 DEF TypeOK, ActivateWorkState, SetState, Timed, InProgress
  <2>3. ~warned'
    BY <1>15, <2>1 DEF ActivateWorkState, PlainInv
  <2>4. work'.at # "tmr_state" /\ UNCHANGED <<timer, call>>
    BY <1>15 DEF TypeOK, ActivateWorkState, WorkGoto
  <2> QED
    BY <2>2, <2>3, <2>4 DEF PlainInv, WorkAt
<1>16. CASE TimerWorkState
  <2>1. work.c \in Clients /\ work.at = "tmr_state"
    BY <1>16 DEF TimerWorkState, OverlapInv, WorkerOwns, TimerWorkPcs
  <2>2. st[work.c] \in Timed /\ ~timer[work.c]
    BY <2>1 DEF PlainInv, WorkAt
  <2>3. ~warned' /\ UNCHANGED call
    BY <1>16, <2>2 DEF TimerWorkState, PlainInv
  <2>4. work'.at # "tmr_state"
    BY <1>16 DEF TypeOK, TimerWorkState, WorkDone, WorkGoto, NoWork
  <2>5. \A d \in Clients : d # work.c => st'[d] = st[d] /\ timer'[d] = timer[d]
    BY <1>16 DEF TypeOK, TimerWorkState, SetState, QueueTimer
  <2>6. timer'[work.c] => st'[work.c] \in Timed
    <3>1. CASE st[work.c] = "pending_resched"
      <4>1. SetState(work.c, "pending_deact")
        BY <1>16, <3>1 DEF TimerWorkState, Timed
      <4> QED
        BY <2>1, <4>1 DEF TypeOK, SetState, Timed
    <3>2. CASE st[work.c] # "pending_resched"
      BY <1>16, <2>2, <3>2 DEF TimerWorkState
    <3> QED
      BY <3>1, <3>2
  <2> QED
    BY <2>3, <2>4, <2>5, <2>6 DEF PlainInv, WorkAt
<1>17. CASE \/ ScaleWork \/ ActivateWorkInc \/ ActivateWorkComplete \/ ActivateWorkDec
            \/ ActivateWorkBit \/ TimerWorkDec \/ TimerWorkBit \/ WorkScale
  <2>1. work'.at # "tmr_state"
    BY <1>17 DEF TypeOK, ScaleWork, ActivateWorkInc, ActivateWorkComplete, ActivateWorkDec,
                 ActivateWorkBit, TimerWorkDec, TimerWorkBit, WorkScale, WorkGoto, WorkDone, NoWork
  <2>2. UNCHANGED <<st, timer, warned, call>>
    BY <1>17 DEF ScaleWork, ActivateWorkInc, ActivateWorkComplete, ActivateWorkDec,
                 ActivateWorkBit, TimerWorkDec, TimerWorkBit, WorkScale
  <2> QED
    BY <2>1, <2>2 DEF PlainInv, WorkAt
<1>18. CASE Next
  <2>1. OverlapNext
    BY <1>18, OverlapCases DEF OverlapInv, OverlapOps, PlainOps
  <2>2. ASSUME NEW t \in Callers
        PROVE  /\ \A c \in Clients : ~AllNext(t, c)
               /\ ~AllDeferred(t) /\ ~AllCheck(t) /\ ~AllLock(t) /\ ~AllDec(t) /\ ~AllBit(t)
               /\ ~AllDone(t)
    BY <1>h DEF AllPcs, PlainOps, AllNext, AllDeferred, AllCheck, AllLock, AllDec, AllBit, AllDone
  <2> QED
    BY ONLY <2>1, <2>2, <1>2, <1>3, <1>4, <1>5, <1>6, <1>7, <1>8, <1>10, <1>11, <1>12, <1>13,
            <1>14, <1>15, <1>16, <1>17
       DEF OverlapNext, WorkStep
<1> QED
  BY <1>1, <1>18

\* Activations of both kinds and deferred deactivations may overlap as they like:
\* no work function meets a state it does not expect.  With the suspend of the
\* AP one does (ipa_pm.c:507).
THEOREM PlainExpected == ASSUME Ops \subseteq PlainOps PROVE Spec => []NoUnexpectedState
<1>1. Init => PlainInv
  BY DEF Init, All, NoCall, NoWork, PlainInv, WorkAt, AllPcs
<1>2. TypeOK /\ OverlapInv /\ PlainInv /\ [Next]_vars => PlainInv'
  BY PlainStep
<1>3. PlainInv => NoUnexpectedState
  BY DEF PlainInv, NoUnexpectedState
<1>4. Ops \subseteq OverlapOps
  BY DEF PlainOps, OverlapOps
<1>5. Spec => [](TypeOK /\ OverlapInv)
  BY <1>4, OverlapInductive
<1> QED
  BY <1>1, <1>2, <1>3, <1>5, PTL DEF Spec
=============================================================================

-------------------------- MODULE IpaRxPollProofs --------------------------
(***************************************************************************)
(* Proofs about the receive path, for any number of CPUs and any of the    *)
(* three kinds of hardware.                                                *)
(*                                                                         *)
(* The argument is about sessions.  From the interrupt that masks the ring *)
(* to the poll that unmasks it, exactly one of handler, work, NAPI or CPU  *)
(* has the business of polling the ring; it passes from one to the next.   *)
(***************************************************************************)
EXTENDS IpaRxPoll, FiniteSetTheorems, TLAPS

\* The places of a CPU that is being polled by NAPI, and of one whose session
\* is not over.
ActivePcs == {"poll", "took", "look", "empty", "complete"}
TailPcs == {"state", "release", "mode", "unmask", "pending"}
SessionPcs == ActivePcs \union TailPcs

\* The places of Gate between the stop of the channels and their return to
\* interrupts.
StoppedPcs == {"default", "gate", "off", "start", "state", "mode", "unmask"}
SwitchPcs == {"start", "state", "mode", "unmask", "check", "xchg", "start2"}

InSession(c) == at[c] \in SessionPcs

Session ==
    \/ isr \in {"state", "vote"} \/ work # "none" \/ napi = "sched"
    \/ \E c \in Cpus : InSession(c)

\* At most one session, in one pair of hands.
OneSession ==
    /\ \A c, d \in Cpus : InSession(c) /\ InSession(d) => c = d
    /\ \A c \in Cpus :
          InSession(c) => isr \notin {"state", "vote"} /\ work = "none" /\ napi # "sched"
    /\ isr \in {"state", "vote"} => work = "none" /\ napi # "sched"
    /\ work # "none" => napi # "sched"

\* NAPI runs exactly while a CPU polls.
NapiInv == napi = "run" <=> \E c \in Cpus : at[c] \in ActivePcs

\* The state says polling from the handler's store to the poll's.
PollingInv ==
    polling <=> \/ isr = "vote" \/ work # "none" \/ napi = "sched"
                \/ \E c \in Cpus : at[c] \in ActivePcs \union {"state"}

\* During a session the channel is polled, and the handler is not about to
\* begin another.
ModeInv == (Session => mode = "poll") /\ (isr \in {"callback", "test", "mask"} => ~Session)

\* A channel that is polled is masked, or a poll goes on: the one that took the
\* mode over from a poll that was ending.
PollMaskInv ==
    mode = "poll" /\ msk => napi = "sched" \/ \E c \in Cpus : InSession(c)

\* The clocks are switched without votes, with the interrupt masked.
GateInv ==
    /\ at[Gate] # "idle" => cnt = 0
    /\ at[Gate] \in StoppedPcs \union {"quiet"} => mode = "poll" /\ ~msk
    /\ at[Gate] \in StoppedPcs => isr \in {"idle", "enter"}
    /\ at[Gate] \in {"mode", "unmask"} => work = "none"
    /\ at[Gate] = "xchg" => ~msk
    /\ at[Gate] \in SwitchPcs =>
          wants \in {"retry", "other", "work"} /\ (wants = "work" => work = "queued")

\* The inductive invariant for the votes and the wakelock.
CountInv ==
    /\ TypeOK /\ OneSession /\ NapiInv /\ PollingInv /\ ModeInv /\ PollMaskInv /\ GateInv
    /\ VotesOwned /\ WakelockBalanced
-----------------------------------------------------------------------------
(* What is added for the events in the ring, on hardware that loses no      *)
(* interrupt.                                                               *)

\* Somebody is going to look at the ring before the session is over.
Early ==
    \/ work # "none" \/ napi = "sched" \/ isr \in {"state", "vote"}
    \/ \E c \in Cpus : at[c] \in {"poll", "took", "look", "empty"}

\* The steps of the check for a lost interrupt are not taken.
NoCheck == \A a \in Actors : at[a] \notin {"check", "xchg", "pending"}

\* The ring is unmasked exactly in callback mode, and polled only in a session
\* or by a suspend.
MaskInv ==
    /\ msk <=> mode = "callback"
    /\ mode = "poll" => Session \/ at[Gate] \in StoppedPcs \union {"quiet"}

\* ring.slock has one owner.
LockInv == isr \notin {"idle", "enter"} => \A c \in Cpus : at[c] \notin {"look", "empty"}

\* The channel is stopped while the pipe is suspended.
StopInv ==
    at[Gate] \in {"test", "mask", "quiet", "default", "gate", "off", "start"} =>
        "coal" \notin running

\* An event of the pipe without its interrupt has somebody who will look at it, or the
\* start of the channel is still to raise it.
MindInv ==
    ring["coal"] > 0 /\ ~ieob =>
        \/ Early
        \/ at[Gate] \in {"quiet", "start"}
        \/ isr # "idle" /\ mode = "callback"
        \/ isr \in {"callback", "test", "mask"}

EventInv == hw # "check" => NoCheck /\ MaskInv /\ LockInv /\ StopInv /\ MindInv

-----------------------------------------------------------------------------
(* Steps and counts.                                                       *)

\* The CPUs that poll, and those about to release the wakelock.
Releasing == {c \in Cpus : at[c] = "release"}

\* The counted sets are finite.
LEMMA CountedSets ==
    /\ IsFiniteSet(Working) /\ Cardinality(Working) \in Nat
    /\ IsFiniteSet(Releasing) /\ Cardinality(Releasing) \in Nat
<1>1. Working \subseteq Cpus /\ Releasing \subseteq Cpus
  BY DEF Working, Releasing
<1>2. IsFiniteSet(Working) /\ IsFiniteSet(Releasing)
  BY <1>1, RxAssumption, FS_Subset
<1> QED
  BY <1>2, FS_CardinalityType

\* A CPU that begins or ends a poll (Go) changes the number of those that
\* work, and no other step of it does.
LEMMA WorkingMove ==
    ASSUME TypeOK, NEW c \in Cpus, NEW l, Go(c, l)
    PROVE  Cardinality(Working') =
               Cardinality(Working) + Count(l # "idle") - Count(at[c] # "idle")
<1>1. Cardinality(Working \union {c}) =
        IF c \in Working THEN Cardinality(Working) ELSE Cardinality(Working) + 1
  BY CountedSets, FS_AddElement
<1>2. Cardinality(Working \ {c}) =
        IF c \in Working THEN Cardinality(Working) - 1 ELSE Cardinality(Working)
  BY CountedSets, FS_RemoveElement
<1>3. Working' = IF l # "idle" THEN Working \union {c} ELSE Working \ {c}
  BY DEF Working, TypeOK, Go, Actors
<1>4. c \in Working <=> at[c] # "idle"
  BY DEF Working
<1>5. CASE l # "idle"
  <2>1. Cardinality(Working') = Cardinality(Working \union {c})
    BY <1>3, <1>5
  <2> QED
    BY <1>1, <1>4, <1>5, <2>1, CountedSets DEF Count
<1>6. CASE l = "idle"
  <2>1. Cardinality(Working') = Cardinality(Working \ {c})
    BY <1>3, <1>6
  <2> QED
    BY <1>2, <1>4, <1>6, <2>1, CountedSets DEF Count
<1> QED
  BY <1>5, <1>6

\* The same for the CPUs about to release the wakelock.
LEMMA ReleasingMove ==
    ASSUME TypeOK, NEW c \in Cpus, NEW l, Go(c, l)
    PROVE  Cardinality(Releasing') =
               Cardinality(Releasing) + Count(l = "release") - Count(at[c] = "release")
<1>1. Cardinality(Releasing \union {c}) =
        IF c \in Releasing THEN Cardinality(Releasing) ELSE Cardinality(Releasing) + 1
  BY CountedSets, FS_AddElement
<1>2. Cardinality(Releasing \ {c}) =
        IF c \in Releasing THEN Cardinality(Releasing) - 1 ELSE Cardinality(Releasing)
  BY CountedSets, FS_RemoveElement
<1>3. Releasing' = IF l = "release" THEN Releasing \union {c} ELSE Releasing \ {c}
  BY DEF Releasing, TypeOK, Go, Actors
<1>4. c \in Releasing <=> at[c] = "release"
  BY DEF Releasing
<1>5. CASE l = "release"
  <2>1. Cardinality(Releasing') = Cardinality(Releasing \union {c})
    BY <1>3, <1>5
  <2> QED
    BY <1>1, <1>4, <1>5, <2>1, CountedSets DEF Count
<1>6. CASE l # "release"
  <2>1. Cardinality(Releasing') = Cardinality(Releasing \ {c})
    BY <1>3, <1>6
  <2> QED
    BY <1>2, <1>4, <1>6, <2>1, CountedSets DEF Count
<1> QED
  BY <1>5, <1>6

\* A step of Gate moves no CPU.
LEMMA GateMove ==
    ASSUME TypeOK, NEW l, Go(Gate, l)
    PROVE  /\ Working' = Working /\ Releasing' = Releasing
           /\ \A c \in Cpus : at'[c] = at[c]
           /\ at'[Gate] = l
BY RxAssumption DEF TypeOK, Go, Actors, Working, Releasing

\* A step of a CPU moves neither Gate nor another CPU.
LEMMA CpuMove ==
    ASSUME TypeOK, NEW c \in Cpus, NEW l, Go(c, l)
    PROVE  /\ at'[c] = l /\ at'[Gate] = at[Gate]
           /\ \A d \in Cpus : d # c => at'[d] = at[d]
BY RxAssumption DEF TypeOK, Go, Actors

\* While the clocks are switched there are no votes: nobody polls or is about to.
LEMMA NobodyWorks ==
    ASSUME TypeOK, VotesOwned, cnt = 0
    PROVE  /\ \A c \in Cpus : at[c] = "idle"
           /\ napi # "sched" /\ work # "run" /\ ~other /\ later = 0
<1>1. /\ Count(other) \in Nat /\ Count(napi = "sched") \in Nat /\ Count(work = "run") \in Nat
      /\ later \in Nat
  BY DEF Count, TypeOK
<1>2. /\ Cardinality(Working) = 0 /\ Count(other) = 0 /\ later = 0
      /\ Count(napi = "sched") = 0 /\ Count(work = "run") = 0
  BY <1>1, CountedSets DEF VotesOwned
<1>3. Working = {}
  BY <1>2, CountedSets, FS_EmptySet
<1> QED
  BY <1>2, <1>3 DEF Working, Count

-----------------------------------------------------------------------------
(* Types.                                                                  *)

\* The initial state is typed.
LEMMA InitType == Init => TypeOK
<1> SUFFICES ASSUME Init PROVE TypeOK
  OBVIOUS
<1>1. ring \in [Pipes -> 0 .. Cap]
  BY RxAssumption DEF Init
<1>2. /\ ieob \in BOOLEAN /\ msk \in BOOLEAN /\ polling \in BOOLEAN /\ other \in BOOLEAN
  BY DEF Init
<1> QED
  BY <1>1, <1>2 DEF Init, TypeOK

\* A step of any action keeps every variable in its type; that the two counts
\* do not go below zero rests on who owns what they count.
LEMMA TypeStep == TypeOK /\ VotesOwned /\ WakelockBalanced /\ [Next]_vars => TypeOK'
<1> SUFFICES ASSUME TypeOK, VotesOwned, WakelockBalanced, [Next]_vars PROVE TypeOK'
  OBVIOUS
<1> USE RxAssumption DEF TypeOK, Go, Actors, Pipes, chan, votes
<1>1. ASSUME Arrive PROVE TypeOK'
  BY <1>1 DEF Arrive
<1>2. ASSUME IsrEnter PROVE TypeOK'
  BY <1>2 DEF IsrEnter, ClocksOn
<1>3. ASSUME IsrLoop PROVE TypeOK'
  BY <1>3 DEF IsrLoop, RingFree
<1>4. ASSUME IsrCallback PROVE TypeOK'
  BY <1>4 DEF IsrCallback
<1>4a. ASSUME IsrTest PROVE TypeOK'
  BY <1>4a DEF IsrTest
<1>4b. ASSUME IsrMask PROVE TypeOK'
  <2>1. ieob' \in BOOLEAN /\ msk' \in BOOLEAN
    BY <1>4b DEF IsrMask, ConfigPoll
  <2> QED
    BY <1>4b, <2>1 DEF IsrMask, ConfigPoll
<1>5. ASSUME IsrState PROVE TypeOK'
  BY <1>5 DEF IsrState
<1>6. ASSUME IsrVote PROVE TypeOK'
  BY <1>6 DEF IsrVote
<1>7. ASSUME WorkVote PROVE TypeOK'
  BY <1>7 DEF WorkVote
<1>8. ASSUME WorkSchedule PROVE TypeOK'
  BY <1>8 DEF WorkSchedule
<1>9. ASSUME NEW c \in Cpus, PollStart(c) PROVE TypeOK'
  BY <1>9 DEF PollStart
<1>10. ASSUME NEW c \in Cpus, PollTake(c) PROVE TypeOK'
  BY <1>10 DEF PollTake, RingFree
<1>11. ASSUME NEW c \in Cpus, PollMore(c) PROVE TypeOK'
  BY <1>11 DEF PollMore
<1>11a. ASSUME NEW c \in Cpus, PollExhausted(c) PROVE TypeOK'
  BY <1>11a DEF PollExhausted
<1>12. ASSUME NEW c \in Cpus, PollLook(c) PROVE TypeOK'
  BY <1>12 DEF PollLook, RingFree
<1>13. ASSUME NEW c \in Cpus, PollClear(c) PROVE TypeOK'
  <2>1. ieob' \in BOOLEAN
    BY <1>13 DEF PollClear
  <2> QED
    BY <1>13, <2>1 DEF PollClear
<1>14. ASSUME NEW c \in Cpus, PollEmpty(c) PROVE TypeOK'
  BY <1>14 DEF PollEmpty
<1>15. ASSUME NEW c \in Cpus, PollYield(c) PROVE TypeOK'
  BY <1>15 DEF PollYield
<1>16. ASSUME NEW c \in Cpus, PollComplete(c) PROVE TypeOK'
  BY <1>16 DEF PollComplete
<1>17. ASSUME NEW c \in Cpus, SwitchState(c) PROVE TypeOK'
  <2>1. polling' \in BOOLEAN
    BY <1>17 DEF SwitchState
  <2> QED
    BY <1>17, <2>1 DEF SwitchState
<1>18. ASSUME NEW c \in Cpus, SwitchRelease(c) PROVE TypeOK'
  <2>1. c \in Releasing
    BY <1>18 DEF SwitchRelease, Releasing
  <2>2. Cardinality(Releasing) # 0
    BY <2>1, CountedSets, FS_EmptySet
  <2>3. wake - 1 \in Nat
    BY <2>2, CountedSets DEF WakelockBalanced, Releasing, Count
  <2> QED
    BY <1>18, <2>3 DEF SwitchRelease
<1>19. ASSUME NEW c \in Cpus, SwitchPending(c) PROVE TypeOK'
  BY <1>19 DEF SwitchPending
<1>20. ASSUME NEW c \in Cpus, PollDrop(c) PROVE TypeOK'
  BY <1>20 DEF PollDrop
<1>21. ASSUME NEW a \in Actors, ConfigCallback(a) PROVE TypeOK'
  <2>1. mode' \in {"callback", "poll"} /\ msk' \in BOOLEAN
    BY <1>21 DEF ConfigCallback
  <2>2. \E l \in {"start2", "pending", "drop", "check"} : Go(a, l)
    BY <1>21 DEF ConfigCallback, Callbacks
  <2> QED
    BY <1>21, <2>1, <2>2 DEF ConfigCallback
<1>21a. ASSUME NEW a \in Actors, ConfigTest(a) PROVE TypeOK'
  <2>1. \E l \in {"start2", "pending", "drop", "unmask"} : Go(a, l)
    BY <1>21a DEF ConfigTest, Callbacks
  <2> QED
    BY <1>21a, <2>1 DEF ConfigTest
<1>22. ASSUME NEW a \in Actors, CheckPending(a) PROVE TypeOK'
  <2>1. ieob' \in BOOLEAN /\ msk' \in BOOLEAN
    BY <1>22 DEF CheckPending
  <2>2. \E l \in {"start2", "pending", "drop", "xchg"} : Go(a, l)
    BY <1>22 DEF CheckPending, Callbacks
  <2> QED
    BY <1>22, <2>1, <2>2 DEF CheckPending
<1>23. ASSUME NEW a \in Actors, TakeMode(a) PROVE TypeOK'
  BY <1>23 DEF TakeMode, Callbacks, RingFree
<1>24. ASSUME Drop PROVE TypeOK'
  <2>1. Count(other) \in Nat /\ Count(napi = "sched") \in Nat /\ Count(work = "run") \in Nat
    BY DEF Count
  <2>2. cnt - 1 \in Nat
    BY <1>24, <2>1, CountedSets DEF Drop, VotesOwned, Count
  <2>3. other' \in BOOLEAN
    BY <1>24 DEF Drop
  <2>4. later' \in Nat
    BY <1>24 DEF Drop
  <2> QED
    BY <1>24, <2>2, <2>3, <2>4 DEF Drop
<1>25. ASSUME Vote PROVE TypeOK'
  BY <1>25 DEF Vote
<1>26. ASSUME VoteOff PROVE TypeOK'
  BY <1>26 DEF VoteOff
<1>27. ASSUME SuspendStop PROVE TypeOK'
  BY <1>27 DEF SuspendStop
<1>27a. ASSUME SuspendTest PROVE TypeOK'
  BY <1>27a DEF SuspendTest
<1>27b. ASSUME SuspendMask PROVE TypeOK'
  <2>1. ieob' \in BOOLEAN /\ msk' \in BOOLEAN
    BY <1>27b DEF SuspendMask, ConfigPoll
  <2> QED
    BY <1>27b, <2>1 DEF SuspendMask, ConfigPoll
<1>28. ASSUME SuspendQuiet PROVE TypeOK'
  BY <1>28 DEF SuspendQuiet, Busy, RingFree
<1>29. ASSUME SuspendDefault PROVE TypeOK'
  BY <1>29 DEF SuspendDefault
<1>30. ASSUME SuspendBusy PROVE TypeOK'
  BY <1>30 DEF SuspendBusy, Busy
<1>31. ASSUME GateOff PROVE TypeOK'
  BY <1>31 DEF GateOff
<1>32. ASSUME ResumeStart PROVE TypeOK'
  BY <1>32 DEF ResumeStart, Start
<1>32a. ASSUME ResumeState PROVE TypeOK'
  BY <1>32a DEF ResumeState
<1>33. ASSUME ResumeEnd PROVE TypeOK'
  BY <1>33 DEF ResumeEnd, Start
<1>34. CASE UNCHANGED vars
  BY <1>34 DEF vars, chan, votes
<1> QED
  BY <1>1, <1>2, <1>3, <1>4, <1>4a, <1>4b, <1>5, <1>6, <1>7, <1>8, <1>9, <1>10, <1>11,
     <1>11a, <1>12, <1>13, <1>14, <1>15, <1>16, <1>17, <1>18, <1>19, <1>20, <1>21, <1>21a,
     <1>22, <1>23, <1>24, <1>25, <1>26, <1>27, <1>27a, <1>27b, <1>28, <1>29, <1>30, <1>31,
     <1>32, <1>32a, <1>33, <1>34
     DEF Next, Isr, Poll, Config, Switching, Actors

-----------------------------------------------------------------------------
(* Votes and the wakelock.                                                 *)

\* The initial state satisfies the invariant.
LEMMA InitCount == Init => CountInv
<1> SUFFICES ASSUME Init PROVE CountInv
  OBVIOUS
<1>1. TypeOK
  BY InitType
<1>2. \A a \in Actors : at[a] = "idle"
  BY DEF Init
<1>3. Gate \in Actors /\ Cpus \subseteq Actors
  BY DEF Actors
<1>4. ~Session
  BY <1>2, <1>3 DEF Init, Session, InSession, SessionPcs, ActivePcs, TailPcs
<1>5. OneSession /\ ModeInv /\ PollMaskInv
  BY <1>4 DEF OneSession, ModeInv, PollMaskInv, Session, Init
<1>6. NapiInv /\ PollingInv
  BY <1>2, <1>3 DEF Init, NapiInv, PollingInv, ActivePcs
<1>7. GateInv
  BY <1>2, <1>3 DEF GateInv, StoppedPcs, SwitchPcs
<1>8. Working = {} /\ {c \in Cpus : at[c] = "release"} = {}
  BY <1>2, <1>3 DEF Working
<1>9. Cardinality(Working) = 0 /\ Cardinality({c \in Cpus : at[c] = "release"}) = 0
  BY <1>8, FS_EmptySet
<1>10. VotesOwned /\ WakelockBalanced
  BY <1>9 DEF Init, VotesOwned, WakelockBalanced, Count
<1> QED
  BY <1>1, <1>5, <1>6, <1>7, <1>10 DEF CountInv

\* Each vote that is taken or dropped is one that its owner had.
LEMMA VotesStep == CountInv /\ [Next]_vars => VotesOwned'
<1> SUFFICES ASSUME CountInv, [Next]_vars PROVE VotesOwned'
  OBVIOUS
<1>a. TypeOK
  BY DEF CountInv
<1> USE CountedSets, <1>a DEF VotesOwned, Count, chan, votes
<1>b. cnt = Count(other) + later + Cardinality(Working)
             + Count(napi = "sched") + Count(work = "run")
  BY DEF CountInv
<1>c. cnt \in Nat /\ later \in Nat /\ other \in BOOLEAN
  BY DEF TypeOK
<1>1. ASSUME Arrive PROVE VotesOwned'
  <2>1. Working' = Working
    BY <1>1 DEF Arrive, Working
  <2> QED
    BY <1>1, <1>b, <1>c, <2>1 DEF Arrive
<1>2. ASSUME IsrEnter PROVE VotesOwned'
  <2>1. Working' = Working
    BY <1>2 DEF IsrEnter, Working
  <2> QED
    BY <1>2, <1>b, <1>c, <2>1 DEF IsrEnter
<1>3. ASSUME IsrLoop PROVE VotesOwned'
  <2>1. Working' = Working
    BY <1>3 DEF IsrLoop, Working
  <2> QED
    BY <1>3, <1>b, <1>c, <2>1 DEF IsrLoop
<1>4. ASSUME IsrCallback PROVE VotesOwned'
  <2>1. Working' = Working
    BY <1>4 DEF IsrCallback, Working
  <2> QED
    BY <1>4, <1>b, <1>c, <2>1 DEF IsrCallback
<1>4a. ASSUME IsrTest PROVE VotesOwned'
  <2>1. Working' = Working
    BY <1>4a DEF IsrTest, Working
  <2> QED
    BY <1>4a, <1>b, <1>c, <2>1 DEF IsrTest
<1>4b. ASSUME IsrMask PROVE VotesOwned'
  <2>1. Working' = Working
    BY <1>4b DEF IsrMask, Working
  <2> QED
    BY <1>4b, <1>b, <1>c, <2>1 DEF IsrMask
<1>5. ASSUME IsrState PROVE VotesOwned'
  <2>1. Working' = Working
    BY <1>5 DEF IsrState, Working
  <2> QED
    BY <1>5, <1>b, <1>c, <2>1 DEF IsrState
<1>6. ASSUME IsrVote PROVE VotesOwned'
  <2>1. Working' = Working
    BY <1>6 DEF IsrVote, Working
  <2>2. napi # "sched"
    BY <1>6 DEF IsrVote, CountInv, OneSession
  <2> QED
    BY <1>6, <1>b, <1>c, <2>1, <2>2 DEF IsrVote
<1>7. ASSUME WorkVote PROVE VotesOwned'
  <2>1. Working' = Working
    BY <1>7 DEF WorkVote, Working
  <2> QED
    BY <1>7, <1>b, <1>c, <2>1 DEF WorkVote
<1>8. ASSUME WorkSchedule PROVE VotesOwned'
  <2>1. Working' = Working
    BY <1>8 DEF WorkSchedule, Working
  <2>2. napi # "sched"
    BY <1>8 DEF WorkSchedule, CountInv, OneSession
  <2> QED
    BY <1>8, <1>b, <1>c, <2>1, <2>2 DEF WorkSchedule
<1>9. ASSUME NEW c \in Cpus, PollStart(c) PROVE VotesOwned'
  BY <1>9, <1>b, <1>c, WorkingMove DEF PollStart
<1>10. ASSUME NEW c \in Cpus, PollTake(c) PROVE VotesOwned'
  BY <1>10, <1>b, <1>c, WorkingMove DEF PollTake
<1>11. ASSUME NEW c \in Cpus, PollMore(c) PROVE VotesOwned'
  BY <1>11, <1>b, <1>c, WorkingMove DEF PollMore
<1>11a. ASSUME NEW c \in Cpus, PollExhausted(c) PROVE VotesOwned'
  BY <1>11a, <1>b, <1>c, WorkingMove DEF PollExhausted
<1>12. ASSUME NEW c \in Cpus, PollLook(c) PROVE VotesOwned'
  BY <1>12, <1>b, <1>c, WorkingMove DEF PollLook
<1>13. ASSUME NEW c \in Cpus, PollClear(c) PROVE VotesOwned'
  BY <1>13, <1>b, <1>c, WorkingMove DEF PollClear
<1>14. ASSUME NEW c \in Cpus, PollEmpty(c) PROVE VotesOwned'
  BY <1>14, <1>b, <1>c, WorkingMove DEF PollEmpty
<1>15. ASSUME NEW c \in Cpus, PollYield(c) PROVE VotesOwned'
  <2>1. napi # "sched"
    BY <1>15 DEF PollYield, CountInv, OneSession, InSession, SessionPcs, ActivePcs
  <2> QED
    BY <1>15, <1>b, <1>c, <2>1, WorkingMove DEF PollYield
<1>16. ASSUME NEW c \in Cpus, PollComplete(c) PROVE VotesOwned'
  <2>1. napi # "sched"
    BY <1>16 DEF PollComplete, CountInv, OneSession, InSession, SessionPcs, ActivePcs
  <2> QED
    BY <1>16, <1>b, <1>c, <2>1, WorkingMove DEF PollComplete
<1>17. ASSUME NEW c \in Cpus, SwitchState(c) PROVE VotesOwned'
  BY <1>17, <1>b, <1>c, WorkingMove DEF SwitchState
<1>18. ASSUME NEW c \in Cpus, SwitchRelease(c) PROVE VotesOwned'
  BY <1>18, <1>b, <1>c, WorkingMove DEF SwitchRelease
<1>19. ASSUME NEW c \in Cpus, SwitchPending(c) PROVE VotesOwned'
  BY <1>19, <1>b, <1>c, WorkingMove DEF SwitchPending
<1>20. ASSUME NEW c \in Cpus, PollDrop(c) PROVE VotesOwned'
  BY <1>20, <1>b, <1>c, WorkingMove DEF PollDrop
<1>21. ASSUME NEW a \in Actors, ConfigCallback(a) PROVE VotesOwned'
  <2>1. PICK l : l # "idle" /\ Go(a, l)
    BY <1>21 DEF ConfigCallback, Callbacks
  <2>2. a \in Cpus => Cardinality(Working') = Cardinality(Working)
    BY <1>21, <2>1, WorkingMove DEF ConfigCallback
  <2>3. a = Gate => Cardinality(Working') = Cardinality(Working)
    BY <2>1, GateMove
  <2> QED
    BY <1>21, <1>b, <2>2, <2>3 DEF ConfigCallback, Actors
<1>21a. ASSUME NEW a \in Actors, ConfigTest(a) PROVE VotesOwned'
  <2>1. PICK l : l # "idle" /\ Go(a, l)
    BY <1>21a DEF ConfigTest, Callbacks
  <2>2. a \in Cpus => Cardinality(Working') = Cardinality(Working)
    BY <1>21a, <2>1, WorkingMove DEF ConfigTest
  <2>3. a = Gate => Cardinality(Working') = Cardinality(Working)
    BY <2>1, GateMove
  <2> QED
    BY <1>21a, <1>b, <2>2, <2>3 DEF ConfigTest, Actors
<1>22. ASSUME NEW a \in Actors, CheckPending(a) PROVE VotesOwned'
  <2>1. PICK l : l # "idle" /\ Go(a, l)
    BY <1>22 DEF CheckPending, Callbacks
  <2>2. a \in Cpus => Cardinality(Working') = Cardinality(Working)
    BY <1>22, <2>1, WorkingMove DEF CheckPending
  <2>3. a = Gate => Cardinality(Working') = Cardinality(Working)
    BY <2>1, GateMove
  <2> QED
    BY <1>22, <1>b, <2>2, <2>3 DEF CheckPending, Actors
<1>23. ASSUME NEW a \in Actors, TakeMode(a) PROVE VotesOwned'
  <2>1. PICK l : l # "idle" /\ Go(a, l)
    BY <1>23 DEF TakeMode, Callbacks
  <2>2. a \in Cpus => Cardinality(Working') = Cardinality(Working)
    BY <1>23, <2>1, WorkingMove DEF TakeMode
  <2>3. a = Gate => Cardinality(Working') = Cardinality(Working)
    BY <2>1, GateMove
  <2> QED
    BY <1>23, <1>b, <2>2, <2>3 DEF TakeMode, Actors
<1>24. ASSUME Drop PROVE VotesOwned'
  BY <1>24, <1>b, <1>c, GateMove DEF Drop
<1>25. ASSUME Vote PROVE VotesOwned'
  <2>1. Working' = Working
    BY <1>25 DEF Vote, Working
  <2> QED
    BY <1>25, <1>b, <1>c, <2>1 DEF Vote
<1>26. ASSUME VoteOff PROVE VotesOwned'
  BY <1>26, <1>b, <1>c, GateMove DEF VoteOff
<1>27. ASSUME SuspendStop PROVE VotesOwned'
  BY <1>27, <1>b, <1>c, GateMove DEF SuspendStop
<1>27a. ASSUME SuspendTest PROVE VotesOwned'
  BY <1>27a, <1>b, <1>c, GateMove DEF SuspendTest
<1>27b. ASSUME SuspendMask PROVE VotesOwned'
  BY <1>27b, <1>b, <1>c, GateMove DEF SuspendMask, ConfigPoll, GsiFree
<1>28. ASSUME SuspendQuiet PROVE VotesOwned'
  BY <1>28, <1>b, <1>c, GateMove DEF SuspendQuiet, Busy, RingFree
<1>29. ASSUME SuspendDefault PROVE VotesOwned'
  BY <1>29, <1>b, <1>c, GateMove DEF SuspendDefault
<1>30. ASSUME SuspendBusy PROVE VotesOwned'
  BY <1>30, <1>b, <1>c, GateMove DEF SuspendBusy, Busy
<1>31. ASSUME GateOff PROVE VotesOwned'
  BY <1>31, <1>b, <1>c, GateMove DEF GateOff
<1>32. ASSUME ResumeStart PROVE VotesOwned'
  BY <1>32, <1>b, <1>c, GateMove DEF ResumeStart, Start
<1>32a. ASSUME ResumeState PROVE VotesOwned'
  BY <1>32a, <1>b, <1>c, GateMove DEF ResumeState
<1>33. ASSUME ResumeEnd PROVE VotesOwned'
  <2>1. cnt = 0 /\ wants \in {"retry", "other",
     "work"} /\ (wants = "work" => work = "queued")
    BY <1>33 DEF ResumeEnd, CountInv, GateInv, SwitchPcs
  <2>2. napi # "sched" /\ work # "run" /\ ~other /\ later = 0
    BY <2>1, NobodyWorks DEF CountInv
  <2>3. Working' = Working
    BY <1>33, GateMove DEF ResumeEnd
  <2>4. other' <=> wants = "other"
    BY <1>33, <2>2, Zenon DEF ResumeEnd
  <2>5. later' = Count(wants = "retry")
    BY <1>33, <2>2 DEF ResumeEnd
  <2>6. cnt' = 1 /\ Cardinality(Working') = 0
    BY <1>33, <1>b, <2>1, <2>2, <2>3 DEF ResumeEnd
  <2>7. napi' # "sched" /\ (work' = "run" <=> wants = "work")
    BY <1>33, <2>2 DEF ResumeEnd
  <2>8. /\ Count(other') = Count(wants = "other") /\ Count(napi' = "sched") = 0
        /\ Count(work' = "run") = Count(wants = "work")
    BY <2>4, <2>7
  <2> QED
    BY <2>1, <2>5, <2>6, <2>8
<1>34. CASE UNCHANGED vars
  <2>1. Working' = Working
    BY <1>34 DEF vars, Working
  <2> QED
    BY <1>34, <1>b, <2>1 DEF vars
<1> QED
  BY <1>1, <1>2, <1>3, <1>4, <1>4a, <1>4b, <1>5, <1>6, <1>7, <1>8, <1>9, <1>10, <1>11,
     <1>11a, <1>12, <1>13, <1>14, <1>15, <1>16, <1>17, <1>18, <1>19, <1>20, <1>21, <1>21a,
     <1>22, <1>23, <1>24, <1>25, <1>26, <1>27, <1>27a, <1>27b, <1>28, <1>29, <1>30, <1>31,
     <1>32, <1>32a, <1>33, <1>34
     DEF Next, Isr, Poll, Config, Switching, Actors

\* Each hold of the wakelock that is taken or released is one of these.
LEMMA WakeStep == CountInv /\ [Next]_vars => WakelockBalanced'
<1> SUFFICES ASSUME CountInv, [Next]_vars PROVE WakelockBalanced'
  OBVIOUS
<1>a. TypeOK
  BY DEF CountInv
<1>b. wake = Count(polling) + Cardinality(Releasing)
  BY DEF CountInv, WakelockBalanced, Releasing
<1>c. wake \in Nat /\ polling \in BOOLEAN
  BY <1>a DEF TypeOK
<1>d. WakelockBalanced' <=> wake' = Count(polling') + Cardinality(Releasing')
  BY DEF WakelockBalanced, Releasing
<1> USE CountedSets, <1>a, <1>d DEF Count, chan, votes
<1>1. ASSUME Arrive PROVE WakelockBalanced'
  <2>1. Releasing' = Releasing
    BY <1>1 DEF Arrive, Releasing
  <2> QED
    BY <1>1, <1>b, <1>c, <2>1 DEF Arrive
<1>2. ASSUME IsrEnter PROVE WakelockBalanced'
  <2>1. Releasing' = Releasing
    BY <1>2 DEF IsrEnter, Releasing
  <2> QED
    BY <1>2, <1>b, <1>c, <2>1 DEF IsrEnter
<1>3. ASSUME IsrLoop PROVE WakelockBalanced'
  <2>1. Releasing' = Releasing
    BY <1>3 DEF IsrLoop, Releasing
  <2> QED
    BY <1>3, <1>b, <1>c, <2>1 DEF IsrLoop
<1>4. ASSUME IsrCallback PROVE WakelockBalanced'
  <2>1. Releasing' = Releasing
    BY <1>4 DEF IsrCallback, Releasing
  <2> QED
    BY <1>4, <1>b, <1>c, <2>1 DEF IsrCallback
<1>4a. ASSUME IsrTest PROVE WakelockBalanced'
  <2>1. Releasing' = Releasing
    BY <1>4a DEF IsrTest, Releasing
  <2> QED
    BY <1>4a, <1>b, <1>c, <2>1 DEF IsrTest
<1>4b. ASSUME IsrMask PROVE WakelockBalanced'
  <2>1. Releasing' = Releasing
    BY <1>4b DEF IsrMask, Releasing
  <2> QED
    BY <1>4b, <1>b, <1>c, <2>1 DEF IsrMask
<1>5. ASSUME IsrState PROVE WakelockBalanced'
  <2>1. Releasing' = Releasing
    BY <1>5 DEF IsrState, Releasing
  <2>2. ~polling
    BY <1>5 DEF IsrState, CountInv, PollingInv, OneSession, InSession, SessionPcs, TailPcs
  <2> QED
    BY <1>5, <1>b, <1>c, <2>1, <2>2 DEF IsrState
<1>6. ASSUME IsrVote PROVE WakelockBalanced'
  <2>1. Releasing' = Releasing
    BY <1>6 DEF IsrVote, Releasing
  <2> QED
    BY <1>6, <1>b, <1>c, <2>1 DEF IsrVote
<1>7. ASSUME WorkVote PROVE WakelockBalanced'
  <2>1. Releasing' = Releasing
    BY <1>7 DEF WorkVote, Releasing
  <2> QED
    BY <1>7, <1>b, <1>c, <2>1 DEF WorkVote
<1>8. ASSUME WorkSchedule PROVE WakelockBalanced'
  <2>1. Releasing' = Releasing
    BY <1>8 DEF WorkSchedule, Releasing
  <2> QED
    BY <1>8, <1>b, <1>c, <2>1 DEF WorkSchedule
<1>9. ASSUME NEW c \in Cpus, PollStart(c) PROVE WakelockBalanced'
  BY <1>9, <1>b, <1>c, ReleasingMove DEF PollStart
<1>10. ASSUME NEW c \in Cpus, PollTake(c) PROVE WakelockBalanced'
  BY <1>10, <1>b, <1>c, ReleasingMove DEF PollTake
<1>11. ASSUME NEW c \in Cpus, PollMore(c) PROVE WakelockBalanced'
  BY <1>11, <1>b, <1>c, ReleasingMove DEF PollMore
<1>11a. ASSUME NEW c \in Cpus, PollExhausted(c) PROVE WakelockBalanced'
  BY <1>11a, <1>b, <1>c, ReleasingMove DEF PollExhausted
<1>12. ASSUME NEW c \in Cpus, PollLook(c) PROVE WakelockBalanced'
  BY <1>12, <1>b, <1>c, ReleasingMove DEF PollLook
<1>13. ASSUME NEW c \in Cpus, PollClear(c) PROVE WakelockBalanced'
  BY <1>13, <1>b, <1>c, ReleasingMove DEF PollClear
<1>14. ASSUME NEW c \in Cpus, PollEmpty(c) PROVE WakelockBalanced'
  BY <1>14, <1>b, <1>c, ReleasingMove DEF PollEmpty
<1>15. ASSUME NEW c \in Cpus, PollYield(c) PROVE WakelockBalanced'
  BY <1>15, <1>b, <1>c, ReleasingMove DEF PollYield
<1>16. ASSUME NEW c \in Cpus, PollComplete(c) PROVE WakelockBalanced'
  BY <1>16, <1>b, <1>c, ReleasingMove DEF PollComplete
<1>17. ASSUME NEW c \in Cpus, SwitchState(c) PROVE WakelockBalanced'
  <2>1. polling
    BY <1>17 DEF SwitchState, CountInv, PollingInv
  <2> QED
    BY <1>17, <1>b, <1>c, <2>1, ReleasingMove DEF SwitchState
<1>18. ASSUME NEW c \in Cpus, SwitchRelease(c) PROVE WakelockBalanced'
  BY <1>18, <1>b, <1>c, ReleasingMove DEF SwitchRelease
<1>19. ASSUME NEW c \in Cpus, SwitchPending(c) PROVE WakelockBalanced'
  BY <1>19, <1>b, <1>c, ReleasingMove DEF SwitchPending
<1>20. ASSUME NEW c \in Cpus, PollDrop(c) PROVE WakelockBalanced'
  BY <1>20, <1>b, <1>c, ReleasingMove DEF PollDrop
<1>21. ASSUME NEW a \in Actors, ConfigCallback(a) PROVE WakelockBalanced'
  <2>1. PICK l : l # "release" /\ Go(a, l)
    BY <1>21 DEF ConfigCallback, Callbacks
  <2>2. a \in Cpus => Cardinality(Releasing') = Cardinality(Releasing)
    BY <1>21, <2>1, ReleasingMove DEF ConfigCallback
  <2>3. a = Gate => Cardinality(Releasing') = Cardinality(Releasing)
    BY <2>1, GateMove
  <2> QED
    BY <1>21, <1>b, <2>2, <2>3 DEF ConfigCallback, Actors
<1>21a. ASSUME NEW a \in Actors, ConfigTest(a) PROVE WakelockBalanced'
  <2>1. PICK l : l # "release" /\ Go(a, l)
    BY <1>21a DEF ConfigTest, Callbacks
  <2>2. a \in Cpus => Cardinality(Releasing') = Cardinality(Releasing)
    BY <1>21a, <2>1, ReleasingMove DEF ConfigTest
  <2>3. a = Gate => Cardinality(Releasing') = Cardinality(Releasing)
    BY <2>1, GateMove
  <2> QED
    BY <1>21a, <1>b, <2>2, <2>3 DEF ConfigTest, Actors
<1>22. ASSUME NEW a \in Actors, CheckPending(a) PROVE WakelockBalanced'
  <2>1. PICK l : l # "release" /\ Go(a, l)
    BY <1>22 DEF CheckPending, Callbacks
  <2>2. a \in Cpus => Cardinality(Releasing') = Cardinality(Releasing)
    BY <1>22, <2>1, ReleasingMove DEF CheckPending
  <2>3. a = Gate => Cardinality(Releasing') = Cardinality(Releasing)
    BY <2>1, GateMove
  <2> QED
    BY <1>22, <1>b, <2>2, <2>3 DEF CheckPending, Actors
<1>23. ASSUME NEW a \in Actors, TakeMode(a) PROVE WakelockBalanced'
  <2>1. PICK l : l # "release" /\ Go(a, l)
    BY <1>23 DEF TakeMode, Callbacks
  <2>2. a \in Cpus => Cardinality(Releasing') = Cardinality(Releasing)
    BY <1>23, <2>1, ReleasingMove DEF TakeMode
  <2>3. a = Gate => Cardinality(Releasing') = Cardinality(Releasing)
    BY <2>1, GateMove
  <2> QED
    BY <1>23, <1>b, <2>2, <2>3 DEF TakeMode, Actors
<1>24. ASSUME Drop PROVE WakelockBalanced'
  BY <1>24, <1>b, <1>c, GateMove DEF Drop
<1>25. ASSUME Vote PROVE WakelockBalanced'
  <2>1. Releasing' = Releasing
    BY <1>25 DEF Vote, Releasing
  <2> QED
    BY <1>25, <1>b, <1>c, <2>1 DEF Vote
<1>26. ASSUME VoteOff PROVE WakelockBalanced'
  BY <1>26, <1>b, <1>c, GateMove DEF VoteOff
<1>27. ASSUME SuspendStop PROVE WakelockBalanced'
  BY <1>27, <1>b, <1>c, GateMove DEF SuspendStop
<1>27a. ASSUME SuspendTest PROVE WakelockBalanced'
  BY <1>27a, <1>b, <1>c, GateMove DEF SuspendTest
<1>27b. ASSUME SuspendMask PROVE WakelockBalanced'
  BY <1>27b, <1>b, <1>c, GateMove DEF SuspendMask, ConfigPoll, GsiFree
<1>28. ASSUME SuspendQuiet PROVE WakelockBalanced'
  BY <1>28, <1>b, <1>c, GateMove DEF SuspendQuiet, Busy, RingFree
<1>29. ASSUME SuspendDefault PROVE WakelockBalanced'
  BY <1>29, <1>b, <1>c, GateMove DEF SuspendDefault
<1>30. ASSUME SuspendBusy PROVE WakelockBalanced'
  BY <1>30, <1>b, <1>c, GateMove DEF SuspendBusy, Busy
<1>31. ASSUME GateOff PROVE WakelockBalanced'
  BY <1>31, <1>b, <1>c, GateMove DEF GateOff
<1>32. ASSUME ResumeStart PROVE WakelockBalanced'
  BY <1>32, <1>b, <1>c, GateMove DEF ResumeStart, Start
<1>32a. ASSUME ResumeState PROVE WakelockBalanced'
  BY <1>32a, <1>b, <1>c, GateMove DEF ResumeState
<1>33. ASSUME ResumeEnd PROVE WakelockBalanced'
  BY <1>33, <1>b, <1>c, GateMove DEF ResumeEnd, Start
<1>34. CASE UNCHANGED vars
  <2>1. Releasing' = Releasing
    BY <1>34 DEF vars, Releasing
  <2> QED
    BY <1>34, <1>b, <2>1 DEF vars
<1> QED
  BY <1>1, <1>2, <1>3, <1>4, <1>4a, <1>4b, <1>5, <1>6, <1>7, <1>8, <1>9, <1>10, <1>11,
     <1>11a, <1>12, <1>13, <1>14, <1>15, <1>16, <1>17, <1>18, <1>19, <1>20, <1>21, <1>21a,
     <1>22, <1>23, <1>24, <1>25, <1>26, <1>27, <1>27a, <1>27b, <1>28, <1>29, <1>30, <1>31,
     <1>32, <1>32a, <1>33, <1>34
     DEF Next, Isr, Poll, Config, Switching, Actors

-----------------------------------------------------------------------------
(* Sessions.                                                               *)

\* A session passes from hand to hand, and begins only when there is none.
LEMMA SessionStep ==
    CountInv /\ [Next]_vars =>
        (OneSession /\ NapiInv /\ PollingInv /\ ModeInv /\ PollMaskInv /\ GateInv)'
<1> DEFINE Inv == OneSession /\ NapiInv /\ PollingInv /\ ModeInv /\ PollMaskInv /\ GateInv
<1> SUFFICES ASSUME CountInv, [Next]_vars PROVE Inv'
  OBVIOUS
<1>a. TypeOK /\ VotesOwned /\ Inv
  BY DEF CountInv
<1>b. /\ isr \in {"idle", "enter", "loop", "callback", "test", "mask", "state", "vote"}
      /\ napi \in {"off", "sched", "run"} /\ work \in {"none", "queued", "run"}
      /\ cnt \in Nat /\ mode \in {"callback", "poll"} /\ msk \in BOOLEAN
  BY <1>a DEF TypeOK
<1>c. cnt = 0 => /\ \A c \in Cpus : at[c] = "idle"
                 /\ napi # "sched" /\ work # "run" /\ ~other /\ later = 0
  BY <1>a, NobodyWorks
<1> USE <1>a, <1>b, <1>c
    DEF OneSession, NapiInv, PollingInv, ModeInv, PollMaskInv, GateInv, Session, InSession,
        SessionPcs, ActivePcs, TailPcs, StoppedPcs, SwitchPcs, chan, votes
<1>1. ASSUME Arrive PROVE Inv'
  BY <1>1 DEF Arrive
<1>2. ASSUME IsrEnter PROVE Inv'
  BY <1>2 DEF IsrEnter, ClocksOn
<1>3. ASSUME IsrLoop PROVE Inv'
  BY <1>3 DEF IsrLoop, RingFree
<1>4. ASSUME IsrCallback PROVE Inv'
  BY <1>4 DEF IsrCallback
<1>4a. ASSUME IsrTest PROVE Inv'
  BY <1>4a DEF IsrTest
<1>4b. ASSUME IsrMask PROVE Inv'
  BY <1>4b DEF IsrMask, ConfigPoll, GsiFree
<1>5. ASSUME IsrState PROVE Inv'
  BY <1>5 DEF IsrState
<1>6. ASSUME IsrVote PROVE Inv'
  BY <1>6 DEF IsrVote
<1>7. ASSUME WorkVote PROVE Inv'
  BY <1>7 DEF WorkVote
<1>8. ASSUME WorkSchedule PROVE Inv'
  BY <1>8 DEF WorkSchedule
<1>9. ASSUME NEW c \in Cpus, PollStart(c) PROVE Inv'
  BY <1>9, CpuMove DEF PollStart
<1>10. ASSUME NEW c \in Cpus, PollTake(c) PROVE Inv'
  BY <1>10, CpuMove DEF PollTake, RingFree
<1>11. ASSUME NEW c \in Cpus, PollMore(c) PROVE Inv'
  BY <1>11, CpuMove DEF PollMore
<1>11a. ASSUME NEW c \in Cpus, PollExhausted(c) PROVE Inv'
  BY <1>11a, CpuMove DEF PollExhausted
<1>12. ASSUME NEW c \in Cpus, PollLook(c) PROVE Inv'
  BY <1>12, CpuMove DEF PollLook, RingFree
<1>13. ASSUME NEW c \in Cpus, PollClear(c) PROVE Inv'
  BY <1>13, CpuMove DEF PollClear
<1>14. ASSUME NEW c \in Cpus, PollEmpty(c) PROVE Inv'
  BY <1>14, CpuMove DEF PollEmpty
<1>15. ASSUME NEW c \in Cpus, PollYield(c) PROVE Inv'
  BY <1>15, CpuMove DEF PollYield
<1>16. ASSUME NEW c \in Cpus, PollComplete(c) PROVE Inv'
  BY <1>16, CpuMove DEF PollComplete
<1>17. ASSUME NEW c \in Cpus, SwitchState(c) PROVE Inv'
  BY <1>17, CpuMove DEF SwitchState
<1>18. ASSUME NEW c \in Cpus, SwitchRelease(c) PROVE Inv'
  BY <1>18, CpuMove DEF SwitchRelease
<1>19. ASSUME NEW c \in Cpus, SwitchPending(c) PROVE Inv'
  BY <1>19, CpuMove DEF SwitchPending
<1>20. ASSUME NEW c \in Cpus, PollDrop(c) PROVE Inv'
  BY <1>20, CpuMove DEF PollDrop
<1>21. ASSUME NEW a \in Actors, ConfigCallback(a) PROVE Inv'
  <2>1. CASE a = Gate
    BY <1>21, <2>1, GateMove DEF ConfigCallback, Callbacks
  <2>2. CASE a \in Cpus
    BY <1>21, <2>2, CpuMove DEF ConfigCallback, Callbacks
  <2> QED
    BY <2>1, <2>2 DEF Actors
<1>21a. ASSUME NEW a \in Actors, ConfigTest(a) PROVE Inv'
  <2>1. CASE a = Gate
    BY <1>21a, <2>1, GateMove DEF ConfigTest, Callbacks
  <2>2. CASE a \in Cpus
    BY <1>21a, <2>2, CpuMove DEF ConfigTest, Callbacks
  <2> QED
    BY <2>1, <2>2 DEF Actors
<1>22. ASSUME NEW a \in Actors, CheckPending(a) PROVE Inv'
  <2>1. CASE a = Gate
    BY <1>22, <2>1, GateMove DEF CheckPending, Callbacks
  <2>2. CASE a \in Cpus
    BY <1>22, <2>2, CpuMove DEF CheckPending, Callbacks
  <2> QED
    BY <2>1, <2>2 DEF Actors
<1>23. ASSUME NEW a \in Actors, TakeMode(a) PROVE Inv'
  <2>1. CASE a = Gate
    BY <1>23, <2>1, GateMove DEF TakeMode, Callbacks, RingFree
  <2>2. CASE a \in Cpus
    BY <1>23, <2>2, CpuMove DEF TakeMode, Callbacks, RingFree
  <2> QED
    BY <2>1, <2>2 DEF Actors
<1>24. ASSUME Drop PROVE Inv'
  BY <1>24, GateMove DEF Drop
<1>25. ASSUME Vote PROVE Inv'
  BY <1>25 DEF Vote
<1>26. ASSUME VoteOff PROVE Inv'
  BY <1>26, GateMove DEF VoteOff
<1>27. ASSUME SuspendStop PROVE Inv'
  BY <1>27, GateMove DEF SuspendStop
<1>27a. ASSUME SuspendTest PROVE Inv'
  BY <1>27a, GateMove DEF SuspendTest
<1>27b. ASSUME SuspendMask PROVE Inv'
  BY <1>27b, GateMove DEF SuspendMask, ConfigPoll, GsiFree
<1>28. ASSUME SuspendQuiet PROVE Inv'
  BY <1>28, GateMove DEF SuspendQuiet, Busy, RingFree
<1>29. ASSUME SuspendDefault PROVE Inv'
  BY <1>29, GateMove DEF SuspendDefault
<1>30. ASSUME SuspendBusy PROVE Inv'
  BY <1>30, GateMove DEF SuspendBusy, Busy
<1>31. ASSUME GateOff PROVE Inv'
  BY <1>31, GateMove DEF GateOff
<1>32. ASSUME ResumeStart PROVE Inv'
  BY <1>32, GateMove DEF ResumeStart, Start
<1>32a. ASSUME ResumeState PROVE Inv'
  BY <1>32a, GateMove DEF ResumeState
<1>33. ASSUME ResumeEnd PROVE Inv'
  BY <1>33, GateMove DEF ResumeEnd, Start
<1>34. CASE UNCHANGED vars
  BY <1>34 DEF vars, chan, votes
<1> QED
  BY <1>1, <1>2, <1>3, <1>4, <1>4a, <1>4b, <1>5, <1>6, <1>7, <1>8, <1>9, <1>10, <1>11,
     <1>11a, <1>12, <1>13, <1>14, <1>15, <1>16, <1>17, <1>18, <1>19, <1>20, <1>21, <1>21a,
     <1>22, <1>23, <1>24, <1>25, <1>26, <1>27, <1>27a, <1>27b, <1>28, <1>29, <1>30, <1>31,
     <1>32, <1>32a, <1>33, <1>34
     DEF Next, Isr, Poll, Config, Switching, Actors

\* The invariant holds in every state the receive path reaches.
THEOREM CountInvariant == Spec => []CountInv
<1>1. Init => CountInv
  BY InitCount
<1>2. CountInv /\ [Next]_vars => CountInv'
  BY TypeStep, SessionStep, VotesStep, WakeStep DEF CountInv
<1> QED
  BY <1>1, <1>2, PTL DEF Spec

\* Every variable keeps its type; in particular the counts of ipa3_active_clients
\* and of the wakelock stay natural numbers.
THEOREM TypeCorrect == Spec => []TypeOK
<1>1. CountInv => TypeOK
  BY DEF CountInv
<1> QED
  BY <1>1, CountInvariant, PTL

\* Every vote of ipa3_active_clients has an owner who will drop it, on any
\* number of CPUs (ipa3_rx_poll, ipa3_wq_handle_rx, the retry of a suspend).
THEOREM VotesAlwaysOwned == Spec => []VotesOwned
<1>1. CountInv => VotesOwned
  BY DEF CountInv
<1> QED
  BY <1>1, CountInvariant, PTL

\* The wakelock is held exactly while the state says polling, and by those that
\* are about to release it (ipa3_dec_release_wakelock).
THEOREM WakelockAlwaysBalanced == Spec => []WakelockBalanced
<1>1. CountInv => WakelockBalanced
  BY DEF CountInv
<1> QED
  BY <1>1, CountInvariant, PTL

\* No interrupt of the GSI is pending when ipa3_disable_clks gates the clocks.
THEOREM GatesWithoutIrq == Spec => []NoPendingIrq
<1>1. CountInv => NoPendingIrq
  BY DEF CountInv, GateInv, StoppedPcs, NoPendingIrq
<1> QED
  BY <1>1, CountInvariant, PTL

-----------------------------------------------------------------------------
(* Events.                                                                 *)

\* The initial state satisfies the invariant for the events.
LEMMA InitEvent == Init => EventInv
<1> SUFFICES ASSUME Init PROVE NoCheck /\ MaskInv /\ LockInv /\ StopInv /\ MindInv
  BY DEF EventInv
<1>1. \A a \in Actors : at[a] = "idle"
  BY DEF Init
<1>2. Gate \in Actors /\ Cpus \subseteq Actors
  BY DEF Actors
<1>3. ring["coal"] = 0
  BY DEF Init, Pipes
<1> QED
  BY <1>1, <1>2, <1>3 DEF Init, NoCheck, MaskInv, LockInv, StopInv, MindInv

\* An event changes hands from interrupt to handler to poll and is not dropped
\* on the way, not by a suspend either.
LEMMA EventStep == CountInv /\ EventInv /\ [Next]_vars => EventInv'
<1> DEFINE Inv == NoCheck /\ MaskInv /\ LockInv /\ StopInv /\ MindInv
<1>h. [Next]_vars => hw' = hw
  BY DEF Next, vars, chan, Arrive, Isr, IsrEnter, IsrLoop, IsrCallback, IsrTest, IsrMask,
     IsrState, IsrVote, WorkVote, WorkSchedule, PollStart, Poll, PollTake, PollMore,
     PollExhausted, PollLook, PollClear,
     PollEmpty, PollYield, PollComplete, SwitchState, SwitchRelease, SwitchPending, PollDrop,
     Config, ConfigTest, ConfigCallback, CheckPending, TakeMode, Drop, Vote, VoteOff, Switching,
     SuspendStop, SuspendTest, SuspendMask, SuspendQuiet, SuspendDefault, SuspendBusy, GateOff,
     ResumeStart, ResumeState, ResumeEnd
<1> SUFFICES ASSUME CountInv, Inv, hw # "check", [Next]_vars PROVE Inv'
  BY <1>h DEF EventInv
<1>a. TypeOK /\ OneSession /\ PollingInv /\ ModeInv /\ GateInv
  BY DEF CountInv
<1>b. /\ isr \in {"idle", "enter", "loop", "callback", "test", "mask", "state", "vote"}
      /\ napi \in {"off", "sched", "run"} /\ work \in {"none", "queued", "run"}
      /\ mode \in {"callback", "poll"} /\ ieob \in BOOLEAN /\ msk \in BOOLEAN
      /\ polling \in BOOLEAN
  BY <1>a DEF TypeOK
<1>c. cnt = 0 => /\ \A c \in Cpus : at[c] = "idle"
                 /\ napi # "sched" /\ work # "run" /\ ~other /\ later = 0
  BY NobodyWorks DEF CountInv
<1>d. ring["coal"] \in Nat /\ (Empty => ring["coal"] = 0)
  BY <1>a, RxAssumption DEF Empty, Pipes, TypeOK
<1>e. Gate \in Actors /\ Cpus \subseteq Actors
  BY DEF Actors
<1>f. /\ \A c \in Cpus : at[c] \notin {"check", "xchg", "pending"}
      /\ at[Gate] \notin {"check", "xchg", "pending"}
  BY <1>e DEF NoCheck
<1>g. Inv' <=> /\ \A c \in Cpus : at'[c] \notin {"check", "xchg", "pending"}
               /\ at'[Gate] \notin {"check", "xchg", "pending"}
               /\ (MaskInv /\ LockInv /\ StopInv /\ MindInv)'
  BY DEF NoCheck, Actors
<1> HIDE DEF Inv
<1>i. MaskInv /\ LockInv /\ StopInv /\ MindInv
  BY DEF Inv
<1> USE <1>a, <1>b, <1>c, <1>d, <1>f, <1>g, <1>h, <1>i
    DEF OneSession, PollingInv, ModeInv, GateInv, Session, InSession, SessionPcs,
        ActivePcs, TailPcs, StoppedPcs, SwitchPcs, chan, votes,
        MaskInv, LockInv, StopInv, MindInv, Early
<1>1. ASSUME Arrive PROVE Inv'
  BY <1>1 DEF Arrive
<1>2. ASSUME IsrEnter PROVE Inv'
  BY <1>2 DEF IsrEnter, ClocksOn
<1>3. ASSUME IsrLoop PROVE Inv'
  BY <1>3 DEF IsrLoop, RingFree
<1>4. ASSUME IsrCallback PROVE Inv'
  BY <1>4 DEF IsrCallback
<1>4a. ASSUME IsrTest PROVE Inv'
  BY <1>4a DEF IsrTest
<1>4b. ASSUME IsrMask PROVE Inv'
  BY <1>4b DEF IsrMask, ConfigPoll, GsiFree
<1>5. ASSUME IsrState PROVE Inv'
  BY <1>5 DEF IsrState
<1>6. ASSUME IsrVote PROVE Inv'
  BY <1>6 DEF IsrVote
<1>7. ASSUME WorkVote PROVE Inv'
  BY <1>7 DEF WorkVote
<1>8. ASSUME WorkSchedule PROVE Inv'
  BY <1>8 DEF WorkSchedule
<1>9. ASSUME NEW c \in Cpus, PollStart(c) PROVE Inv'
  BY <1>9, CpuMove DEF PollStart
<1>10. ASSUME NEW c \in Cpus, PollTake(c) PROVE Inv'
  BY <1>10, CpuMove DEF PollTake, RingFree
<1>11. ASSUME NEW c \in Cpus, PollMore(c) PROVE Inv'
  BY <1>11, CpuMove DEF PollMore
<1>11a. ASSUME NEW c \in Cpus, PollExhausted(c) PROVE Inv'
  BY <1>11a, CpuMove DEF PollExhausted
<1>12. ASSUME NEW c \in Cpus, PollLook(c) PROVE Inv'
  BY <1>12, CpuMove DEF PollLook, RingFree
<1>13. ASSUME NEW c \in Cpus, PollClear(c) PROVE Inv'
  BY <1>13, CpuMove DEF PollClear
<1>14. ASSUME NEW c \in Cpus, PollEmpty(c) PROVE Inv'
  BY <1>14, CpuMove DEF PollEmpty
<1>15. ASSUME NEW c \in Cpus, PollYield(c) PROVE Inv'
  BY <1>15, CpuMove DEF PollYield
<1>16. ASSUME NEW c \in Cpus, PollComplete(c) PROVE Inv'
  BY <1>16, CpuMove DEF PollComplete
<1>17. ASSUME NEW c \in Cpus, SwitchState(c) PROVE Inv'
  BY <1>17, CpuMove DEF SwitchState
<1>18. ASSUME NEW c \in Cpus, SwitchRelease(c) PROVE Inv'
  BY <1>18, CpuMove DEF SwitchRelease
<1>19. ASSUME NEW c \in Cpus, SwitchPending(c) PROVE Inv'
  BY <1>19, CpuMove DEF SwitchPending
<1>20. ASSUME NEW c \in Cpus, PollDrop(c) PROVE Inv'
  BY <1>20, CpuMove DEF PollDrop
<1>21. ASSUME NEW a \in Actors, ConfigCallback(a) PROVE Inv'
  <2>1. CASE a = Gate
    BY <1>21, <2>1, GateMove DEF ConfigCallback, Callbacks
  <2>2. CASE a \in Cpus
    BY <1>21, <2>2, CpuMove DEF ConfigCallback, Callbacks
  <2> QED
    BY <2>1, <2>2 DEF Actors
<1>21a. ASSUME NEW a \in Actors, ConfigTest(a) PROVE Inv'
  <2>1. CASE a = Gate
    BY <1>21a, <2>1, GateMove DEF ConfigTest, Callbacks
  <2>2. CASE a \in Cpus
    BY <1>21a, <2>2, CpuMove DEF ConfigTest, Callbacks
  <2> QED
    BY <2>1, <2>2 DEF Actors
<1>22. ASSUME NEW a \in Actors, CheckPending(a) PROVE Inv'
  <2>1. CASE a = Gate
    BY <1>22, <2>1, GateMove DEF CheckPending, Callbacks
  <2>2. CASE a \in Cpus
    BY <1>22, <2>2, CpuMove DEF CheckPending, Callbacks
  <2> QED
    BY <2>1, <2>2 DEF Actors
<1>23. ASSUME NEW a \in Actors, TakeMode(a) PROVE Inv'
  <2>1. CASE a = Gate
    BY <1>23, <2>1, GateMove DEF TakeMode, Callbacks, RingFree
  <2>2. CASE a \in Cpus
    BY <1>23, <2>2, CpuMove DEF TakeMode, Callbacks, RingFree
  <2> QED
    BY <2>1, <2>2 DEF Actors
<1>24. ASSUME Drop PROVE Inv'
  BY <1>24, GateMove DEF Drop
<1>25. ASSUME Vote PROVE Inv'
  BY <1>25 DEF Vote
<1>26. ASSUME VoteOff PROVE Inv'
  BY <1>26, GateMove DEF VoteOff
<1>27. ASSUME SuspendStop PROVE Inv'
  BY <1>27, GateMove DEF SuspendStop
<1>27a. ASSUME SuspendTest PROVE Inv'
  BY <1>27a, GateMove DEF SuspendTest
<1>27b. ASSUME SuspendMask PROVE Inv'
  BY <1>27b, GateMove DEF SuspendMask, ConfigPoll, GsiFree
<1>28. ASSUME SuspendQuiet PROVE Inv'
  BY <1>28, GateMove DEF SuspendQuiet, Busy, RingFree
<1>29. ASSUME SuspendDefault PROVE Inv'
  BY <1>29, GateMove DEF SuspendDefault
<1>30. ASSUME SuspendBusy PROVE Inv'
  BY <1>30, GateMove DEF SuspendBusy, Busy
<1>31. ASSUME GateOff PROVE Inv'
  BY <1>31, GateMove DEF GateOff
<1>32. ASSUME ResumeStart PROVE Inv'
  <2>1. ieob' = (ieob \/ (~Empty /\ ~ {"coal"} \subseteq running)) /\ "coal" \notin running
    BY <1>32 DEF ResumeStart, Start
  <2>2. ring["coal"] > 0 => ~Empty
    BY <1>d
  <2>3. ring["coal"] > 0 => ieob'
    BY ONLY <2>1, <2>2
  <2> QED
    BY <1>32, <2>3, GateMove DEF ResumeStart, Start
<1>32a. ASSUME ResumeState PROVE Inv'
  BY <1>32a, GateMove DEF ResumeState
<1>33. ASSUME ResumeEnd PROVE Inv'
  BY <1>33, GateMove DEF ResumeEnd, Start
<1>34. CASE UNCHANGED vars
  BY <1>34 DEF vars, chan, votes
<1> QED
  BY <1>1, <1>2, <1>3, <1>4, <1>4a, <1>4b, <1>5, <1>6, <1>7, <1>8, <1>9, <1>10, <1>11,
     <1>11a, <1>12, <1>13, <1>14, <1>15, <1>16, <1>17, <1>18, <1>19, <1>20, <1>21, <1>21a,
     <1>22, <1>23, <1>24, <1>25, <1>26, <1>27, <1>27a, <1>27b, <1>28, <1>29, <1>30, <1>31,
     <1>32, <1>32a, <1>33, <1>34
     DEF Next, Isr, Poll, Config, Switching, Actors

\* Where the hardware loses no interrupt, an event of the pipe is always the
\* business of a poll, of the handler, of a work or of an interrupt that will
\* come, also when ipa3_rx_poll completes because it has run out of buffers, on
\* any number of CPUs and for any capacity of the ring.
THEOREM NoEventIsForgotten == Spec => []NoEventForgotten
<1>1. Init => CountInv /\ EventInv
  BY InitCount, InitEvent
<1>2. CountInv /\ EventInv /\ [Next]_vars => (CountInv /\ EventInv)'
  BY EventStep, TypeStep, SessionStep, VotesStep, WakeStep DEF CountInv
<1>3. CountInv /\ EventInv => NoEventForgotten
  <2> SUFFICES ASSUME CountInv, EventInv, hw # "check", ring["coal"] > 0, at[Gate] = "idle"
               PROVE  Minded
    BY DEF NoEventForgotten
  <2>1. MaskInv /\ MindInv /\ TypeOK
    BY DEF EventInv, CountInv
  <2>2. Session \/ Early => isr # "idle" \/ napi # "off" \/ work # "none" \/ Working # {}
    BY DEF Session, InSession, SessionPcs, ActivePcs, TailPcs, Early, Working
  <2>3. CASE ieob
    BY <2>1, <2>2, <2>3 DEF MaskInv, StoppedPcs, TypeOK, Minded
  <2>4. CASE ~ieob
    BY <2>1, <2>2, <2>4 DEF MindInv, Minded
  <2> QED
    BY <2>3, <2>4
<1> QED
  BY <1>1, <1>2, <1>3, PTL DEF Spec
=============================================================================

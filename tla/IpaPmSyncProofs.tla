-------------------------- MODULE IpaPmSyncProofs --------------------------
(***************************************************************************)
(* Proofs about the synchronous calls of the power manager and the suspend *)
(* of the AP, when calls on one client do not overlap (Exclusive).  The    *)
(* timer and its work function run whenever they like.                     *)
(***************************************************************************)
EXTENDS IpaPmProofs

SyncOps == {"activate_sync", "deferred", "deactivate_sync", "all", "deregister"}

\* Between two clients a caller has none.
AwayPcs == {"idle", "x_next"}
SuspendPcs == {"x_next", "x_cwait", "x_lock", "x_dec", "x_bit"}
SyncPcs == AwayPcs \union SuspendPcs \union
           {"s_inc", "s_lock", "s_bit", "s_scale", "g_free",
            "d_cwait", "d_lock", "d_dec", "d_set", "d_cancel", "d_cwait2", "d_scale"}

\* Where the call on a client is, if there is one.
Where == [c \in Clients |->
            IF Busy(c) THEN call[CHOOSE t \in Callers : call[t].c = c].at ELSE "none"]

\* No caller waits for a completion, no two are at one client, and only the
\* suspend has clients behind it for which to scale.
SyncCalls ==
    /\ \A t \in Callers :
          /\ call[t].at \in SyncPcs
          /\ call[t].c = NoClient <=> call[t].at \in AwayPcs
          /\ call[t].run => call[t].at \in SuspendPcs
    /\ \A t, u \in Callers : call[t].c = call[u].c => t = u \/ call[t].c = NoClient

\* Only timers are queued and only their work function runs.
SyncQueue ==
    /\ ~warned /\ ~scaleWork /\ \A c \in Clients : ~actWork[c]
    /\ work.at \in TimerWorkPcs \union {"idle"}
    /\ work.at \in TimerWorkPcs => work.c \in Clients

\* The state of a client, by where the call on it is.
HoldInv(c) ==
    /\ ~alive[c] => st[c] = "deactivated" /\ Where[c] = "none"
    /\ st[c] \in InProgress <=> Where[c] \in {"s_inc", "s_lock"}
    /\ Where[c] \in {"s_inc", "s_lock"} => c \notin SkipVote
    /\ Where[c] \in {"d_dec", "d_set"} => st[c] \in Active
    /\ Where[c] \in {"d_cancel", "d_cwait2", "x_dec", "g_free"} => st[c] = "deactivated"

\* The timer of a client: a call that has cancelled it keeps it cancelled.
CancelInv(c) ==
    /\ Where[c] \in {"d_cwait", "x_cwait"} => ~timer[c]
    /\ Where[c] \in {"d_lock", "d_dec", "d_set", "x_lock"} => ~timer[c] /\ ~WorkAt(c, {"tmr_state"})
    /\ timer[c] \/ WorkAt(c, {"tmr_state"}) => st[c] \in Timed
    /\ timer[c] => ~WorkAt(c, {"tmr_state"})
    /\ st[c] \in Timed =>
          \/ timer[c] \/ WorkAt(c, {"tmr_state"})
          \/ Where[c] \in {"d_cwait", "d_lock", "d_dec", "d_set", "x_cwait", "x_lock"}

HeldInv(c) ==
    vote[c] = One(st[c] \in Active) + One(WorkAt(c, {"tmr_dec"}))
              + One(Where[c] \in {"s_lock", "x_dec"}) - One(Where[c] = "d_set")

AwakeInv(c) ==
    wake[c] => /\ c \in Apps /\ Where[c] # "d_set"
               /\ st[c] \in Active \/ WorkAt(c, {"tmr_dec"}) \/ Where[c] = "x_dec"

\* The inductive invariant of the synchronous calls.
SyncInv ==
    /\ SyncCalls /\ SyncQueue
    /\ \A c \in Clients :
          /\ HoldInv(c) /\ CancelInv(c) /\ AwakeInv(c)
          /\ c \notin SkipVote => HeldInv(c)

CallerDue(t) ==
    \/ call[t].at \in {"s_lock", "s_bit", "s_scale", "d_cancel", "d_cwait2", "d_scale"}
    \/ call[t].run

\* A context that has changed what is active, or taken the first vote, is on
\* its way to a scaling.
SyncDue ==
    \/ work.at \in {"tmr_dec", "tmr_bit", "tmr_scale"}
    \/ \E t \in Callers : CallerDue(t)

\* Unless a scaling is due, the aggregate is that of the active clients, or no
\* client votes.
SyncScaled == SyncDue \/ agg = ActiveClients \/ \A c \in Clients : vote[c] <= 0

-----------------------------------------------------------------------------
(* How a step of a caller moves it over the clients.                       *)

\* Where a client's call is, is where its caller is.
LEMMA WhereIs ==
    ASSUME SyncCalls, NEW t \in Callers, call[t].c \in Clients
    PROVE  Where[call[t].c] = call[t].at
<1>1. Busy(call[t].c)
  BY DEF Busy
<1>2. PICK u \in Callers : u = CHOOSE v \in Callers : call[v].c = call[t].c
  OBVIOUS
<1>3. call[u].c = call[t].c
  BY <1>2
<1>4. u = t
  BY <1>3, ClientsAssumption DEF SyncCalls
<1> QED
  BY <1>1, <1>2, <1>4 DEF Where

\* The same after a step.
LEMMA WhereIsNext ==
    ASSUME SyncCalls', NEW t \in Callers, call'[t].c \in Clients
    PROVE  Where'[call'[t].c] = call'[t].at
<1>1. Busy(call[t].c)'
  BY DEF Busy
<1>2. PICK u \in Callers : u = CHOOSE v \in Callers : call'[v].c = call'[t].c
  OBVIOUS
<1>3. call'[u].c = call'[t].c
  BY <1>2
<1>4. u = t
  BY <1>3, ClientsAssumption DEF SyncCalls
<1> QED
  BY <1>1, <1>2, <1>4 DEF Where

\* The call on one client moves, those on the others do not.
Moved(c, l) == \A d \in Clients : Where'[d] = IF d = c THEN l ELSE Where[d]

\* A caller that comes to a free client, moves on at its client or leaves it.
LEMMA WhereMoves ==
    ASSUME TypeOK, SyncCalls, NEW t \in Callers, NEW c \in Clients,
           \A u \in Callers : u # t => call'[u] = call[u],
           call[t].c = c \/ (call[t].c = NoClient /\ ~Busy(c)),
           call'[t].c = c \/ call'[t].c = NoClient,
           call'[t].at \in SyncPcs, call'[t].c = NoClient <=> call'[t].at \in AwayPcs,
           call'[t].run => call'[t].at \in SuspendPcs
    PROVE  SyncCalls' /\ Moved(c, IF call'[t].c = c THEN call'[t].at ELSE "none")
<1> USE ClientsAssumption
<1>1. \A u \in Callers : u # t => call[u].c # c
  BY DEF SyncCalls, Busy
<1>2. SyncCalls'
  <2>1. ASSUME NEW u \in Callers
        PROVE  /\ call'[u].at \in SyncPcs
               /\ call'[u].c = NoClient <=> call'[u].at \in AwayPcs
               /\ call'[u].run => call'[u].at \in SuspendPcs
    BY <2>1 DEF SyncCalls
  <2>2. ASSUME NEW u \in Callers, NEW v \in Callers, call'[u].c = call'[v].c
        PROVE  u = v \/ call'[u].c = NoClient
    BY <1>1, <2>2 DEF SyncCalls
  <2> QED
    BY <2>1, <2>2 DEF SyncCalls
<1>3. CASE call'[t].c = c
  <2>1. Where'[c] = call'[t].at
    BY <1>2, <1>3, WhereIsNext
  <2>2. ASSUME NEW d \in Clients, d # c PROVE Where'[d] = Where[d]
    <3>1. CASE Busy(d)
      <4>1. PICK u \in Callers : call[u].c = d
        BY <3>1 DEF Busy
      <4>2. call'[u] = call[u]
        BY <2>2, <4>1
      <4> QED
        BY <1>2, <4>1, <4>2, WhereIs, WhereIsNext
    <3>2. CASE ~Busy(d)
      <4>1. ~Busy(d)'
        BY <1>3, <2>2, <3>2 DEF Busy
      <4> QED
        BY <3>2, <4>1 DEF Where
    <3> QED
      BY <3>1, <3>2
  <2> QED
    BY <1>2, <1>3, <2>1, <2>2 DEF Moved
<1>4. CASE call'[t].c = NoClient
  <2>1. Where'[c] = "none"
    <3>1. ~Busy(c)'
      BY <1>1, <1>4 DEF Busy
    <3> QED
      BY <3>1 DEF Where
  <2>2. ASSUME NEW d \in Clients, d # c PROVE Where'[d] = Where[d]
    <3>1. CASE Busy(d)
      <4>1. PICK u \in Callers : call[u].c = d
        BY <3>1 DEF Busy
      <4>2. call'[u] = call[u]
        BY <2>2, <4>1
      <4> QED
        BY <1>2, <4>1, <4>2, WhereIs, WhereIsNext
    <3>2. CASE ~Busy(d)
      <4>1. ~Busy(d)'
        BY <1>4, <3>2 DEF Busy
      <4> QED
        BY <3>2, <4>1 DEF Where
    <3> QED
      BY <3>1, <3>2
  <2> QED
    BY <1>2, <1>4, <2>1, <2>2 DEF Moved
<1> QED
  BY <1>3, <1>4

\* A call starts on a free client.
LEMMA EnterMoves ==
    ASSUME TypeOK, SyncCalls, NEW t \in Callers, NEW c \in Clients, NEW l \in SyncPcs \ AwayPcs,
           call[t].at = "idle", ~Busy(c), Enter(t, c, l)
    PROVE  SyncCalls' /\ Moved(c, l) /\ Where[c] = "none"
<1>1. call[t].c = NoClient
  BY DEF SyncCalls, AwayPcs
<1>2. \A u \in Callers : u # t => call'[u] = call[u]
  BY DEF TypeOK, Enter
<1>3. call'[t].c = c /\ call'[t].at = l /\ call'[t].run = call[t].run
  BY DEF TypeOK, CallRecs, Enter
<1>4. c # NoClient /\ ~call[t].run
  BY ClientsAssumption DEF SyncCalls, SuspendPcs
<1>5. Where[c] = "none"
  BY DEF Where
<1> QED
  BY <1>1, <1>2, <1>3, <1>4, <1>5, WhereMoves

\* A call goes on at its client.
LEMMA GotoMoves ==
    ASSUME TypeOK, SyncCalls, NEW t \in Callers, NEW l \in SyncPcs \ AwayPcs,
           call[t].at \notin AwayPcs, call[t].at \in SuspendPcs => l \in SuspendPcs, Goto(t, l)
    PROVE  /\ call[t].c \in Clients /\ Where[call[t].c] = call[t].at
           /\ SyncCalls' /\ Moved(call[t].c, l)
<1>1. call[t].c \in Clients
  BY DEF TypeOK, CallRecs, SyncCalls
<1>2. \A u \in Callers : u # t => call'[u] = call[u]
  BY DEF TypeOK, Goto
<1>3. call'[t].c = call[t].c /\ call'[t].at = l /\ call'[t].run = call[t].run
  BY DEF TypeOK, CallRecs, Goto
<1>4. call[t].c # NoClient /\ (call[t].run => l \in SuspendPcs)
  BY <1>1, ClientsAssumption DEF SyncCalls
<1> QED
  BY <1>1, <1>2, <1>3, <1>4, WhereMoves, WhereIs

\* A call lets go of its client.
LEMMA LeaveMoves ==
    ASSUME TypeOK, SyncCalls, NEW t \in Callers,
           call[t].at \notin AwayPcs, Return(t) \/ Continue(t)
    PROVE  /\ call[t].c \in Clients /\ Where[call[t].c] = call[t].at
           /\ SyncCalls' /\ Moved(call[t].c, "none")
<1>1. call[t].c \in Clients /\ call[t].c # NoClient
  BY ClientsAssumption DEF TypeOK, CallRecs, SyncCalls
<1>2. \A u \in Callers : u # t => call'[u] = call[u]
  BY DEF TypeOK, Return, Continue
<1>3. /\ call'[t].c = NoClient /\ call'[t].at \in AwayPcs
      /\ call'[t].run => call'[t].at \in SuspendPcs
  <2>1. CASE Return(t)
    BY <2>1 DEF TypeOK, Return, NoCall, AwayPcs
  <2>2. CASE Continue(t)
    BY <2>2 DEF TypeOK, CallRecs, Continue, AwayPcs, SuspendPcs
  <2> QED
    BY <2>1, <2>2
<1>4. call'[t].at \in SyncPcs
  BY <1>3 DEF SyncPcs
<1> QED
  BY <1>1, <1>2, <1>3, <1>4, WhereMoves, WhereIs

\* The suspend comes to a free client, or goes on at its client.
LEMMA AllMoves ==
    ASSUME TypeOK, SyncCalls, NEW t \in Callers, NEW c \in Clients, NEW l \in SuspendPcs \ AwayPcs,
           NEW q, NEW r, call[t].c = c \/ (call[t].c = NoClient /\ ~Busy(c)), AllAt(t, l, c, q, r)
    PROVE  SyncCalls' /\ Moved(c, l)
<1>1. \A u \in Callers : u # t => call'[u] = call[u]
  BY DEF TypeOK, AllAt
<1>2. call'[t].c = c /\ call'[t].at = l
  BY DEF TypeOK, AllAt
<1>3. c # NoClient /\ l \in SyncPcs
  BY ClientsAssumption DEF SyncPcs
<1> QED
  BY <1>1, <1>2, <1>3, WhereMoves

\* Nobody comes to a client or leaves one.
Still == \A d \in Clients : Where'[d] = Where[d]

\* A caller that is at no client starts or ends its call, or nobody moves.
LEMMA AwayMoves ==
    ASSUME TypeOK, SyncCalls,
           \/ UNCHANGED call
           \/ \E t \in Callers :
                 /\ call[t].at \in AwayPcs
                 /\ Return(t) \/ AllAt(t, "x_next", NoClient, Clients, FALSE)
    PROVE  SyncCalls' /\ Still
<1>1. CASE UNCHANGED call
  BY <1>1 DEF SyncCalls, Still, Where, Busy
<1>2. ASSUME NEW t \in Callers, call[t].at \in AwayPcs,
             Return(t) \/ AllAt(t, "x_next", NoClient, Clients, FALSE)
      PROVE  SyncCalls' /\ Still
  <2>1. \A u \in Callers : u # t => call'[u] = call[u]
    BY <1>2 DEF TypeOK, Return, AllAt
  <2>2. /\ call'[t].c = NoClient /\ call'[t].at \in AwayPcs
        /\ call'[t].run => call'[t].at \in SuspendPcs
    BY <1>2 DEF TypeOK, Return, NoCall, AllAt, AwayPcs
  <2>3. call[t].c = NoClient
    BY <1>2 DEF SyncCalls
  <2>4. SyncCalls'
    <3>1. ASSUME NEW u \in Callers
          PROVE  /\ call'[u].at \in SyncPcs
                 /\ call'[u].c = NoClient <=> call'[u].at \in AwayPcs
                 /\ call'[u].run => call'[u].at \in SuspendPcs
      BY <2>1, <2>2, <3>1 DEF SyncCalls, SyncPcs
    <3>2. ASSUME NEW u \in Callers, NEW v \in Callers, call'[u].c = call'[v].c
          PROVE  u = v \/ call'[u].c = NoClient
      BY <2>1, <2>2, <3>2 DEF SyncCalls
    <3> QED
      BY <3>1, <3>2 DEF SyncCalls
  <2>5. ASSUME NEW d \in Clients PROVE Where'[d] = Where[d]
    <3>1. CASE Busy(d)
      <4>1. PICK u \in Callers : call[u].c = d
        BY <3>1 DEF Busy
      <4>2. call'[u] = call[u]
        BY <2>1, <2>3, <4>1, ClientsAssumption
      <4> QED
        BY <2>4, <4>1, <4>2, WhereIs, WhereIsNext
    <3>2. CASE ~Busy(d)
      <4>1. ~Busy(d)'
        BY <2>1, <2>2, <3>2, ClientsAssumption DEF Busy
      <4> QED
        BY <3>2, <4>1 DEF Where
    <3> QED
      BY <3>1, <3>2
  <2> QED
    BY <2>4, <2>5 DEF Still
<1> QED
  BY <1>1, <1>2

-----------------------------------------------------------------------------
(* The invariant.                                                          *)

\* While only these calls are made, one at a time on a client, a step is one
\* of these.
SyncNext ==
    \/ \E c \in Clients : Register(c) \/ TimerWork(c)
    \/ \E t \in Callers, c \in Clients :
          \/ Deregister(t, c) \/ ActivateSync(t, c) \/ DeferredDeactivate(t, c)
          \/ DeactivateSync(t, c) \/ AllNext(t, c)
    \/ \E t \in Callers :
          \/ AllDeferred(t) \/ DeregisterFree(t)
          \/ SyncInc(t) \/ SyncLock(t) \/ SyncBit(t) \/ SyncScale(t)
          \/ DeactivateCheck(t) \/ DeactivateLock(t) \/ DeactivateDec(t)
          \/ DeactivateSet(t) \/ DeactivateCancel(t) \/ DeactivateBit(t)
          \/ AllCheck(t) \/ AllLock(t) \/ AllDec(t) \/ AllBit(t) \/ AllDone(t)
    \/ TimerWorkState \/ TimerWorkDec \/ TimerWorkBit \/ WorkScale

\* No asynchronous activation starts, and nobody waits.
LEMMA SyncCases ==
    ASSUME Ops \subseteq SyncOps, SyncCalls, SyncQueue, Next
    PROVE  SyncNext
<1> USE DEF SyncCalls, SyncQueue, SyncPcs, SuspendPcs, AwayPcs, SyncOps
<1>1. ASSUME NEW t \in Callers, NEW c \in Clients
      PROVE  ~ActivateAgain(t, c) /\ ~ActivateNow(t, c) /\ ~ActivateLater(t, c)
  BY DEF ActivateAgain, ActivateNow, ActivateLater, MayCall
<1>2. ASSUME NEW t \in Callers
      PROVE  ~DeregisterCheck(t) /\ ~ActivateNowBit(t) /\ ~SyncSwitch(t) /\ ~WaitComplete(t)
  BY DEF DeregisterCheck, ActivateNowBit, SyncSwitch, WaitComplete, WaitPcs
<1>3. ASSUME NEW c \in Clients PROVE ~ActivateWork(c)
  BY DEF ActivateWork
<1>4. /\ ~ScaleWork /\ ~ActivateWorkInc /\ ~ActivateWorkState /\ ~ActivateWorkComplete
      /\ ~ActivateWorkDec /\ ~ActivateWorkBit
  BY DEF ScaleWork, ActivateWorkInc, ActivateWorkState, ActivateWorkComplete, ActivateWorkDec,
         ActivateWorkBit, TimerWorkPcs
<1> HIDE DEF SyncCalls, SyncQueue, SyncPcs, SuspendPcs, AwayPcs, SyncOps
<1> QED
  BY <1>1, <1>2, <1>3, <1>4 DEF Next, ApiCall, CallStep, WorkStart, WorkStep, SyncNext

\* The invariant of the synchronous calls holds at first.
LEMMA SyncInit == Init => SyncInv
<1> SUFFICES ASSUME Init PROVE SyncInv
  OBVIOUS
<1>1. \A t \in Callers : call[t] = NoCall
  BY DEF Init
<1>2. SyncCalls
  BY <1>1 DEF SyncCalls, NoCall, SyncPcs, SuspendPcs, AwayPcs
<1>3. \A c \in Clients : Where[c] = "none"
  BY <1>1, ClientsAssumption DEF Where, Busy, NoCall
<1>4. SyncQueue
  BY DEF Init, All, SyncQueue, NoWork, TimerWorkPcs
<1>5. ASSUME NEW c \in Clients
      PROVE  HoldInv(c) /\ CancelInv(c) /\ AwakeInv(c) /\ HeldInv(c)
  BY <1>3 DEF Init, All, NoWork, HoldInv, CancelInv, AwakeInv, HeldInv, One, WorkAt, Active,
              Timed, InProgress
<1> QED
  BY <1>2, <1>4, <1>5 DEF SyncInv

\* Every step of the synchronous calls keeps it.
LEMMA SyncStep ==
    ASSUME Ops \subseteq SyncOps, Exclusive, TypeOK, SyncInv, [Next]_vars
    PROVE  SyncInv'
<1> USE ClientsAssumption
    DEF TypeOK, HoldInv, CancelInv, AwakeInv, HeldInv, One, WorkAt, Active, Timed, InProgress,
        States, TimerWorkPcs, client, queue, held, scaled
<1>a. SyncCalls /\ SyncQueue
  BY DEF SyncInv
<1>b. \A c \in Clients : /\ HoldInv(c) /\ CancelInv(c) /\ AwakeInv(c)
                         /\ c \notin SkipVote => HeldInv(c)
  BY DEF SyncInv
<1>c. \A c \in SkipVote : c \notin Apps
  BY GroupsAssumption
<1>1. ASSUME NEW c \in Clients, Register(c) PROVE SyncInv'
  <2>1. SyncCalls' /\ Still
    BY <1>a, <1>1, AwayMoves DEF Register
  <2>2. SyncQueue'
    BY <1>a, <1>b, <1>1 DEF SyncQueue, Register, SetState
  <2>3. ASSUME NEW d \in Clients PROVE HoldInv(d)'
    BY <1>a, <1>b, <1>c, <1>1, <2>1, <2>3 DEF Moved, Still, SyncQueue, Register, SetState
  <2>4. ASSUME NEW d \in Clients PROVE CancelInv(d)'
    BY <1>a, <1>b, <1>c, <1>1, <2>1, <2>4 DEF Moved, Still, SyncQueue, Register, SetState
  <2>5. ASSUME NEW d \in Clients PROVE AwakeInv(d)'
    BY <1>a, <1>b, <1>c, <1>1, <2>1, <2>5 DEF Moved, Still, SyncQueue, Register, SetState
  <2>6. ASSUME NEW d \in Clients, d \notin SkipVote PROVE HeldInv(d)'
    BY <1>a, <1>b, <1>c, <1>1, <2>1, <2>6 DEF Moved, Still, SyncQueue, Register, SetState
  <2> QED
    BY <2>1, <2>2, <2>3, <2>4, <2>5, <2>6 DEF SyncInv
<1>2. ASSUME NEW c \in Clients, TimerWork(c) PROVE SyncInv'
  <2>1. SyncCalls' /\ Still
    BY <1>a, <1>2, AwayMoves DEF TimerWork
  <2>2. SyncQueue'
    BY <1>a, <1>b, <1>2 DEF SyncQueue, TimerWork
  <2>3. ASSUME NEW d \in Clients PROVE HoldInv(d)'
    BY <1>a, <1>b, <1>c, <1>2, <2>1, <2>3 DEF Moved, Still, SyncQueue, TimerWork
  <2>4. ASSUME NEW d \in Clients PROVE CancelInv(d)'
    BY <1>a, <1>b, <1>c, <1>2, <2>1, <2>4 DEF Moved, Still, SyncQueue, TimerWork
  <2>5. ASSUME NEW d \in Clients PROVE AwakeInv(d)'
    BY <1>a, <1>b, <1>c, <1>2, <2>1, <2>5 DEF Moved, Still, SyncQueue, TimerWork
  <2>6. ASSUME NEW d \in Clients, d \notin SkipVote PROVE HeldInv(d)'
    BY <1>a, <1>b, <1>c, <1>2, <2>1, <2>6 DEF Moved, Still, SyncQueue, TimerWork
  <2> QED
    BY <2>1, <2>2, <2>3, <2>4, <2>5, <2>6 DEF SyncInv
<1>3. ASSUME NEW t \in Callers, NEW c \in Clients, Deregister(t, c) PROVE SyncInv'
  <2>1. /\ SyncCalls' /\ Where[c] = "none" /\ alive[c]
        /\ Still \/ (Moved(c, "g_free") /\ st[c] = "deactivated")
    <3>1. call[t].at = "idle" /\ ~Busy(c) /\ alive[c]
      BY <1>3 DEF Deregister, MayCall
    <3>2. Where[c] = "none"
      BY <3>1 DEF Where
    <3>3. st[c] \notin InProgress
      BY <1>b, <3>2
    <3>4. CASE Return(t)
      BY <1>a, <3>1, <3>2, <3>4, AwayMoves DEF AwayPcs
    <3>5. CASE Enter(t, c, "g_free") /\ st[c] = "deactivated"
      BY <1>a, <3>1, <3>2, <3>5, EnterMoves DEF SyncPcs, AwayPcs
    <3> QED
      BY <1>3, <3>3, <3>4, <3>5 DEF Deregister, DeregisterTest
  <2>2. SyncQueue'
    BY <1>a, <1>b, <1>3 DEF SyncQueue, Deregister, MayCall
  <2>3. ASSUME NEW d \in Clients PROVE HoldInv(d)'
    BY <1>a, <1>b, <1>c, <1>3, <2>1, <2>3 DEF Moved, Still, SyncQueue, Deregister, MayCall
  <2>4. ASSUME NEW d \in Clients PROVE CancelInv(d)'
    BY <1>a, <1>b, <1>c, <1>3, <2>1, <2>4 DEF Moved, Still, SyncQueue, Deregister, MayCall
  <2>5. ASSUME NEW d \in Clients PROVE AwakeInv(d)'
    BY <1>a, <1>b, <1>c, <1>3, <2>1, <2>5 DEF Moved, Still, SyncQueue, Deregister, MayCall
  <2>6. ASSUME NEW d \in Clients, d \notin SkipVote PROVE HeldInv(d)'
    BY <1>a, <1>b, <1>c, <1>3, <2>1, <2>6 DEF Moved, Still, SyncQueue, Deregister, MayCall
  <2> QED
    BY <2>1, <2>2, <2>3, <2>4, <2>5, <2>6 DEF SyncInv
<1>4. ASSUME NEW t \in Callers, NEW c \in Clients, ActivateSync(t, c) PROVE SyncInv'
  <2>1. /\ SyncCalls' /\ Where[c] = "none" /\ alive[c]
        /\ \/ st[c] \in Active /\ SetState(c, Reactivated(st[c])) /\ Still
           \/ /\ st[c] = "deactivated" /\ c \notin SkipVote
              /\ SetState(c, "act_progress") /\ Moved(c, "s_inc")
           \/ /\ st[c] = "deactivated" /\ c \in SkipVote
              /\ SetState(c, "activated") /\ Moved(c, "s_bit")
    <3>1. call[t].at = "idle" /\ ~Busy(c) /\ alive[c]
      BY <1>4 DEF ActivateSync, MayCall
    <3>2. Where[c] = "none"
      BY <3>1 DEF Where
    <3>3. st[c] \notin InProgress
      BY <1>b, <3>2
    <3>4. CASE st[c] \in Active /\ SetState(c, Reactivated(st[c])) /\ Return(t)
      BY <1>a, <3>1, <3>2, <3>4, AwayMoves DEF AwayPcs
    <3>5. CASE st[c] = "deactivated" /\ c \notin SkipVote /\ SetState(c, "act_progress")
               /\ Enter(t, c, "s_inc")
      BY <1>a, <3>1, <3>2, <3>5, EnterMoves DEF SyncPcs, AwayPcs
    <3>6. CASE st[c] = "deactivated" /\ c \in SkipVote /\ SetState(c, "activated")
               /\ Enter(t, c, "s_bit")
      BY <1>a, <3>1, <3>2, <3>6, EnterMoves DEF SyncPcs, AwayPcs
    <3> QED
      BY <1>4, <3>3, <3>4, <3>5, <3>6 DEF ActivateSync, SyncOn
  <2>2. SyncQueue'
    BY <1>a, <1>b, <1>4 DEF SyncQueue, ActivateSync, SetState, Reactivated
  <2>3. ASSUME NEW d \in Clients PROVE HoldInv(d)'
    BY <1>a, <1>b, <1>c, <1>4, <2>1, <2>3
       DEF Moved, Still, SyncQueue, ActivateSync, SetState, Reactivated
  <2>4. ASSUME NEW d \in Clients PROVE CancelInv(d)'
    BY <1>a, <1>b, <1>c, <1>4, <2>1, <2>4
       DEF Moved, Still, SyncQueue, ActivateSync, SetState, Reactivated
  <2>5. ASSUME NEW d \in Clients PROVE AwakeInv(d)'
    BY <1>a, <1>b, <1>c, <1>4, <2>1, <2>5
       DEF Moved, Still, SyncQueue, ActivateSync, SetState, Reactivated
  <2>6. ASSUME NEW d \in Clients, d \notin SkipVote PROVE HeldInv(d)'
    BY <1>a, <1>b, <1>c, <1>4, <2>1, <2>6
       DEF Moved, Still, SyncQueue, ActivateSync, SetState, Reactivated
  <2> QED
    BY <2>1, <2>2, <2>3, <2>4, <2>5, <2>6 DEF SyncInv
<1>5. ASSUME NEW t \in Callers, NEW c \in Clients, DeferredDeactivate(t, c) PROVE SyncInv'
  <2>1. /\ SyncCalls' /\ Still /\ Where[c] = "none" /\ alive[c]
        /\ IF st[c] = "activated" THEN timer' = [timer EXCEPT ![c] = TRUE] ELSE UNCHANGED timer
    <3>1. call[t].at = "idle" /\ ~Busy(c) /\ alive[c]
      BY <1>5 DEF DeferredDeactivate, MayCall
    <3>2. Where[c] = "none"
      BY <3>1 DEF Where
    <3>3. SyncCalls' /\ Still
      BY <1>a, <1>5, AwayMoves DEF DeferredDeactivate
    <3>4. QueueTimer(c) => timer' = [timer EXCEPT ![c] = TRUE]
      BY <3>1 DEF Busy, QueueTimer
    <3> QED
      BY <1>5, <3>1, <3>2, <3>3, <3>4 DEF DeferredDeactivate
  <2>2. SyncQueue'
    BY <1>a, <1>b, <1>5 DEF SyncQueue, DeferredDeactivate, SetState, Deferred
  <2>3. ASSUME NEW d \in Clients PROVE HoldInv(d)'
    BY <1>a, <1>b, <1>c, <1>5, <2>1, <2>3
       DEF Moved, Still, SyncQueue, DeferredDeactivate, SetState, Deferred
  <2>4. ASSUME NEW d \in Clients PROVE CancelInv(d)'
    BY <1>a, <1>b, <1>c, <1>5, <2>1, <2>4
       DEF Moved, Still, SyncQueue, DeferredDeactivate, SetState, Deferred
  <2>5. ASSUME NEW d \in Clients PROVE AwakeInv(d)'
    BY <1>a, <1>b, <1>c, <1>5, <2>1, <2>5
       DEF Moved, Still, SyncQueue, DeferredDeactivate, SetState, Deferred
  <2>6. ASSUME NEW d \in Clients, d \notin SkipVote PROVE HeldInv(d)'
    BY <1>a, <1>b, <1>c, <1>5, <2>1, <2>6
       DEF Moved, Still, SyncQueue, DeferredDeactivate, SetState, Deferred
  <2> QED
    BY <2>1, <2>2, <2>3, <2>4, <2>5, <2>6 DEF SyncInv
<1>6. ASSUME NEW t \in Callers, NEW c \in Clients, DeactivateSync(t, c) PROVE SyncInv'
  <2>1. SyncCalls' /\ Moved(c, "d_cwait") /\ Where[c] = "none" /\ alive[c]
    <3>1. call[t].at = "idle" /\ ~Busy(c) /\ Enter(t, c, "d_cwait") /\ alive[c]
      BY <1>6 DEF DeactivateSync, MayCall
    <3> QED
      BY <1>a, <3>1, EnterMoves DEF SyncPcs, AwayPcs
  <2>2. SyncQueue'
    BY <1>a, <1>b, <1>6 DEF SyncQueue, DeactivateSync, CancelTimer
  <2>3. ASSUME NEW d \in Clients PROVE HoldInv(d)'
    BY <1>a, <1>b, <1>c, <1>6, <2>1, <2>3 DEF Moved, Still, SyncQueue, DeactivateSync, CancelTimer
  <2>4. ASSUME NEW d \in Clients PROVE CancelInv(d)'
    BY <1>a, <1>b, <1>c, <1>6, <2>1, <2>4 DEF Moved, Still, SyncQueue, DeactivateSync, CancelTimer
  <2>5. ASSUME NEW d \in Clients PROVE AwakeInv(d)'
    BY <1>a, <1>b, <1>c, <1>6, <2>1, <2>5 DEF Moved, Still, SyncQueue, DeactivateSync, CancelTimer
  <2>6. ASSUME NEW d \in Clients, d \notin SkipVote PROVE HeldInv(d)'
    BY <1>a, <1>b, <1>c, <1>6, <2>1, <2>6 DEF Moved, Still, SyncQueue, DeactivateSync, CancelTimer
  <2> QED
    BY <2>1, <2>2, <2>3, <2>4, <2>5, <2>6 DEF SyncInv
<1>7. ASSUME NEW t \in Callers, NEW c \in Clients, AllNext(t, c) PROVE SyncInv'
  <2>1. SyncCalls' /\ Moved(c, "x_cwait") /\ Where[c] = "none" /\ alive[c]
    <3>1. call[t].c = NoClient /\ ~Busy(c) /\ alive[c]
      BY <1>a, <1>7 DEF AllNext, SyncCalls, AwayPcs
    <3>2. Where[c] = "none"
      BY <3>1 DEF Where
    <3>3. AllAt(t, "x_cwait", c, call[t].rem \ {c}, call[t].run)
      BY <1>7 DEF AllNext
    <3>4. "x_cwait" \in SuspendPcs \ AwayPcs
      BY DEF SuspendPcs, AwayPcs
    <3> QED
      BY <1>a, <3>1, <3>2, <3>3, <3>4, AllMoves
  <2>2. SyncQueue'
    BY <1>a, <1>b, <1>7 DEF SyncQueue, AllNext, CancelTimer
  <2>3. ASSUME NEW d \in Clients PROVE HoldInv(d)'
    BY <1>a, <1>b, <1>c, <1>7, <2>1, <2>3 DEF Moved, Still, SyncQueue, AllNext, CancelTimer
  <2>4. ASSUME NEW d \in Clients PROVE CancelInv(d)'
    BY <1>a, <1>b, <1>c, <1>7, <2>1, <2>4 DEF Moved, Still, SyncQueue, AllNext, CancelTimer
  <2>5. ASSUME NEW d \in Clients PROVE AwakeInv(d)'
    BY <1>a, <1>b, <1>c, <1>7, <2>1, <2>5 DEF Moved, Still, SyncQueue, AllNext, CancelTimer
  <2>6. ASSUME NEW d \in Clients, d \notin SkipVote PROVE HeldInv(d)'
    BY <1>a, <1>b, <1>c, <1>7, <2>1, <2>6 DEF Moved, Still, SyncQueue, AllNext, CancelTimer
  <2> QED
    BY <2>1, <2>2, <2>3, <2>4, <2>5, <2>6 DEF SyncInv
<1>8. ASSUME NEW t \in Callers, AllDeferred(t) PROVE SyncInv'
  <2>1. SyncCalls' /\ Still
    BY <1>a, <1>8, AwayMoves DEF AllDeferred, AwayPcs
  <2>2. SyncQueue'
    BY <1>a, <1>b, <1>8 DEF SyncQueue, AllDeferred
  <2>3. ASSUME NEW d \in Clients PROVE HoldInv(d)'
    BY <1>a, <1>b, <1>c, <1>8, <2>1, <2>3 DEF Moved, Still, SyncQueue, AllDeferred
  <2>4. ASSUME NEW d \in Clients PROVE CancelInv(d)'
    BY <1>a, <1>b, <1>c, <1>8, <2>1, <2>4 DEF Moved, Still, SyncQueue, AllDeferred
  <2>5. ASSUME NEW d \in Clients PROVE AwakeInv(d)'
    BY <1>a, <1>b, <1>c, <1>8, <2>1, <2>5 DEF Moved, Still, SyncQueue, AllDeferred
  <2>6. ASSUME NEW d \in Clients, d \notin SkipVote PROVE HeldInv(d)'
    BY <1>a, <1>b, <1>c, <1>8, <2>1, <2>6 DEF Moved, Still, SyncQueue, AllDeferred
  <2> QED
    BY <2>1, <2>2, <2>3, <2>4, <2>5, <2>6 DEF SyncInv
<1>9. ASSUME NEW t \in Callers, DeregisterFree(t) PROVE SyncInv'
  <2>1. /\ call[t].c \in Clients /\ Where[call[t].c] = "g_free"
        /\ SyncCalls' /\ Moved(call[t].c, "none")
    BY <1>a, <1>9, LeaveMoves DEF DeregisterFree, AwayPcs
  <2>2. SyncQueue'
    BY <1>a, <1>b, <1>9 DEF SyncQueue, DeregisterFree
  <2>3. ASSUME NEW d \in Clients PROVE HoldInv(d)'
    BY <1>a, <1>b, <1>c, <1>9, <2>1, <2>3 DEF Moved, Still, SyncQueue, DeregisterFree
  <2>4. ASSUME NEW d \in Clients PROVE CancelInv(d)'
    BY <1>a, <1>b, <1>c, <1>9, <2>1, <2>4 DEF Moved, Still, SyncQueue, DeregisterFree
  <2>5. ASSUME NEW d \in Clients PROVE AwakeInv(d)'
    BY <1>a, <1>b, <1>c, <1>9, <2>1, <2>5 DEF Moved, Still, SyncQueue, DeregisterFree
  <2>6. ASSUME NEW d \in Clients, d \notin SkipVote PROVE HeldInv(d)'
    BY <1>a, <1>b, <1>c, <1>9, <2>1, <2>6 DEF Moved, Still, SyncQueue, DeregisterFree
  <2> QED
    BY <2>1, <2>2, <2>3, <2>4, <2>5, <2>6 DEF SyncInv
<1>10. ASSUME NEW t \in Callers, SyncInc(t) PROVE SyncInv'
  <2>1. /\ call[t].c \in Clients /\ Where[call[t].c] = "s_inc"
        /\ SyncCalls' /\ Moved(call[t].c, "s_lock")
    BY <1>a, <1>10, GotoMoves DEF SyncInc, SyncPcs, SuspendPcs, AwayPcs
  <2>2. SyncQueue'
    BY <1>a, <1>b, <1>10 DEF SyncQueue, SyncInc, Inc
  <2>3. ASSUME NEW d \in Clients PROVE HoldInv(d)'
    BY <1>a, <1>b, <1>c, <1>10, <2>1, <2>3 DEF Moved, Still, SyncQueue, SyncInc, Inc
  <2>4. ASSUME NEW d \in Clients PROVE CancelInv(d)'
    BY <1>a, <1>b, <1>c, <1>10, <2>1, <2>4 DEF Moved, Still, SyncQueue, SyncInc, Inc
  <2>5. ASSUME NEW d \in Clients PROVE AwakeInv(d)'
    BY <1>a, <1>b, <1>c, <1>10, <2>1, <2>5 DEF Moved, Still, SyncQueue, SyncInc, Inc
  <2>6. ASSUME NEW d \in Clients, d \notin SkipVote PROVE HeldInv(d)'
    BY <1>a, <1>b, <1>c, <1>10, <2>1, <2>6 DEF Moved, Still, SyncQueue, SyncInc, Inc
  <2> QED
    BY <2>1, <2>2, <2>3, <2>4, <2>5, <2>6 DEF SyncInv
<1>11. ASSUME NEW t \in Callers, SyncLock(t) PROVE SyncInv'
  <2>1. /\ call[t].c \in Clients /\ Where[call[t].c] = "s_lock"
        /\ SyncCalls' /\ Moved(call[t].c, "s_bit")
    BY <1>a, <1>11, GotoMoves DEF SyncLock, SyncPcs, SuspendPcs, AwayPcs
  <2>2. SyncQueue'
    BY <1>a, <1>b, <1>11 DEF SyncQueue, SyncLock, SetState, StayAwake
  <2>3. ASSUME NEW d \in Clients PROVE HoldInv(d)'
    BY <1>a, <1>b, <1>c, <1>11, <2>1, <2>3
       DEF Moved, Still, SyncQueue, SyncLock, SetState, StayAwake
  <2>4. ASSUME NEW d \in Clients PROVE CancelInv(d)'
    BY <1>a, <1>b, <1>c, <1>11, <2>1, <2>4
       DEF Moved, Still, SyncQueue, SyncLock, SetState, StayAwake
  <2>5. ASSUME NEW d \in Clients PROVE AwakeInv(d)'
    BY <1>a, <1>b, <1>c, <1>11, <2>1, <2>5
       DEF Moved, Still, SyncQueue, SyncLock, SetState, StayAwake
  <2>6. ASSUME NEW d \in Clients, d \notin SkipVote PROVE HeldInv(d)'
    BY <1>a, <1>b, <1>c, <1>11, <2>1, <2>6
       DEF Moved, Still, SyncQueue, SyncLock, SetState, StayAwake
  <2> QED
    BY <2>1, <2>2, <2>3, <2>4, <2>5, <2>6 DEF SyncInv
<1>12. ASSUME NEW t \in Callers, SyncBit(t) PROVE SyncInv'
  <2>1. /\ call[t].c \in Clients /\ Where[call[t].c] = "s_bit"
        /\ SyncCalls' /\ Moved(call[t].c, "s_scale")
    BY <1>a, <1>12, GotoMoves DEF SyncBit, SyncPcs, SuspendPcs, AwayPcs
  <2>2. SyncQueue'
    BY <1>a, <1>b, <1>12 DEF SyncQueue, SyncBit
  <2>3. ASSUME NEW d \in Clients PROVE HoldInv(d)'
    BY <1>a, <1>b, <1>c, <1>12, <2>1, <2>3 DEF Moved, Still, SyncQueue, SyncBit
  <2>4. ASSUME NEW d \in Clients PROVE CancelInv(d)'
    BY <1>a, <1>b, <1>c, <1>12, <2>1, <2>4 DEF Moved, Still, SyncQueue, SyncBit
  <2>5. ASSUME NEW d \in Clients PROVE AwakeInv(d)'
    BY <1>a, <1>b, <1>c, <1>12, <2>1, <2>5 DEF Moved, Still, SyncQueue, SyncBit
  <2>6. ASSUME NEW d \in Clients, d \notin SkipVote PROVE HeldInv(d)'
    BY <1>a, <1>b, <1>c, <1>12, <2>1, <2>6 DEF Moved, Still, SyncQueue, SyncBit
  <2> QED
    BY <2>1, <2>2, <2>3, <2>4, <2>5, <2>6 DEF SyncInv
<1>13. ASSUME NEW t \in Callers, SyncScale(t) PROVE SyncInv'
  <2>1. /\ call[t].c \in Clients /\ Where[call[t].c] \in {"s_scale", "d_scale"}
        /\ SyncCalls' /\ Moved(call[t].c, "none")
    BY <1>a, <1>13, LeaveMoves DEF SyncScale, AwayPcs
  <2>2. SyncQueue'
    BY <1>a, <1>b, <1>13 DEF SyncQueue, SyncScale
  <2>3. ASSUME NEW d \in Clients PROVE HoldInv(d)'
    BY <1>a, <1>b, <1>c, <1>13, <2>1, <2>3 DEF Moved, Still, SyncQueue, SyncScale
  <2>4. ASSUME NEW d \in Clients PROVE CancelInv(d)'
    BY <1>a, <1>b, <1>c, <1>13, <2>1, <2>4 DEF Moved, Still, SyncQueue, SyncScale
  <2>5. ASSUME NEW d \in Clients PROVE AwakeInv(d)'
    BY <1>a, <1>b, <1>c, <1>13, <2>1, <2>5 DEF Moved, Still, SyncQueue, SyncScale
  <2>6. ASSUME NEW d \in Clients, d \notin SkipVote PROVE HeldInv(d)'
    BY <1>a, <1>b, <1>c, <1>13, <2>1, <2>6 DEF Moved, Still, SyncQueue, SyncScale
  <2> QED
    BY <2>1, <2>2, <2>3, <2>4, <2>5, <2>6 DEF SyncInv
<1>14. ASSUME NEW t \in Callers, DeactivateCheck(t) PROVE SyncInv'
  <2>1. /\ call[t].c \in Clients /\ Where[call[t].c] = "d_cwait"
        /\ SyncCalls' /\ Moved(call[t].c, "d_lock")
    <3>1. call[t].at = "d_cwait" /\ call[t].c \in Clients
      BY <1>a, <1>14 DEF DeactivateCheck, SyncCalls, AwayPcs, CallRecs
    <3>2. st[call[t].c] \notin InProgress
      BY <1>a, <1>b, <3>1, WhereIs
    <3>3. Goto(t, "d_lock")
      BY <1>14, <3>2 DEF DeactivateCheck
    <3> QED
      BY <1>a, <3>1, <3>3, GotoMoves DEF SyncPcs, SuspendPcs, AwayPcs
  <2>2. SyncQueue'
    BY <1>a, <1>b, <1>14 DEF SyncQueue, DeactivateCheck, TimerRunning
  <2>3. ASSUME NEW d \in Clients PROVE HoldInv(d)'
    BY <1>a, <1>b, <1>c, <1>14, <2>1, <2>3
       DEF Moved, Still, SyncQueue, DeactivateCheck, TimerRunning
  <2>4. ASSUME NEW d \in Clients PROVE CancelInv(d)'
    BY <1>a, <1>b, <1>c, <1>14, <2>1, <2>4
       DEF Moved, Still, SyncQueue, DeactivateCheck, TimerRunning
  <2>5. ASSUME NEW d \in Clients PROVE AwakeInv(d)'
    BY <1>a, <1>b, <1>c, <1>14, <2>1, <2>5
       DEF Moved, Still, SyncQueue, DeactivateCheck, TimerRunning
  <2>6. ASSUME NEW d \in Clients, d \notin SkipVote PROVE HeldInv(d)'
    BY <1>a, <1>b, <1>c, <1>14, <2>1, <2>6
       DEF Moved, Still, SyncQueue, DeactivateCheck, TimerRunning
  <2> QED
    BY <2>1, <2>2, <2>3, <2>4, <2>5, <2>6 DEF SyncInv
<1>15. ASSUME NEW t \in Callers, DeactivateLock(t) PROVE SyncInv'
  <2>1. /\ call[t].c \in Clients /\ Where[call[t].c] = "d_lock" /\ SyncCalls'
        /\ \/ st[call[t].c] = "deactivated" /\ Moved(call[t].c, "none")
           \/ st[call[t].c] \in Active /\ Moved(call[t].c, "d_dec")
    <3>1. call[t].at = "d_lock" /\ call[t].c \in Clients
      BY <1>a, <1>15 DEF DeactivateLock, SyncCalls, AwayPcs, CallRecs
    <3>2. st[call[t].c] \notin InProgress
      BY <1>a, <1>b, <3>1, WhereIs
    <3>3. CASE st[call[t].c] = "deactivated"
      BY <1>a, <1>15, <3>1, <3>3, LeaveMoves DEF DeactivateLock, SyncPcs, AwayPcs
    <3>4. CASE st[call[t].c] # "deactivated"
      BY <1>a, <1>15, <3>1, <3>2, <3>4, GotoMoves DEF DeactivateLock, SyncPcs, SuspendPcs, AwayPcs
    <3> QED
      BY <3>3, <3>4
  <2>2. SyncQueue'
    BY <1>a, <1>b, <1>15 DEF SyncQueue, DeactivateLock
  <2>3. ASSUME NEW d \in Clients PROVE HoldInv(d)'
    BY <1>a, <1>b, <1>c, <1>15, <2>1, <2>3 DEF Moved, Still, SyncQueue, DeactivateLock
  <2>4. ASSUME NEW d \in Clients PROVE CancelInv(d)'
    BY <1>a, <1>b, <1>c, <1>15, <2>1, <2>4 DEF Moved, Still, SyncQueue, DeactivateLock
  <2>5. ASSUME NEW d \in Clients PROVE AwakeInv(d)'
    BY <1>a, <1>b, <1>c, <1>15, <2>1, <2>5 DEF Moved, Still, SyncQueue, DeactivateLock
  <2>6. ASSUME NEW d \in Clients, d \notin SkipVote PROVE HeldInv(d)'
    BY <1>a, <1>b, <1>c, <1>15, <2>1, <2>6 DEF Moved, Still, SyncQueue, DeactivateLock
  <2> QED
    BY <2>1, <2>2, <2>3, <2>4, <2>5, <2>6 DEF SyncInv
<1>16. ASSUME NEW t \in Callers, DeactivateDec(t) PROVE SyncInv'
  <2>1. /\ call[t].c \in Clients /\ Where[call[t].c] = "d_dec"
        /\ SyncCalls' /\ Moved(call[t].c, "d_set")
    BY <1>a, <1>16, GotoMoves DEF DeactivateDec, SyncPcs, SuspendPcs, AwayPcs
  <2>2. SyncQueue'
    BY <1>a, <1>b, <1>16 DEF SyncQueue, DeactivateDec, DecBounded, Dec, Relax
  <2>3. ASSUME NEW d \in Clients PROVE HoldInv(d)'
    BY <1>a, <1>b, <1>c, <1>16, <2>1, <2>3
       DEF Moved, Still, SyncQueue, DeactivateDec, DecBounded, Dec, Relax
  <2>4. ASSUME NEW d \in Clients PROVE CancelInv(d)'
    BY <1>a, <1>b, <1>c, <1>16, <2>1, <2>4
       DEF Moved, Still, SyncQueue, DeactivateDec, DecBounded, Dec, Relax
  <2>5. ASSUME NEW d \in Clients PROVE AwakeInv(d)'
    BY <1>a, <1>b, <1>c, <1>16, <2>1, <2>5
       DEF Moved, Still, SyncQueue, DeactivateDec, DecBounded, Dec, Relax
  <2>6. ASSUME NEW d \in Clients, d \notin SkipVote PROVE HeldInv(d)'
    BY <1>a, <1>b, <1>c, <1>16, <2>1, <2>6
       DEF Moved, Still, SyncQueue, DeactivateDec, DecBounded, Dec, Relax
  <2> QED
    BY <2>1, <2>2, <2>3, <2>4, <2>5, <2>6 DEF SyncInv
<1>17. ASSUME NEW t \in Callers, DeactivateSet(t) PROVE SyncInv'
  <2>1. /\ call[t].c \in Clients /\ Where[call[t].c] = "d_set"
        /\ SyncCalls' /\ Moved(call[t].c, "d_cancel")
    BY <1>a, <1>17, GotoMoves DEF DeactivateSet, SyncPcs, SuspendPcs, AwayPcs
  <2>2. SyncQueue'
    BY <1>a, <1>b, <1>17 DEF SyncQueue, DeactivateSet, SetState
  <2>3. ASSUME NEW d \in Clients PROVE HoldInv(d)'
    BY <1>a, <1>b, <1>c, <1>17, <2>1, <2>3 DEF Moved, Still, SyncQueue, DeactivateSet, SetState
  <2>4. ASSUME NEW d \in Clients PROVE CancelInv(d)'
    BY <1>a, <1>b, <1>c, <1>17, <2>1, <2>4 DEF Moved, Still, SyncQueue, DeactivateSet, SetState
  <2>5. ASSUME NEW d \in Clients PROVE AwakeInv(d)'
    BY <1>a, <1>b, <1>c, <1>17, <2>1, <2>5 DEF Moved, Still, SyncQueue, DeactivateSet, SetState
  <2>6. ASSUME NEW d \in Clients, d \notin SkipVote PROVE HeldInv(d)'
    BY <1>a, <1>b, <1>c, <1>17, <2>1, <2>6 DEF Moved, Still, SyncQueue, DeactivateSet, SetState
  <2> QED
    BY <2>1, <2>2, <2>3, <2>4, <2>5, <2>6 DEF SyncInv
<1>18. ASSUME NEW t \in Callers, DeactivateCancel(t) PROVE SyncInv'
  <2>1. /\ call[t].c \in Clients /\ Where[call[t].c] = "d_cancel"
        /\ SyncCalls' /\ Moved(call[t].c, "d_cwait2")
    BY <1>a, <1>18, GotoMoves DEF DeactivateCancel, SyncPcs, SuspendPcs, AwayPcs
  <2>2. SyncQueue'
    BY <1>a, <1>b, <1>18 DEF SyncQueue, DeactivateCancel, CancelTimer
  <2>3. ASSUME NEW d \in Clients PROVE HoldInv(d)'
    BY <1>a, <1>b, <1>c, <1>18, <2>1, <2>3
       DEF Moved, Still, SyncQueue, DeactivateCancel, CancelTimer
  <2>4. ASSUME NEW d \in Clients PROVE CancelInv(d)'
    BY <1>a, <1>b, <1>c, <1>18, <2>1, <2>4
       DEF Moved, Still, SyncQueue, DeactivateCancel, CancelTimer
  <2>5. ASSUME NEW d \in Clients PROVE AwakeInv(d)'
    BY <1>a, <1>b, <1>c, <1>18, <2>1, <2>5
       DEF Moved, Still, SyncQueue, DeactivateCancel, CancelTimer
  <2>6. ASSUME NEW d \in Clients, d \notin SkipVote PROVE HeldInv(d)'
    BY <1>a, <1>b, <1>c, <1>18, <2>1, <2>6
       DEF Moved, Still, SyncQueue, DeactivateCancel, CancelTimer
  <2> QED
    BY <2>1, <2>2, <2>3, <2>4, <2>5, <2>6 DEF SyncInv
<1>19. ASSUME NEW t \in Callers, DeactivateBit(t) PROVE SyncInv'
  <2>1. /\ call[t].c \in Clients /\ Where[call[t].c] = "d_cwait2"
        /\ SyncCalls' /\ Moved(call[t].c, "d_scale")
    BY <1>a, <1>19, GotoMoves DEF DeactivateBit, SyncPcs, SuspendPcs, AwayPcs
  <2>2. SyncQueue'
    BY <1>a, <1>b, <1>19 DEF SyncQueue, DeactivateBit
  <2>3. ASSUME NEW d \in Clients PROVE HoldInv(d)'
    BY <1>a, <1>b, <1>c, <1>19, <2>1, <2>3 DEF Moved, Still, SyncQueue, DeactivateBit
  <2>4. ASSUME NEW d \in Clients PROVE CancelInv(d)'
    BY <1>a, <1>b, <1>c, <1>19, <2>1, <2>4 DEF Moved, Still, SyncQueue, DeactivateBit
  <2>5. ASSUME NEW d \in Clients PROVE AwakeInv(d)'
    BY <1>a, <1>b, <1>c, <1>19, <2>1, <2>5 DEF Moved, Still, SyncQueue, DeactivateBit
  <2>6. ASSUME NEW d \in Clients, d \notin SkipVote PROVE HeldInv(d)'
    BY <1>a, <1>b, <1>c, <1>19, <2>1, <2>6 DEF Moved, Still, SyncQueue, DeactivateBit
  <2> QED
    BY <2>1, <2>2, <2>3, <2>4, <2>5, <2>6 DEF SyncInv
<1>20. ASSUME NEW t \in Callers, AllCheck(t) PROVE SyncInv'
  <2>1. /\ call[t].c \in Clients /\ Where[call[t].c] = "x_cwait"
        /\ SyncCalls' /\ Moved(call[t].c, "x_lock")
    <3>1. call[t].at = "x_cwait" /\ call[t].c \in Clients
      BY <1>a, <1>20 DEF AllCheck, SyncCalls, AwayPcs, CallRecs
    <3>2. st[call[t].c] \notin InProgress
      BY <1>a, <1>b, <3>1, WhereIs
    <3>3. Goto(t, "x_lock")
      BY <1>20, <3>2 DEF AllCheck
    <3> QED
      BY <1>a, <3>1, <3>3, GotoMoves DEF SyncPcs, SuspendPcs, AwayPcs
  <2>2. SyncQueue'
    BY <1>a, <1>b, <1>20 DEF SyncQueue, AllCheck, TimerRunning
  <2>3. ASSUME NEW d \in Clients PROVE HoldInv(d)'
    BY <1>a, <1>b, <1>c, <1>20, <2>1, <2>3 DEF Moved, Still, SyncQueue, AllCheck, TimerRunning
  <2>4. ASSUME NEW d \in Clients PROVE CancelInv(d)'
    BY <1>a, <1>b, <1>c, <1>20, <2>1, <2>4 DEF Moved, Still, SyncQueue, AllCheck, TimerRunning
  <2>5. ASSUME NEW d \in Clients PROVE AwakeInv(d)'
    BY <1>a, <1>b, <1>c, <1>20, <2>1, <2>5 DEF Moved, Still, SyncQueue, AllCheck, TimerRunning
  <2>6. ASSUME NEW d \in Clients, d \notin SkipVote PROVE HeldInv(d)'
    BY <1>a, <1>b, <1>c, <1>20, <2>1, <2>6 DEF Moved, Still, SyncQueue, AllCheck, TimerRunning
  <2> QED
    BY <2>1, <2>2, <2>3, <2>4, <2>5, <2>6 DEF SyncInv
<1>21. ASSUME NEW t \in Callers, AllLock(t) PROVE SyncInv'
  <2>1. /\ call[t].c \in Clients /\ Where[call[t].c] = "x_lock" /\ SyncCalls'
        /\ \/ /\ st[call[t].c] = "timer_set"
              /\ SetState(call[t].c, "activated") /\ Moved(call[t].c, "none")
           \/ /\ st[call[t].c] \in {"pending_deact", "pending_resched"}
              /\ SetState(call[t].c, "deactivated") /\ Moved(call[t].c, "x_dec")
           \/ st[call[t].c] \notin Timed /\ UNCHANGED st /\ Moved(call[t].c, "none")
    <3> DEFINE c == call[t].c
    <3>1. call[t].at = "x_lock" /\ c \in Clients
      BY <1>a, <1>21 DEF AllLock, SyncCalls, AwayPcs, CallRecs
    <3>2. Where[c] = "x_lock"
      BY <1>a, <3>1, WhereIs
    <3>3. CASE st[c] = "timer_set" /\ SetState(c, "activated") /\ Continue(t)
      BY <1>a, <3>1, <3>2, <3>3, LeaveMoves DEF AwayPcs
    <3>4. CASE /\ st[c] \in {"pending_deact", "pending_resched"}
               /\ SetState(c, "deactivated") /\ AllAt(t, "x_dec", c, call[t].rem, TRUE)
      <4>1. "x_dec" \in SuspendPcs \ AwayPcs
        BY DEF SuspendPcs, AwayPcs
      <4>2. SyncCalls' /\ Moved(c, "x_dec")
        BY <1>a, <3>1, <3>4, <4>1, AllMoves
      <4> QED
        BY <3>1, <3>2, <3>4, <4>2
    <3>5. CASE st[c] \notin Timed /\ UNCHANGED st /\ Continue(t)
      BY <1>a, <3>1, <3>2, <3>5, LeaveMoves DEF AwayPcs
    <3> QED
      BY <1>21, <3>3, <3>4, <3>5 DEF AllLock
  <2>2. SyncQueue'
    BY <1>a, <1>b, <1>21 DEF SyncQueue, AllLock, SetState
  <2>3. ASSUME NEW d \in Clients PROVE HoldInv(d)'
    BY <1>a, <1>b, <1>c, <1>21, <2>1, <2>3 DEF Moved, Still, SyncQueue, AllLock, SetState
  <2>4. ASSUME NEW d \in Clients PROVE CancelInv(d)'
    BY <1>a, <1>b, <1>c, <1>21, <2>1, <2>4 DEF Moved, Still, SyncQueue, AllLock, SetState
  <2>5. ASSUME NEW d \in Clients PROVE AwakeInv(d)'
    BY <1>a, <1>b, <1>c, <1>21, <2>1, <2>5 DEF Moved, Still, SyncQueue, AllLock, SetState
  <2>6. ASSUME NEW d \in Clients, d \notin SkipVote PROVE HeldInv(d)'
    BY <1>a, <1>b, <1>c, <1>21, <2>1, <2>6 DEF Moved, Still, SyncQueue, AllLock, SetState
  <2> QED
    BY <2>1, <2>2, <2>3, <2>4, <2>5, <2>6 DEF SyncInv
<1>22. ASSUME NEW t \in Callers, AllDec(t) PROVE SyncInv'
  <2>1. /\ call[t].c \in Clients /\ Where[call[t].c] = "x_dec"
        /\ SyncCalls' /\ Moved(call[t].c, "x_bit")
    BY <1>a, <1>22, GotoMoves DEF AllDec, SyncPcs, SuspendPcs, AwayPcs
  <2>2. SyncQueue'
    BY <1>a, <1>b, <1>22 DEF SyncQueue, AllDec, DecBounded, Dec, Relax
  <2>3. ASSUME NEW d \in Clients PROVE HoldInv(d)'
    BY <1>a, <1>b, <1>c, <1>22, <2>1, <2>3
       DEF Moved, Still, SyncQueue, AllDec, DecBounded, Dec, Relax
  <2>4. ASSUME NEW d \in Clients PROVE CancelInv(d)'
    BY <1>a, <1>b, <1>c, <1>22, <2>1, <2>4
       DEF Moved, Still, SyncQueue, AllDec, DecBounded, Dec, Relax
  <2>5. ASSUME NEW d \in Clients PROVE AwakeInv(d)'
    BY <1>a, <1>b, <1>c, <1>22, <2>1, <2>5
       DEF Moved, Still, SyncQueue, AllDec, DecBounded, Dec, Relax
  <2>6. ASSUME NEW d \in Clients, d \notin SkipVote PROVE HeldInv(d)'
    BY <1>a, <1>b, <1>c, <1>22, <2>1, <2>6
       DEF Moved, Still, SyncQueue, AllDec, DecBounded, Dec, Relax
  <2> QED
    BY <2>1, <2>2, <2>3, <2>4, <2>5, <2>6 DEF SyncInv
<1>23. ASSUME NEW t \in Callers, AllBit(t) PROVE SyncInv'
  <2>1. /\ call[t].c \in Clients /\ Where[call[t].c] = "x_bit"
        /\ SyncCalls' /\ Moved(call[t].c, "none")
    BY <1>a, <1>23, LeaveMoves DEF AllBit, AwayPcs
  <2>2. SyncQueue'
    BY <1>a, <1>b, <1>23 DEF SyncQueue, AllBit
  <2>3. ASSUME NEW d \in Clients PROVE HoldInv(d)'
    BY <1>a, <1>b, <1>c, <1>23, <2>1, <2>3 DEF Moved, Still, SyncQueue, AllBit
  <2>4. ASSUME NEW d \in Clients PROVE CancelInv(d)'
    BY <1>a, <1>b, <1>c, <1>23, <2>1, <2>4 DEF Moved, Still, SyncQueue, AllBit
  <2>5. ASSUME NEW d \in Clients PROVE AwakeInv(d)'
    BY <1>a, <1>b, <1>c, <1>23, <2>1, <2>5 DEF Moved, Still, SyncQueue, AllBit
  <2>6. ASSUME NEW d \in Clients, d \notin SkipVote PROVE HeldInv(d)'
    BY <1>a, <1>b, <1>c, <1>23, <2>1, <2>6 DEF Moved, Still, SyncQueue, AllBit
  <2> QED
    BY <2>1, <2>2, <2>3, <2>4, <2>5, <2>6 DEF SyncInv
<1>24. ASSUME NEW t \in Callers, AllDone(t) PROVE SyncInv'
  <2>1. SyncCalls' /\ Still
    BY <1>a, <1>24, AwayMoves DEF AllDone, AwayPcs
  <2>2. SyncQueue'
    BY <1>a, <1>b, <1>24 DEF SyncQueue, AllDone
  <2>3. ASSUME NEW d \in Clients PROVE HoldInv(d)'
    BY <1>a, <1>b, <1>c, <1>24, <2>1, <2>3 DEF Moved, Still, SyncQueue, AllDone
  <2>4. ASSUME NEW d \in Clients PROVE CancelInv(d)'
    BY <1>a, <1>b, <1>c, <1>24, <2>1, <2>4 DEF Moved, Still, SyncQueue, AllDone
  <2>5. ASSUME NEW d \in Clients PROVE AwakeInv(d)'
    BY <1>a, <1>b, <1>c, <1>24, <2>1, <2>5 DEF Moved, Still, SyncQueue, AllDone
  <2>6. ASSUME NEW d \in Clients, d \notin SkipVote PROVE HeldInv(d)'
    BY <1>a, <1>b, <1>c, <1>24, <2>1, <2>6 DEF Moved, Still, SyncQueue, AllDone
  <2> QED
    BY <2>1, <2>2, <2>3, <2>4, <2>5, <2>6 DEF SyncInv
<1>25. ASSUME TimerWorkState PROVE SyncInv'
  <2>1. /\ SyncCalls' /\ Still /\ work.c \in Clients
        /\ st[work.c] = "pending_resched" =>
              timer'[work.c] \/ Where[work.c] \in {"d_cwait", "x_cwait"}
        /\ \A d \in Clients : /\ d # work.c => (timer'[d] <=> timer[d])
                              /\ Where[d] \in {"d_cwait", "x_cwait"} => (timer'[d] <=> timer[d])
    <3>1. SyncCalls' /\ Still
      BY <1>a, <1>25, AwayMoves DEF TimerWorkState
    <3>2. work.c \in Clients /\ st[work.c] \in Timed /\ ~timer[work.c]
      BY <1>a, <1>b, <1>25 DEF TimerWorkState, SyncQueue
    <3>3. ASSUME QueueTimer(work.c)
          PROVE  /\ timer'[work.c] <=> Where[work.c] \notin {"d_cwait", "x_cwait"}
                 /\ \A d \in Clients : d # work.c => (timer'[d] <=> timer[d])
      <4>1. ASSUME NEW t \in Callers, call[t].c = work.c
            PROVE  call[t].at = Where[work.c] /\ call[t].at # "d_cwait2"
        BY <1>a, <1>b, <3>2, <4>1, WhereIs
      <4>2. Where[work.c] \in {"d_cwait", "x_cwait"} => Busy(work.c)
        BY <3>2 DEF Where
      <4>3. (\E t \in Callers : call[t].c = work.c /\ call[t].at \in CancelPcs)
              <=> Where[work.c] \in {"d_cwait", "x_cwait"}
        BY <4>1, <4>2 DEF Busy, CancelPcs
      <4> QED
        BY <3>2, <3>3, <4>3 DEF QueueTimer
    <3>4. UNCHANGED timer \/ (st[work.c] = "pending_resched" /\ QueueTimer(work.c))
      BY <1>25, <3>2 DEF TimerWorkState
    <3>5. st[work.c] = "pending_resched" => QueueTimer(work.c)
      BY <1>25 DEF TimerWorkState
    <3> QED
      BY <1>b, <3>1, <3>2, <3>3, <3>4, <3>5
  <2>2. SyncQueue'
    BY <1>a, <1>b, <1>25 DEF SyncQueue, TimerWorkState, SetState, WorkDone, WorkGoto, NoWork
  <2>3. ASSUME NEW d \in Clients PROVE HoldInv(d)'
    BY <1>a, <1>b, <1>c, <1>25, <2>1, <2>3
       DEF Moved, Still, SyncQueue, TimerWorkState, SetState, WorkDone, WorkGoto, NoWork
  <2>4. ASSUME NEW d \in Clients PROVE CancelInv(d)'
    BY <1>a, <1>b, <1>c, <1>25, <2>1, <2>4
       DEF Moved, Still, SyncQueue, TimerWorkState, SetState, WorkDone, WorkGoto, NoWork
  <2>5. ASSUME NEW d \in Clients PROVE AwakeInv(d)'
    BY <1>a, <1>b, <1>c, <1>25, <2>1, <2>5
       DEF Moved, Still, SyncQueue, TimerWorkState, SetState, WorkDone, WorkGoto, NoWork
  <2>6. ASSUME NEW d \in Clients, d \notin SkipVote PROVE HeldInv(d)'
    BY <1>a, <1>b, <1>c, <1>25, <2>1, <2>6
       DEF Moved, Still, SyncQueue, TimerWorkState, SetState, WorkDone, WorkGoto, NoWork
  <2> QED
    BY <2>1, <2>2, <2>3, <2>4, <2>5, <2>6 DEF SyncInv
<1>26. ASSUME TimerWorkDec PROVE SyncInv'
  <2>1. SyncCalls' /\ Still
    BY <1>a, <1>26, AwayMoves DEF TimerWorkDec
  <2>2. SyncQueue'
    BY <1>a, <1>b, <1>26 DEF SyncQueue, TimerWorkDec, DecBounded, Dec, Relax, WorkGoto
  <2>3. ASSUME NEW d \in Clients PROVE HoldInv(d)'
    BY <1>a, <1>b, <1>c, <1>26, <2>1, <2>3
       DEF Moved, Still, SyncQueue, TimerWorkDec, DecBounded, Dec, Relax, WorkGoto
  <2>4. ASSUME NEW d \in Clients PROVE CancelInv(d)'
    BY <1>a, <1>b, <1>c, <1>26, <2>1, <2>4
       DEF Moved, Still, SyncQueue, TimerWorkDec, DecBounded, Dec, Relax, WorkGoto
  <2>5. ASSUME NEW d \in Clients PROVE AwakeInv(d)'
    BY <1>a, <1>b, <1>c, <1>26, <2>1, <2>5
       DEF Moved, Still, SyncQueue, TimerWorkDec, DecBounded, Dec, Relax, WorkGoto
  <2>6. ASSUME NEW d \in Clients, d \notin SkipVote PROVE HeldInv(d)'
    BY <1>a, <1>b, <1>c, <1>26, <2>1, <2>6
       DEF Moved, Still, SyncQueue, TimerWorkDec, DecBounded, Dec, Relax, WorkGoto
  <2> QED
    BY <2>1, <2>2, <2>3, <2>4, <2>5, <2>6 DEF SyncInv
<1>27. ASSUME TimerWorkBit PROVE SyncInv'
  <2>1. SyncCalls' /\ Still
    BY <1>a, <1>27, AwayMoves DEF TimerWorkBit
  <2>2. SyncQueue'
    BY <1>a, <1>b, <1>27 DEF SyncQueue, TimerWorkBit, WorkGoto
  <2>3. ASSUME NEW d \in Clients PROVE HoldInv(d)'
    BY <1>a, <1>b, <1>c, <1>27, <2>1, <2>3 DEF Moved, Still, SyncQueue, TimerWorkBit, WorkGoto
  <2>4. ASSUME NEW d \in Clients PROVE CancelInv(d)'
    BY <1>a, <1>b, <1>c, <1>27, <2>1, <2>4 DEF Moved, Still, SyncQueue, TimerWorkBit, WorkGoto
  <2>5. ASSUME NEW d \in Clients PROVE AwakeInv(d)'
    BY <1>a, <1>b, <1>c, <1>27, <2>1, <2>5 DEF Moved, Still, SyncQueue, TimerWorkBit, WorkGoto
  <2>6. ASSUME NEW d \in Clients, d \notin SkipVote PROVE HeldInv(d)'
    BY <1>a, <1>b, <1>c, <1>27, <2>1, <2>6 DEF Moved, Still, SyncQueue, TimerWorkBit, WorkGoto
  <2> QED
    BY <2>1, <2>2, <2>3, <2>4, <2>5, <2>6 DEF SyncInv
<1>28. ASSUME WorkScale PROVE SyncInv'
  <2>1. SyncCalls' /\ Still
    BY <1>a, <1>28, AwayMoves DEF WorkScale
  <2>2. SyncQueue'
    BY <1>a, <1>b, <1>28 DEF SyncQueue, WorkScale, WorkDone, NoWork
  <2>3. ASSUME NEW d \in Clients PROVE HoldInv(d)'
    BY <1>a, <1>b, <1>c, <1>28, <2>1, <2>3
       DEF Moved, Still, SyncQueue, WorkScale, WorkDone, NoWork
  <2>4. ASSUME NEW d \in Clients PROVE CancelInv(d)'
    BY <1>a, <1>b, <1>c, <1>28, <2>1, <2>4
       DEF Moved, Still, SyncQueue, WorkScale, WorkDone, NoWork
  <2>5. ASSUME NEW d \in Clients PROVE AwakeInv(d)'
    BY <1>a, <1>b, <1>c, <1>28, <2>1, <2>5
       DEF Moved, Still, SyncQueue, WorkScale, WorkDone, NoWork
  <2>6. ASSUME NEW d \in Clients, d \notin SkipVote PROVE HeldInv(d)'
    BY <1>a, <1>b, <1>c, <1>28, <2>1, <2>6
       DEF Moved, Still, SyncQueue, WorkScale, WorkDone, NoWork
  <2> QED
    BY <2>1, <2>2, <2>3, <2>4, <2>5, <2>6 DEF SyncInv
<1>29. ASSUME UNCHANGED vars PROVE SyncInv'
  <2>1. SyncCalls' /\ Still
    BY <1>a, <1>29, AwayMoves DEF vars
  <2>2. SyncQueue'
    BY <1>a, <1>29 DEF SyncQueue, vars
  <2>3. ASSUME NEW d \in Clients
        PROVE  /\ HoldInv(d)' /\ CancelInv(d)' /\ AwakeInv(d)'
               /\ d \notin SkipVote => HeldInv(d)'
    BY <1>b, <1>29, <2>1, <2>3 DEF Still, vars
  <2> QED
    BY <2>1, <2>2, <2>3 DEF SyncInv
<1> QED
  <2>1. CASE Next
    <3>1. SyncNext
      BY <1>a, <2>1, SyncCases
    <3> QED
      BY ONLY <3>1, <1>1, <1>2, <1>3, <1>4, <1>5, <1>6, <1>7, <1>8, <1>9, <1>10, <1>11,
              <1>12, <1>13, <1>14, <1>15, <1>16, <1>17, <1>18, <1>19, <1>20, <1>21,
              <1>22, <1>23, <1>24, <1>25, <1>26, <1>27, <1>28
         DEF SyncNext
  <2> QED
    BY <2>1, <1>29

-----------------------------------------------------------------------------
(* What it implies.                                                        *)

\* The invariant of the synchronous calls is an invariant.
THEOREM SyncInductive ==
    ASSUME Ops \subseteq SyncOps, Exclusive PROVE Spec => [](TypeOK /\ SyncInv)
<1>1. Init => TypeOK /\ SyncInv
  BY InitType, SyncInit
<1>2. TypeOK /\ SyncInv /\ [Next]_vars => (TypeOK /\ SyncInv)'
  BY TypeStep, SyncStep
<1> QED
  BY <1>1, <1>2, PTL DEF Spec

\* One caller at most is at a client, so those at some place number one or none.
LEMMA AtMostOne ==
    ASSUME TypeOK, SyncCalls, NEW c \in Clients, NEW P, "none" \notin P
    PROVE  Cardinality(At(c, P)) = One(Where[c] \in P)
<1>1. CASE \E t \in Callers : call[t].c = c
  <2>1. PICK t \in Callers : call[t].c = c
    BY <1>1
  <2>2. Where[c] = call[t].at
    BY <2>1, WhereIs
  <2>3. CASE call[t].at \in P
    <3>1. At(c, P) = {t}
      BY <2>1, <2>3, ClientsAssumption DEF At, SyncCalls
    <3> QED
      BY <2>2, <2>3, <3>1, FS_Singleton DEF One
  <2>4. CASE call[t].at \notin P
    <3>1. At(c, P) = {}
      BY <2>1, <2>4, ClientsAssumption DEF At, SyncCalls
    <3> QED
      BY <2>2, <2>4, <3>1, FS_EmptySet DEF One
  <2> QED
    BY <2>3, <2>4
<1>2. CASE ~\E t \in Callers : call[t].c = c
  <2>1. At(c, P) = {} /\ Where[c] = "none"
    BY <1>2 DEF At, Where, Busy
  <2> QED
    BY <2>1, FS_EmptySet DEF One
<1> QED
  BY <1>1, <1>2

\* With one call at a time on a client, the votes of a client are balanced at
\* every moment, although a synchronous call takes and drops its vote outside
\* the lock and the timer may run in between (ipa_pm.c:979, 1174, 1229).
THEOREM SyncVotes ==
    ASSUME Ops \subseteq SyncOps, Exclusive PROVE Spec => []VotesBalanced
<1>1. TypeOK /\ SyncInv => VotesBalanced
  <2> SUFFICES ASSUME TypeOK, SyncInv, NEW c \in Clients \ SkipVote
               PROVE  vote[c] = One(st[c] \in Active)
                        + One(WorkAt(c, {"act_state", "act_undo", "act_dec", "tmr_dec"}))
                        + Cardinality(At(c, {"s_lock", "x_dec"}))
                        - Cardinality(At(c, {"d_set"}))
    BY DEF VotesBalanced
  <2>1. /\ Cardinality(At(c, {"s_lock", "x_dec"})) = One(Where[c] \in {"s_lock", "x_dec"})
        /\ Cardinality(At(c, {"d_set"})) = One(Where[c] \in {"d_set"})
    BY AtMostOne DEF SyncInv
  <2>2. HeldInv(c) /\ SyncQueue
    BY DEF SyncInv
  <2>3. One(WorkAt(c, {"act_state", "act_undo", "act_dec", "tmr_dec"}))
          = One(WorkAt(c, {"tmr_dec"}))
    BY <2>2 DEF SyncQueue, TimerWorkPcs, WorkAt, One
  <2>4. One(Where[c] \in {"d_set"}) = One(Where[c] = "d_set")
    BY DEF One
  <2> QED
    BY <2>1, <2>2, <2>3, <2>4 DEF HeldInv
<1> QED
  BY <1>1, SyncInductive, PTL

\* With one call at a time on a client, no WARN_ON of a work function is
\* reached: a call that cancels the timer leaves no timer to find its client
\* in a state without one (ipa_pm.c:428, 507).
THEOREM SyncExpected ==
    ASSUME Ops \subseteq SyncOps, Exclusive PROVE Spec => []NoUnexpectedState
<1>1. TypeOK /\ SyncInv => NoUnexpectedState
  BY DEF SyncInv, SyncQueue, NoUnexpectedState
<1> QED
  BY <1>1, SyncInductive, PTL

\* With one call at a time on a client, a client in a timed state is never
\* forgotten, although a work function that finds its timer being cancelled
\* cannot queue it again (ipa_pm.c:101, 488).
THEOREM SyncTimers ==
    ASSUME Ops \subseteq SyncOps, Exclusive PROVE Spec => []TimerCovered
<1>1. TypeOK /\ SyncInv => TimerCovered
  <2> SUFFICES ASSUME TypeOK, SyncInv, NEW c \in Clients, st[c] \in Timed,
                      ~timer[c], ~WorkAt(c, {"tmr_state"})
               PROVE  At(c, {"d_cwait", "d_wait", "d_lock", "d_dec", "d_set",
                             "x_cwait", "x_lock"}) # {}
    BY DEF TimerCovered
  <2>1. Where[c] \in {"d_cwait", "d_lock", "d_dec", "d_set", "x_cwait", "x_lock"}
    BY DEF SyncInv, CancelInv
  <2>2. PICK t \in Callers : call[t].c = c
    BY <2>1 DEF Where, Busy
  <2>3. call[t].at = Where[c]
    BY <2>2, WhereIs DEF SyncInv
  <2> QED
    BY <2>1, <2>2, <2>3 DEF At
<1> QED
  BY <1>1, SyncInductive, PTL

\* With one call at a time on a client, a deactivated client on which nobody
\* works holds no wakeup source (ipa_pm.c:499, 1176, 1231).
THEOREM SyncWake ==
    ASSUME Ops \subseteq SyncOps, Exclusive PROVE Spec => []NoWakeLeak
<1>1. TypeOK /\ SyncInv => NoWakeLeak
  BY DEF SyncInv, AwakeInv, WorkAt, NoWakeLeak, AtRest, Where, Active, Timed
<1> QED
  BY <1>1, SyncInductive, PTL

\* With these calls, one at a time on a client, no vote is dropped that was not
\* taken: the synchronous deactivation drops the vote of an active client.
THEOREM SyncNoUnderflow ==
    ASSUME Ops \subseteq SyncOps, Exclusive PROVE Spec => []NoVoteUnderflow
<1>1. TypeOK /\ SyncInv /\ SkippedHoldNone => NoVoteUnderflow
  <2> SUFFICES ASSUME TypeOK, SyncInv, SkippedHoldNone, NEW c \in Clients PROVE vote[c] >= 0
    BY DEF NoVoteUnderflow
  <2>1. CASE c \in SkipVote
    BY <2>1 DEF SkippedHoldNone
  <2>2. CASE c \notin SkipVote
    <3>1. HeldInv(c) /\ (Where[c] = "d_set" => st[c] \in Active)
      BY <2>2 DEF SyncInv, HoldInv
    <3> QED
      BY <3>1 DEF HeldInv, One
  <2> QED
    BY <2>1, <2>2
<1> QED
  BY <1>1, SyncInductive, SkippedNoVote, PTL

-----------------------------------------------------------------------------
(* The clock scaling after synchronous calls.                              *)

\* A step changes what is active, or raises a vote, only if a scaling is due
\* after it.
LEMMA SyncActiveMoves ==
    ASSUME TypeOK, SyncInv, Exclusive, SyncNext
    PROVE  \/ SyncDue'
           \/ \A c \in Clients :
                 /\ (alive'[c] /\ st'[c] \in Active) <=> (alive[c] /\ st[c] \in Active)
                 /\ vote'[c] <= vote[c]
<1> USE ClientsAssumption DEF TypeOK, States, Active, Timed, InProgress, client, held
<1> DEFINE Goal ==
      \/ SyncDue'
      \/ \A c \in Clients :
            /\ (alive'[c] /\ st'[c] \in Active) <=> (alive[c] /\ st[c] \in Active)
            /\ vote'[c] <= vote[c]
<1>0. /\ SyncCalls /\ SyncQueue
      /\ \A c \in Clients : HoldInv(c)
      /\ \A c \in Clients : ~alive[c] => st[c] = "deactivated"
      /\ \A t \in Callers : call[t].at \notin AwayPcs =>
            call[t].c \in Clients /\ Where[call[t].c] = call[t].at
  <2>1. SyncCalls /\ SyncQueue /\ \A c \in Clients : HoldInv(c)
    BY DEF SyncInv
  <2>2. ASSUME NEW t \in Callers, call[t].at \notin AwayPcs
        PROVE  call[t].c \in Clients /\ Where[call[t].c] = call[t].at
    <3>1. call[t].c \in Clients
      BY <2>1, <2>2 DEF SyncCalls, CallRecs
    <3> QED
      BY <2>1, <3>1, WhereIs
  <2> QED
    BY <2>1, <2>2 DEF HoldInv
<1>v. \A c : Dec(c) => \A d \in Clients : vote'[d] <= vote[d]
  BY DEF Dec
<1>s. ASSUME UNCHANGED <<alive, st>>, \A d \in Clients : vote'[d] <= vote[d] PROVE Goal
  BY <1>s
<1>u. ASSUME UNCHANGED <<alive, st, vote>> PROVE Goal
  BY <1>u
<1>1. ASSUME NEW c \in Clients, Register(c) PROVE Goal
  BY <1>0, <1>1 DEF Register, SetState
<1>2. ASSUME NEW t \in Callers, DeregisterFree(t) PROVE Goal
  <2>1. call[t].c \in Clients /\ st[call[t].c] = "deactivated"
    BY <1>0, <1>2 DEF HoldInv, DeregisterFree, AwayPcs
  <2> QED
    BY <1>2, <2>1 DEF DeregisterFree
<1>3. ASSUME NEW t \in Callers, NEW c \in Clients, ActivateSync(t, c) PROVE Goal
  <2>1. ~Busy(c) /\ Where[c] = "none"
    BY <1>3 DEF ActivateSync, MayCall, Where
  <2>2. st[c] \notin InProgress
    BY <1>0, <2>1 DEF HoldInv
  <2>3. CASE st[c] = "deactivated" /\ c \in SkipVote /\ Enter(t, c, "s_bit")
    <3>1. call'[t].at = "s_bit"
      BY <2>3 DEF Enter, CallRecs
    <3> QED
      BY <3>1 DEF SyncDue, CallerDue
  <2>4. CASE st[c] = "deactivated" /\ SetState(c, "act_progress")
    BY <1>3, <2>4 DEF ActivateSync, SetState
  <2>5. CASE st[c] \in Active /\ SetState(c, Reactivated(st[c]))
    BY <1>3, <2>5 DEF ActivateSync, SetState, Reactivated
  <2> QED
    BY <1>3, <2>2, <2>3, <2>4, <2>5 DEF ActivateSync, SyncOn
<1>4. ASSUME NEW t \in Callers, NEW c \in Clients, DeferredDeactivate(t, c) PROVE Goal
  BY <1>4 DEF DeferredDeactivate, SetState, Deferred
<1>5. ASSUME NEW t \in Callers, SyncInc(t) PROVE Goal
  <2>1. call'[t].at = "s_lock"
    BY <1>5 DEF SyncInc, Goto, CallRecs
  <2> QED
    BY <2>1 DEF SyncDue, CallerDue
<1>6. ASSUME NEW t \in Callers, SyncLock(t) PROVE Goal
  <2>1. call'[t].at = "s_bit"
    BY <1>6 DEF SyncLock, Goto, CallRecs
  <2> QED
    BY <2>1 DEF SyncDue, CallerDue
<1>7. ASSUME NEW t \in Callers, DeactivateSet(t) PROVE Goal
  <2>1. call'[t].at = "d_cancel"
    BY <1>7 DEF DeactivateSet, Goto, CallRecs
  <2> QED
    BY <2>1 DEF SyncDue, CallerDue
<1>8. ASSUME NEW t \in Callers, AllLock(t) PROVE Goal
  <2>1. call[t].c \in Clients
    BY <1>0, <1>8 DEF AllLock, AwayPcs
  <2>2. CASE AllAt(t, "x_dec", call[t].c, call[t].rem, TRUE)
    <3>1. call'[t].run
      BY <2>2 DEF AllAt
    <3> QED
      BY <3>1 DEF SyncDue, CallerDue
  <2>3. CASE st[call[t].c] = "timer_set" /\ SetState(call[t].c, "activated")
    BY <1>8, <2>1, <2>3 DEF AllLock, SetState
  <2>4. CASE UNCHANGED st
    BY <1>8, <2>4, <1>u DEF AllLock
  <2> QED
    BY <1>8, <2>2, <2>3, <2>4 DEF AllLock
<1>9. ASSUME TimerWorkState PROVE Goal
  <2>1. work.c \in Clients
    BY <1>0, <1>9 DEF SyncQueue, TimerWorkState, TimerWorkPcs
  <2>2. CASE st[work.c] = "pending_deact"
    BY <1>9, <2>2 DEF TimerWorkState, WorkGoto, SyncDue
  <2>3. CASE st[work.c] # "pending_deact"
    BY <1>9, <2>1, <2>3 DEF TimerWorkState, SetState
  <2> QED
    BY <2>2, <2>3
<1>10. ASSUME NEW t \in Callers, DeactivateDec(t) \/ AllDec(t) PROVE Goal
  BY <1>10, <1>s, <1>v DEF DeactivateDec, AllDec, DecBounded
<1>11. ASSUME TimerWorkDec PROVE Goal
  BY <1>11, <1>s, <1>v DEF TimerWorkDec, DecBounded
<1>12. ASSUME NEW c \in Clients, TimerWork(c) PROVE Goal
  BY <1>12, <1>u DEF TimerWork
<1>13. ASSUME NEW t \in Callers, NEW c \in Clients,
              Deregister(t, c) \/ DeactivateSync(t, c) \/ AllNext(t, c)
       PROVE  Goal
  BY <1>13, <1>u DEF Deregister, DeactivateSync, AllNext
<1>14. ASSUME NEW t \in Callers,
              \/ AllDeferred(t) \/ SyncBit(t) \/ SyncScale(t) \/ DeactivateCheck(t)
              \/ DeactivateLock(t) \/ DeactivateCancel(t) \/ DeactivateBit(t)
              \/ AllCheck(t) \/ AllBit(t) \/ AllDone(t)
       PROVE  Goal
  BY <1>14, <1>u DEF AllDeferred, SyncBit, SyncScale, DeactivateCheck, DeactivateLock,
                     DeactivateCancel, DeactivateBit, AllCheck, AllBit, AllDone
<1>15. CASE TimerWorkBit \/ WorkScale
  BY <1>15, <1>u DEF TimerWorkBit, WorkScale
<1> QED
  BY ONLY SyncNext, <1>1, <1>2, <1>3, <1>4, <1>5, <1>6, <1>7, <1>8, <1>9, <1>10, <1>11,
          <1>12, <1>13, <1>14, <1>15
     DEF SyncNext

\* A scaling that is due stays due until it runs, and then the aggregate is
\* that of the active clients, or no vote was there to open the clocks.
LEMMA SyncDueMoves ==
    ASSUME TypeOK, SyncInv, Exclusive, SyncNext, SyncDue, ~SyncDue'
    PROVE  agg' = ActiveClients \/ \A c \in Clients : vote[c] <= 0
<1> USE DEF TypeOK, CallRecs
<1> DEFINE Goal == agg' = ActiveClients \/ \A c \in Clients : vote[c] <= 0
<1>0. SyncCalls /\ SyncQueue
  BY DEF SyncInv
<1>u. ASSUME UNCHANGED <<work, call>> PROVE Goal
  BY <1>u DEF SyncDue, CallerDue
<1>t. ASSUME UNCHANGED work, NEW t \in Callers, CallerDue(t) => CallerDue(t)',
             \A u \in Callers : u # t => call'[u] = call[u]
      PROVE  Goal
  BY <1>t DEF SyncDue, CallerDue
<1>d. DoClkScaling => Goal
  BY DEF DoClkScaling, ActiveClients
<1>m. ASSUME NEW t \in Callers
      PROVE  /\ \A c, l : Enter(t, c, l) => \A u \in Callers : u # t => call'[u] = call[u]
             /\ \A l : Goto(t, l) => /\ \A u \in Callers : u # t => call'[u] = call[u]
                                     /\ call'[t].at = l /\ call'[t].run = call[t].run
             /\ Continue(t) => /\ \A u \in Callers : u # t => call'[u] = call[u]
                               /\ call'[t].run = call[t].run
             /\ Return(t) => \A u \in Callers : u # t => call'[u] = call[u]
             /\ \A l, c, q, r : AllAt(t, l, c, q, r) =>
                   /\ \A u \in Callers : u # t => call'[u] = call[u]
                   /\ call'[t].run = r
  BY DEF Enter, Goto, Continue, Return, AllAt
<1>i. ASSUME NEW t \in Callers, call[t].at \in {"idle", "d_lock", "g_free"} PROVE ~CallerDue(t)
  BY <1>0, <1>i DEF SyncCalls, SuspendPcs, CallerDue
<1>1. ASSUME NEW c \in Clients, Register(c) PROVE Goal
  BY <1>1, <1>u DEF Register
<1>2. ASSUME NEW c \in Clients, TimerWork(c) PROVE Goal
  BY <1>2 DEF TimerWork, SyncDue, CallerDue
<1>3. ASSUME NEW t \in Callers, NEW c \in Clients,
             Deregister(t, c) \/ ActivateSync(t, c) \/ DeactivateSync(t, c)
      PROVE  Goal
  <2>1. call[t].at = "idle" /\ UNCHANGED work
    BY <1>3 DEF Deregister, ActivateSync, DeactivateSync, MayCall
  <2>2. (\E l : Enter(t, c, l)) \/ Return(t)
    BY <1>3 DEF Deregister, DeregisterTest, ActivateSync, SyncOn, DeactivateSync
  <2> QED
    BY <1>i, <1>m, <1>t, <2>1, <2>2
<1>4. ASSUME NEW t \in Callers, NEW c \in Clients, DeferredDeactivate(t, c) PROVE Goal
  BY <1>4, <1>u DEF DeferredDeactivate
<1>5. ASSUME NEW t \in Callers, NEW c \in Clients, AllNext(t, c) PROVE Goal
  <2>1. CallerDue(t) => CallerDue(t)'
    BY <1>5, <1>m DEF AllNext, CallerDue
  <2>2. UNCHANGED work /\ \A u \in Callers : u # t => call'[u] = call[u]
    BY <1>5, <1>m DEF AllNext
  <2> QED
    BY <1>t, <2>1, <2>2
<1>6. ASSUME NEW t \in Callers, AllDeferred(t) PROVE Goal
  <2>1. ~CallerDue(t) /\ UNCHANGED work /\ \A u \in Callers : u # t => call'[u] = call[u]
    BY <1>6, <1>i, <1>m DEF AllDeferred
  <2> QED
    BY <1>t, <2>1
<1>7. ASSUME NEW t \in Callers, DeregisterFree(t) PROVE Goal
  <2>1. ~CallerDue(t) /\ UNCHANGED work /\ \A u \in Callers : u # t => call'[u] = call[u]
    BY <1>7, <1>i, <1>m DEF DeregisterFree
  <2> QED
    BY <1>t, <2>1
<1>8. ASSUME NEW t \in Callers,
             \/ SyncInc(t) \/ SyncLock(t) \/ SyncBit(t)
             \/ DeactivateSet(t) \/ DeactivateCancel(t) \/ DeactivateBit(t)
      PROVE  Goal
  <2>1. CallerDue(t)'
    BY <1>8, <1>m DEF SyncInc, SyncLock, SyncBit, DeactivateSet, DeactivateCancel, DeactivateBit,
                      CallerDue
  <2> QED
    BY <2>1 DEF SyncDue
<1>9. ASSUME NEW t \in Callers, DeactivateCheck(t) \/ DeactivateDec(t) \/ AllCheck(t) \/ AllDec(t)
      PROVE  Goal
  <2>1. CallerDue(t) => CallerDue(t)'
    BY <1>9, <1>m DEF DeactivateCheck, DeactivateDec, AllCheck, AllDec, CallerDue
  <2>2. UNCHANGED work /\ \A u \in Callers : u # t => call'[u] = call[u]
    BY <1>9, <1>m DEF DeactivateCheck, DeactivateDec, AllCheck, AllDec
  <2> QED
    BY <1>t, <2>1, <2>2
<1>10. ASSUME NEW t \in Callers, DeactivateLock(t) PROVE Goal
  <2>1. ~CallerDue(t) /\ UNCHANGED work /\ \A u \in Callers : u # t => call'[u] = call[u]
    BY <1>10, <1>i, <1>m DEF DeactivateLock
  <2> QED
    BY <1>t, <2>1
<1>11. ASSUME NEW t \in Callers, AllLock(t) \/ AllBit(t) PROVE Goal
  <2>1. CallerDue(t) => CallerDue(t)'
    <3>1. call[t].at \in {"x_lock", "x_bit"}
      BY <1>11 DEF AllLock, AllBit
    <3>2. Continue(t) \/ AllAt(t, "x_dec", call[t].c, call[t].rem, TRUE)
      BY <1>11 DEF AllLock, AllBit
    <3>3. ASSUME call[t].run PROVE call'[t].run
      <4>1. CASE Continue(t)
        BY <3>3, <4>1 DEF Continue
      <4>2. CASE AllAt(t, "x_dec", call[t].c, call[t].rem, TRUE)
        BY <4>2 DEF AllAt
      <4> QED
        BY <3>2, <4>1, <4>2
    <3> QED
      BY <3>1, <3>3 DEF CallerDue
  <2>2. UNCHANGED work /\ \A u \in Callers : u # t => call'[u] = call[u]
    BY <1>11, <1>m DEF AllLock, AllBit
  <2> QED
    BY <1>t, <2>1, <2>2
<1>12. ASSUME NEW t \in Callers, SyncScale(t) PROVE Goal
  BY <1>12, <1>d DEF SyncScale
<1>13. ASSUME NEW t \in Callers, AllDone(t) PROVE Goal
  <2>1. CASE call[t].run
    BY <1>13, <1>d, <2>1 DEF AllDone
  <2>2. CASE ~call[t].run
    <3>1. ~CallerDue(t) /\ UNCHANGED work /\ \A u \in Callers : u # t => call'[u] = call[u]
      BY <1>13, <1>m, <2>2 DEF AllDone, CallerDue
    <3> QED
      BY <1>t, <3>1
  <2> QED
    BY <2>1, <2>2
<1>14. CASE TimerWorkState \/ TimerWorkDec \/ TimerWorkBit
  BY <1>14 DEF TimerWorkState, TimerWorkDec, TimerWorkBit, WorkGoto, SyncDue, CallerDue
<1>15. CASE WorkScale
  BY <1>15, <1>d DEF WorkScale
<1> QED
  BY ONLY SyncNext, <1>1, <1>2, <1>3, <1>4, <1>5, <1>6, <1>7, <1>8, <1>9, <1>10, <1>11,
          <1>12, <1>13, <1>14, <1>15
     DEF SyncNext

\* Only a scaling changes the aggregate.
LEMMA SyncAggMoves ==
    ASSUME SyncNext, agg' # agg
    PROVE  agg' = ActiveClients
<1> USE DEF scaled
<1>1. ASSUME NEW c \in Clients, Register(c) \/ TimerWork(c) PROVE FALSE
  BY <1>1 DEF Register, TimerWork
<1>2. ASSUME NEW t \in Callers, NEW c \in Clients,
             \/ Deregister(t, c) \/ ActivateSync(t, c) \/ DeferredDeactivate(t, c)
             \/ DeactivateSync(t, c) \/ AllNext(t, c)
      PROVE  FALSE
  BY <1>2 DEF Deregister, ActivateSync, DeferredDeactivate, DeactivateSync, AllNext
<1>3. ASSUME NEW t \in Callers,
             \/ AllDeferred(t) \/ DeregisterFree(t) \/ SyncInc(t) \/ SyncLock(t) \/ SyncBit(t)
             \/ DeactivateCheck(t) \/ DeactivateLock(t) \/ DeactivateDec(t)
             \/ DeactivateSet(t) \/ DeactivateCancel(t) \/ DeactivateBit(t)
             \/ AllCheck(t) \/ AllLock(t) \/ AllDec(t) \/ AllBit(t)
      PROVE  FALSE
  BY <1>3 DEF AllDeferred, DeregisterFree, SyncInc, SyncLock, SyncBit, DeactivateCheck,
              DeactivateLock, DeactivateDec, DeactivateSet, DeactivateCancel, DeactivateBit,
              AllCheck, AllLock, AllDec, AllBit
<1>4. ASSUME NEW t \in Callers, SyncScale(t) \/ AllDone(t) PROVE agg' = ActiveClients
  BY <1>4 DEF SyncScale, AllDone, DoClkScaling, ActiveClients
<1>5. CASE TimerWorkState \/ TimerWorkDec \/ TimerWorkBit
  BY <1>5 DEF TimerWorkState, TimerWorkDec, TimerWorkBit
<1>6. CASE WorkScale
  BY <1>6 DEF WorkScale, DoClkScaling, ActiveClients
<1> QED
  BY ONLY SyncNext, <1>1, <1>2, <1>3, <1>4, <1>5, <1>6 DEF SyncNext

\* Every step of the synchronous calls keeps the invariant of the scaling.
LEMMA SyncScaleStep ==
    ASSUME Ops \subseteq SyncOps, Exclusive, TypeOK, SyncInv, SyncScaled, [Next]_vars
    PROVE  SyncScaled'
<1>1. CASE UNCHANGED vars
  BY <1>1 DEF SyncScaled, SyncDue, CallerDue, ActiveClients, vars, client, queue, held, scaled
<1>2. CASE Next
  <2>1. SyncNext
    BY <1>2, SyncCases DEF SyncInv
  <2> SUFFICES ASSUME ~SyncDue'
               PROVE  agg' = ActiveClients' \/ \A c \in Clients : vote'[c] <= 0
    BY DEF SyncScaled
  <2>2. \A c \in Clients :
           /\ (alive'[c] /\ st'[c] \in Active) <=> (alive[c] /\ st[c] \in Active)
           /\ vote'[c] <= vote[c]
    BY <2>1, SyncActiveMoves
  <2>3. ActiveClients' = ActiveClients
    BY <2>2 DEF ActiveClients
  <2>4. (\A c \in Clients : vote[c] <= 0) => \A c \in Clients : vote'[c] <= 0
    <3>1. \A c \in Clients : vote[c] \in Int /\ vote'[c] \in Int
      BY TypeStep, ClientsAssumption DEF TypeOK
    <3> QED
      BY <2>2, <3>1
  <2>5. agg' = ActiveClients \/ \A c \in Clients : vote[c] <= 0
    <3>1. CASE SyncDue
      BY <2>1, <3>1, SyncDueMoves
    <3>2. CASE ~SyncDue
      BY <2>1, <3>2, SyncAggMoves DEF SyncScaled
    <3> QED
      BY <3>1, <3>2
  <2> QED
    BY <2>3, <2>4, <2>5
<1> QED
  BY <1>1, <1>2

\* With one call at a time on a client, once everything is done and some client
\* votes, the aggregated throughput is that of the active clients: every call
\* that changes what is active reaches do_clk_scaling (ipa_pm.c:168).
THEOREM SyncAggregate ==
    ASSUME Ops \subseteq SyncOps, Exclusive PROVE Spec => []AggregateCurrent
<1>1. Init => SyncScaled
  BY DEF Init, All, SyncScaled
<1>2. TypeOK /\ SyncInv /\ SyncScaled /\ [Next]_vars => SyncScaled'
  BY SyncScaleStep
<1>3. TypeOK /\ SyncInv /\ SyncScaled => AggregateCurrent
  <2> SUFFICES ASSUME TypeOK, SyncInv, SyncScaled, work.at = "idle",
                      \A t \in Callers : call[t].at = "idle", NEW d \in Clients, vote[d] > 0
               PROVE  agg = ActiveClients
    BY DEF AggregateCurrent, ActiveClients
  <2>1. ~SyncDue
    BY DEF SyncInv, SyncCalls, SyncDue, CallerDue, SuspendPcs
  <2>2. vote[d] \in Int
    BY ClientsAssumption DEF TypeOK
  <2> QED
    BY <2>1, <2>2 DEF SyncScaled
<1> QED
  BY <1>1, <1>2, <1>3, SyncInductive, PTL DEF Spec
=============================================================================

------------------------------- MODULE IpaPm -------------------------------
(***************************************************************************)
(* The IPA power manager, ipa_v3/ipa_pm.c: clients that are activated when *)
(* a driver has traffic and deactivated, at once or by a timer, when it    *)
(* has none.  An active client holds one clock vote (IpaActiveClients)     *)
(* and, in the APPS group, a wakeup source; every change is followed by a  *)
(* run of the clock scaling.                                               *)
(*                                                                         *)
(* One action is one section under the client's state_lock, or one step    *)
(* outside it: a clock vote, a store, a wait.  The votes themselves are    *)
(* counted per client; that a blocking vote returns is the business of     *)
(* IpaActiveClients.                                                       *)
(*                                                                         *)
(* A definition marked "slip" is the next one with a plausible mistake in  *)
(* it.  Next uses none of them: they show that each property can fail.     *)
(***************************************************************************)
EXTENDS Integers, FiniteSets

CONSTANTS Clients,      \* handles of the clients array
          NoClient,     \* "no handle"
          Callers,      \* contexts that call the API
          SkipVote,     \* clients registered with skip_clk_vote
          Apps,         \* clients of IPA_PM_GROUP_APPS
          Ops,          \* the API calls in use
          Exclusive,    \* calls on one client never overlap
          VoteBound     \* bound on the votes counted for a client

ASSUME ClientsAssumption ==
    /\ NoClient \notin Clients
    /\ IsFiniteSet(Callers)
    /\ SkipVote \subseteq Clients /\ Apps \subseteq Clients
    /\ Exclusive \in BOOLEAN
    /\ VoteBound \in Nat \ {0, 1}

\* Every registration of the repository with skip_clk_vote is in the DEFAULT
\* or the MODEM group (ipa_odl.c:350, teth_bridge.c:203, rmnet_ipa.c:3460).
ASSUME GroupsAssumption == SkipVote \intersect Apps = {}

-----------------------------------------------------------------------------
\* enum ipa_pm_state and its two classifications.
Timed  == {"pending_deact", "timer_set", "pending_resched"}
Active == Timed \union {"activated"}
InProgress == {"act_progress", "deact_progress"}
States == Active \union InProgress \union {"deactivated"}

\* Where the worker is, by the work it runs, and where a caller is, by call.
ActivateWorkPcs == {"act_inc", "act_state", "act_done", "act_undo", "act_dec",
                    "act_bit", "act_scale"}
TimerWorkPcs == {"tmr_state", "tmr_dec", "tmr_bit", "tmr_scale"}
WorkPcs == ActivateWorkPcs \union TimerWorkPcs \union {"idle", "scale"}
CancelPcs == {"d_cwait", "d_cwait2", "x_cwait"}
WaitPcs == {"s_wait", "d_wait", "x_wait", "g_wait"}
CallPcs == CancelPcs \union WaitPcs \union
           {"idle", "a_bit", "s_switch", "s_inc", "s_lock", "s_bit", "s_scale",
            "d_lock", "d_dec", "d_set", "d_cancel", "d_scale",
            "x_next", "x_lock", "x_dec", "x_bit", "g_lock", "g_free"}

VARIABLES alive,      \* clients[hdl] is not NULL
          st,         \* state
          timer,      \* deactivate_work is queued
          actWork,    \* activate_work is queued
          complete,   \* the completion is done
          vote,       \* clock votes taken for the client and not dropped
          wake,       \* the wakeup source is active
          bit,        \* bit of active_client_bitmask
          agg,        \* the clients that aggregated_tput was computed from
          scaleWork,  \* clk_scaling.work is queued
          warned,     \* a WARN_ON of a work function was reached
          work,       \* what the single-threaded workqueue runs
          call        \* what each caller runs

client == <<alive, st, complete>>
queue  == <<timer, actWork, scaleWork>>
held   == <<vote, wake>>
scaled == <<bit, agg>>
vars   == <<client, queue, held, scaled, warned, work, call>>

CallRecs == [at : CallPcs, c : Clients \union {NoClient},
             rem : SUBSET Clients, run : BOOLEAN]
NoCall == [at |-> "idle", c |-> NoClient, rem |-> {}, run |-> FALSE]
NoWork == [at |-> "idle", c |-> NoClient]

TypeOK ==
    /\ alive \in [Clients -> BOOLEAN] /\ st \in [Clients -> States]
    /\ timer \in [Clients -> BOOLEAN] /\ actWork \in [Clients -> BOOLEAN]
    /\ complete \in [Clients -> BOOLEAN]
    /\ vote \in [Clients -> -VoteBound .. VoteBound]
    /\ wake \in [Clients -> BOOLEAN] /\ bit \in [Clients -> BOOLEAN]
    /\ agg \in SUBSET Clients
    /\ scaleWork \in BOOLEAN /\ warned \in BOOLEAN
    /\ work \in [at : WorkPcs, c : Clients \union {NoClient}]
    /\ call \in [Callers -> CallRecs]

All(b) == [c \in Clients |-> b]

Init ==
    /\ alive = All(FALSE) /\ st = All("deactivated") /\ complete = All(FALSE)
    /\ timer = All(FALSE) /\ actWork = All(FALSE) /\ scaleWork = FALSE
    /\ vote = All(0) /\ wake = All(FALSE)
    /\ bit = All(FALSE) /\ agg = {}
    /\ warned = FALSE
    /\ work = NoWork
    /\ call = [t \in Callers |-> NoCall]

-----------------------------------------------------------------------------
(* The pieces the API is made of.                                          *)

Busy(c) == \E t \in Callers : call[t].c = c
Deregistering(c) == \E t \in Callers : call[t].c = c /\ call[t].at \in {"g_wait", "g_lock", "g_free"}

\* A call may start on a registered client; one that is being deregistered is
\* not called any more.
MayCall(t, op, c) ==
    /\ op \in Ops
    /\ call[t].at = "idle"
    /\ alive[c] /\ ~Deregistering(c)
    /\ Exclusive => ~Busy(c)

Enter(t, c, l) == call' = [call EXCEPT ![t].at = l, ![t].c = c]
Goto(t, l) == call' = [call EXCEPT ![t].at = l]
Return(t) == call' = [call EXCEPT ![t] = NoCall]

SetState(c, s) == st' = [st EXCEPT ![c] = s]

Inc(c) == vote' = IF c \in SkipVote THEN vote ELSE [vote EXCEPT ![c] = @ + 1]
Dec(c) == vote' = IF c \in SkipVote THEN vote ELSE [vote EXCEPT ![c] = @ - 1]
StayAwake(c) == wake' = [wake EXCEPT ![c] = @ \/ c \in Apps]
RelaxOthers(c) == wake' = [wake EXCEPT ![c] = @ /\ c \in Apps]     \* slip: the group test inverted
Relax(c) == wake' = [wake EXCEPT ![c] = @ /\ c \notin Apps \ SkipVote]

\* The vote moves by one, within the bound of the model.
IncBounded(c) == vote[c] < VoteBound /\ Inc(c) /\ StayAwake(c)
DecTwice(c) == vote' = [vote EXCEPT ![c] = @ - 2] /\ Relax(c)      \* slip: two drops for one vote
DecBounded(c) == vote[c] > -VoteBound /\ Dec(c) /\ Relax(c)

\* queue_delayed_work fails while the work is being cancelled, and does
\* nothing when it is queued already.
QueueTimer(c) ==
    timer' = [timer EXCEPT ![c] =
                @ \/ ~\E t \in Callers : call[t].c = c /\ call[t].at \in CancelPcs]

CancelTimer(c) == timer' = [timer EXCEPT ![c] = FALSE]
TimerRunning(c) == work.c = c /\ work.at \in TimerWorkPcs

\* do_clk_scaling returns at once when the clocks are gated, which they may
\* be only if no client votes; else it sums up the active clients.
DoClkScaling ==
    \/ agg' = {c \in Clients : alive[c] /\ st[c] \in Active}
    \/ (\A c \in Clients : vote[c] <= 0) /\ UNCHANGED agg

-----------------------------------------------------------------------------
(* ipa_pm_register and ipa_pm_deregister.                                  *)

\* A slot is reused only once the work functions have let go of its client.
Register(c) ==
    /\ ~alive[c]
    /\ work.c # c /\ ~timer[c] /\ ~actWork[c]
    /\ alive' = [alive EXCEPT ![c] = TRUE]
    /\ SetState(c, "deactivated")
    /\ complete' = [complete EXCEPT ![c] = FALSE]
    /\ wake' = [wake EXCEPT ![c] = FALSE]
    /\ UNCHANGED <<queue, vote, scaled, warned, work, call>>

DeregisterTest(t, c) ==                 \* "Activated clients cannot be deregistered"
    IF st[c] \in Active THEN Return(t) ELSE Enter(t, c, "g_free")

Deregister(t, c) ==
    /\ MayCall(t, "deregister", c)
    /\ ~Busy(c)
    /\ IF st[c] \in InProgress THEN Enter(t, c, "g_wait") ELSE DeregisterTest(t, c)
    /\ UNCHANGED <<client, queue, held, scaled, warned, work>>

DeregisterCheck(t) ==                   \* after the wait
    /\ call[t].at = "g_lock"
    /\ DeregisterTest(t, call[t].c)
    /\ UNCHANGED <<client, queue, held, scaled, warned, work>>

DeregisterFree(t) ==
    /\ call[t].at = "g_free"
    /\ alive' = [alive EXCEPT ![call[t].c] = FALSE]
    /\ Return(t)
    /\ UNCHANGED <<st, complete, queue, held, scaled, warned, work>>

-----------------------------------------------------------------------------
(* ipa_pm_activate and ipa_pm_activate_sync, over ipa_pm_activate_helper.  *)

\* An active client stays active; a timer that is set will find it so.
Reactivated(s) == IF s \in {"pending_deact", "pending_resched"} THEN "timer_set" ELSE s

ActivateAgain(t, c) ==                  \* 0, or -EINPROGRESS
    /\ MayCall(t, "activate", c)
    /\ \/ st[c] \in Active /\ SetState(c, Reactivated(st[c]))
       \/ st[c] \in InProgress /\ SetState(c, "act_progress")
    /\ UNCHANGED <<alive, complete, queue, held, scaled, warned, work, call>>

\* The clocks are on, or the client needs none: no wait.  They may be on
\* for someone who is not a client, and are on when a client votes.
ActivateNow(t, c) ==
    /\ MayCall(t, "activate", c)
    /\ st[c] = "deactivated"
    /\ IncBounded(c)
    /\ SetState(c, "activated")
    /\ Enter(t, c, "a_bit")
    /\ UNCHANGED <<alive, complete, queue, scaled, warned, work>>

ActivateNowBit(t) ==
    /\ call[t].at = "a_bit"
    /\ bit' = [bit EXCEPT ![call[t].c] = TRUE]
    /\ scaleWork' = TRUE
    /\ Return(t)
    /\ UNCHANGED <<client, timer, actWork, held, agg, warned, work>>

ActivateLater(t, c) ==                  \* -EINPROGRESS
    /\ MayCall(t, "activate", c)
    /\ st[c] = "deactivated" /\ c \notin SkipVote
    /\ \A d \in Clients : vote[d] <= 0
    /\ SetState(c, "act_progress")
    /\ complete' = [complete EXCEPT ![c] = FALSE]
    /\ actWork' = [actWork EXCEPT ![c] = TRUE]
    /\ UNCHANGED <<alive, timer, scaleWork, held, scaled, warned, work, call>>

\* The switch of the synchronous call, in one section with the test before it
\* or, after a wait, with the lock taken again.
SyncOn(t, c) ==
    \/ st[c] \in Active /\ SetState(c, Reactivated(st[c])) /\ Return(t)
    \/ st[c] \in InProgress /\ Return(t) /\ UNCHANGED st                \* -EPERM
    \/ /\ st[c] = "deactivated" /\ c \notin SkipVote
       /\ SetState(c, "act_progress") /\ Enter(t, c, "s_inc")
    \/ /\ st[c] = "deactivated" /\ c \in SkipVote
       /\ SetState(c, "activated") /\ Enter(t, c, "s_bit")

ActivateSync(t, c) ==
    /\ MayCall(t, "activate_sync", c)
    /\ IF st[c] \in InProgress THEN Enter(t, c, "s_wait") /\ UNCHANGED st ELSE SyncOn(t, c)
    /\ UNCHANGED <<alive, complete, queue, held, scaled, warned, work>>

SyncSwitch(t) ==                        \* after the wait
    /\ call[t].at = "s_switch"
    /\ SyncOn(t, call[t].c)
    /\ UNCHANGED <<alive, complete, queue, held, scaled, warned, work>>

SyncInc(t) ==
    /\ call[t].at = "s_inc"
    /\ vote[call[t].c] < VoteBound /\ Inc(call[t].c)
    /\ Goto(t, "s_lock")
    /\ UNCHANGED <<client, queue, wake, scaled, warned, work>>

SyncLock(t) ==                          \* "we got the clocks"
    /\ call[t].at = "s_lock"
    /\ SetState(call[t].c, "activated")
    /\ StayAwake(call[t].c)
    /\ Goto(t, "s_bit")
    /\ UNCHANGED <<alive, complete, queue, vote, scaled, warned, work>>

SyncBit(t) ==
    /\ call[t].at = "s_bit"
    /\ bit' = [bit EXCEPT ![call[t].c] = TRUE]
    /\ Goto(t, "s_scale")
    /\ UNCHANGED <<client, queue, held, agg, warned, work>>

-----------------------------------------------------------------------------
(* ipa_pm_deferred_deactivate.                                             *)

Deferred(s) ==
    CASE s = "act_progress" -> "deact_progress"
      [] s = "activated"    -> "pending_deact"
      [] s \in {"timer_set", "pending_deact"} -> "pending_resched"
      [] OTHER -> s

DeferredDeactivate(t, c) ==
    /\ MayCall(t, "deferred", c)
    /\ SetState(c, Deferred(st[c]))
    /\ IF st[c] = "activated" THEN QueueTimer(c) ELSE UNCHANGED timer
    /\ UNCHANGED <<alive, complete, actWork, scaleWork, held, scaled, warned, work, call>>

-----------------------------------------------------------------------------
(* ipa_pm_deactivate_sync.                                                 *)

DeactivateSyncUncancelled(t, c) ==      \* slip: the timer left queued
    /\ MayCall(t, "deactivate_sync", c)
    /\ Enter(t, c, "d_cwait")
    /\ UNCHANGED <<client, queue, held, scaled, warned, work>>

DeactivateSync(t, c) ==
    /\ MayCall(t, "deactivate_sync", c)
    /\ CancelTimer(c)
    /\ Enter(t, c, "d_cwait")
    /\ UNCHANGED <<client, actWork, scaleWork, held, scaled, warned, work>>

DeactivateCheck(t) ==                   \* the state is read without the lock
    /\ call[t].at = "d_cwait"
    /\ ~TimerRunning(call[t].c)
    /\ Goto(t, IF st[call[t].c] \in InProgress THEN "d_wait" ELSE "d_lock")
    /\ UNCHANGED <<client, queue, held, scaled, warned, work>>

DeactivateLockAlways(t) ==              \* slip: no early return
    /\ call[t].at = "d_lock"
    /\ Goto(t, "d_dec")
    /\ UNCHANGED <<client, queue, held, scaled, warned, work>>

DeactivateLock(t) ==
    /\ call[t].at = "d_lock"
    /\ IF st[call[t].c] = "deactivated" THEN Return(t) ELSE Goto(t, "d_dec")
    /\ UNCHANGED <<client, queue, held, scaled, warned, work>>

DeactivateDec(t) ==
    /\ call[t].at = "d_dec"
    /\ DecBounded(call[t].c)
    /\ Goto(t, "d_set")
    /\ UNCHANGED <<client, queue, scaled, warned, work>>

DeactivateSet(t) ==
    /\ call[t].at = "d_set"
    /\ SetState(call[t].c, "deactivated")
    /\ Goto(t, "d_cancel")
    /\ UNCHANGED <<alive, complete, queue, held, scaled, warned, work>>

DeactivateCancel(t) ==
    /\ call[t].at = "d_cancel"
    /\ CancelTimer(call[t].c)
    /\ Goto(t, "d_cwait2")
    /\ UNCHANGED <<client, actWork, scaleWork, held, scaled, warned, work>>

DeactivateBit(t) ==
    /\ call[t].at = "d_cwait2"
    /\ ~TimerRunning(call[t].c)
    /\ bit' = [bit EXCEPT ![call[t].c] = FALSE]
    /\ Goto(t, "d_scale")
    /\ UNCHANGED <<client, queue, held, agg, warned, work>>

\* Both synchronous calls end with the clock scaling.
SyncScale(t) ==
    /\ call[t].at \in {"s_scale", "d_scale"}
    /\ DoClkScaling
    /\ Return(t)
    /\ UNCHANGED <<client, queue, held, bit, warned, work>>

-----------------------------------------------------------------------------
(* ipa_pm_deactivate_all_deferred, called when the AP suspends: where it   *)
(* is, at which client, which are left, and whether to scale at the end.   *)

AllAt(t, l, c, rem, run) ==
    call' = [call EXCEPT ![t] = [at |-> l, c |-> c, rem |-> rem, run |-> run]]

AllDeferred(t) ==
    /\ "all" \in Ops
    /\ call[t].at = "idle"
    /\ AllAt(t, "x_next", NoClient, Clients, FALSE)
    /\ UNCHANGED <<client, queue, held, scaled, warned, work>>

\* The code goes by ascending handles; no property depends on the order.
AllNext(t, c) ==
    /\ call[t].at = "x_next"
    /\ c \in call[t].rem /\ alive[c] /\ ~Deregistering(c)
    /\ Exclusive => ~Busy(c)
    /\ CancelTimer(c)
    /\ AllAt(t, "x_cwait", c, call[t].rem \ {c}, call[t].run)
    /\ UNCHANGED <<client, actWork, scaleWork, held, scaled, warned, work>>

Continue(t) == call' = [call EXCEPT ![t].at = "x_next", ![t].c = NoClient]

AllCheck(t) ==                          \* the state is read without the lock
    /\ call[t].at = "x_cwait"
    /\ ~TimerRunning(call[t].c)
    /\ Goto(t, IF st[call[t].c] \in InProgress THEN "x_wait" ELSE "x_lock")
    /\ UNCHANGED <<client, queue, held, scaled, warned, work>>

AllLock(t) ==
    LET c == call[t].c
    IN  /\ call[t].at = "x_lock"
        /\ \/ st[c] = "timer_set" /\ SetState(c, "activated") /\ Continue(t)
           \/ /\ st[c] \in {"pending_deact", "pending_resched"}
              /\ SetState(c, "deactivated")
              /\ AllAt(t, "x_dec", c, call[t].rem, TRUE)
           \/ st[c] \notin Timed /\ UNCHANGED st /\ Continue(t)
        /\ UNCHANGED <<alive, complete, queue, held, scaled, warned, work>>

AllDec(t) ==
    /\ call[t].at = "x_dec"
    /\ DecBounded(call[t].c)
    /\ Goto(t, "x_bit")
    /\ UNCHANGED <<client, queue, scaled, warned, work>>

AllBit(t) ==
    /\ call[t].at = "x_bit"
    /\ bit' = [bit EXCEPT ![call[t].c] = FALSE]
    /\ Continue(t)
    /\ UNCHANGED <<client, queue, held, agg, warned, work>>

AllDoneUnscaled(t) ==                   \* slip: the scaling forgotten
    /\ call[t].at = "x_next"
    /\ \A c \in call[t].rem : ~alive[c]
    /\ Return(t)
    /\ UNCHANGED <<client, queue, held, scaled, warned, work>>

AllDone(t) ==
    /\ call[t].at = "x_next"
    /\ \A c \in call[t].rem : ~alive[c]
    /\ IF call[t].run THEN DoClkScaling ELSE UNCHANGED agg
    /\ Return(t)
    /\ UNCHANGED <<client, queue, held, bit, warned, work>>

-----------------------------------------------------------------------------
\* wait_for_completion, in each of the four calls that use it.
WaitComplete(t) ==
    /\ call[t].at \in WaitPcs
    /\ complete[call[t].c]
    /\ CASE call[t].at = "s_wait" -> Goto(t, "s_switch")
         [] call[t].at = "d_wait" -> Goto(t, "d_lock")
         [] call[t].at = "x_wait" -> Continue(t)
         [] call[t].at = "g_wait" -> Goto(t, "g_lock")
    /\ UNCHANGED <<client, queue, held, scaled, warned, work>>

-----------------------------------------------------------------------------
(* The workqueue: activate_work_func.                                      *)

WorkGoto(l) == work' = [work EXCEPT !.at = l]
WorkDone == work' = NoWork

ActivateWork(c) ==
    /\ work.at = "idle" /\ actWork[c]
    /\ actWork' = [actWork EXCEPT ![c] = FALSE]
    /\ work' = [at |-> "act_inc", c |-> c]
    /\ UNCHANGED <<client, timer, scaleWork, held, scaled, warned, call>>

ActivateWorkInc ==
    /\ work.at = "act_inc"
    /\ IncBounded(work.c)
    /\ WorkGoto("act_state")
    /\ UNCHANGED <<client, queue, scaled, warned, call>>

ActivateWorkStateLeft ==                \* slip: a deactivation meanwhile is overlooked
    /\ work.at = "act_state"
    /\ SetState(work.c, IF st[work.c] = "act_progress" THEN "activated" ELSE st[work.c])
    /\ WorkGoto("act_done")
    /\ UNCHANGED <<alive, complete, queue, held, scaled, warned, call>>

ActivateWorkState ==
    LET s == st[work.c]
    IN  /\ work.at = "act_state"
        /\ IF s = "deact_progress"
           THEN SetState(work.c, "deactivated") /\ WorkGoto("act_undo")
           ELSE SetState(work.c, IF s = "act_progress" THEN "activated" ELSE s)
                /\ WorkGoto("act_done")
        /\ warned' = (warned \/ s \notin InProgress)
        /\ UNCHANGED <<alive, complete, queue, held, scaled, call>>

ActivateWorkComplete ==
    /\ work.at \in {"act_done", "act_undo"}
    /\ complete' = [complete EXCEPT ![work.c] = TRUE]
    /\ WorkGoto(IF work.at = "act_undo" THEN "act_dec" ELSE "act_bit")
    /\ UNCHANGED <<alive, st, queue, held, scaled, warned, call>>

ActivateWorkDec ==                      \* deactivated meanwhile
    /\ work.at = "act_dec"
    /\ DecBounded(work.c)
    /\ WorkDone
    /\ UNCHANGED <<client, queue, scaled, warned, call>>

\* The bit, the client's callback, then the scaling.
ActivateWorkBit ==
    /\ work.at = "act_bit"
    /\ bit' = [bit EXCEPT ![work.c] = TRUE]
    /\ WorkGoto("act_scale")
    /\ UNCHANGED <<client, queue, held, agg, warned, call>>

-----------------------------------------------------------------------------
(* The workqueue: delayed_deferred_deactivate_work_func.                   *)

TimerWork(c) ==
    /\ work.at = "idle" /\ timer[c]
    /\ timer' = [timer EXCEPT ![c] = FALSE]
    /\ work' = [at |-> "tmr_state", c |-> c]
    /\ UNCHANGED <<client, actWork, scaleWork, held, scaled, warned, call>>

TimerWorkStateOnce ==                   \* slip: the timer not queued again
    LET c == work.c
        s == st[c]
    IN  /\ work.at = "tmr_state"
        /\ \/ s = "timer_set" /\ SetState(c, "activated") /\ WorkDone
           \/ s = "pending_resched" /\ SetState(c, "pending_deact") /\ WorkDone
           \/ s = "pending_deact" /\ SetState(c, "deactivated") /\ WorkGoto("tmr_dec")
           \/ s \notin Timed /\ WorkDone /\ UNCHANGED st
        /\ warned' = (warned \/ s \notin Timed)
        /\ UNCHANGED <<alive, complete, queue, held, scaled, call>>

TimerWorkState ==
    LET c == work.c
        s == st[c]
    IN  /\ work.at = "tmr_state"
        /\ \/ s = "timer_set" /\ SetState(c, "activated") /\ WorkDone /\ UNCHANGED timer
           \/ /\ s = "pending_resched"
              /\ SetState(c, "pending_deact") /\ QueueTimer(c) /\ WorkDone
           \/ /\ s = "pending_deact"
              /\ SetState(c, "deactivated") /\ WorkGoto("tmr_dec") /\ UNCHANGED timer
           \/ s \notin Timed /\ WorkDone /\ UNCHANGED <<st, timer>>
        /\ warned' = (warned \/ s \notin Timed)
        /\ UNCHANGED <<alive, complete, actWork, scaleWork, held, scaled, call>>

TimerWorkDec ==
    /\ work.at = "tmr_dec"
    /\ DecBounded(work.c)
    /\ WorkGoto("tmr_bit")
    /\ UNCHANGED <<client, queue, scaled, warned, call>>

TimerWorkBit ==
    /\ work.at = "tmr_bit"
    /\ bit' = [bit EXCEPT ![work.c] = FALSE]
    /\ WorkGoto("tmr_scale")
    /\ UNCHANGED <<client, queue, held, agg, warned, call>>

-----------------------------------------------------------------------------
(* The workqueue: the clock scaling, on its own or at the end of a work.   *)

ScaleWork ==
    /\ work.at = "idle" /\ scaleWork
    /\ scaleWork' = FALSE
    /\ WorkGoto("scale")
    /\ UNCHANGED <<client, timer, actWork, held, scaled, warned, call>>

WorkScale ==
    /\ work.at \in {"scale", "act_scale", "tmr_scale"}
    /\ DoClkScaling
    /\ WorkDone
    /\ UNCHANGED <<client, queue, held, bit, warned, call>>

-----------------------------------------------------------------------------
ApiCall(t) ==
    \/ AllDeferred(t)
    \/ \E c \in Clients :
          \/ Deregister(t, c)
          \/ ActivateAgain(t, c) \/ ActivateNow(t, c) \/ ActivateLater(t, c)
          \/ ActivateSync(t, c) \/ DeferredDeactivate(t, c) \/ DeactivateSync(t, c)

CallStep(t) ==                          \* a call that has started goes on
    \/ DeregisterCheck(t) \/ DeregisterFree(t) \/ ActivateNowBit(t)
    \/ SyncSwitch(t) \/ SyncInc(t) \/ SyncLock(t) \/ SyncBit(t) \/ SyncScale(t)
    \/ DeactivateCheck(t) \/ DeactivateLock(t) \/ DeactivateDec(t)
    \/ DeactivateSet(t) \/ DeactivateCancel(t) \/ DeactivateBit(t)
    \/ \E c \in Clients : AllNext(t, c)
    \/ AllCheck(t) \/ AllLock(t) \/ AllDec(t) \/ AllBit(t) \/ AllDone(t)
    \/ WaitComplete(t)

WorkStart(c) == ActivateWork(c) \/ TimerWork(c)

WorkStep ==                             \* a work that has started goes on
    \/ ActivateWorkInc \/ ActivateWorkState \/ ActivateWorkComplete
    \/ ActivateWorkDec \/ ActivateWorkBit
    \/ TimerWorkState \/ TimerWorkDec \/ TimerWorkBit
    \/ WorkScale

Next ==
    \/ \E c \in Clients : Register(c) \/ WorkStart(c)
    \/ \E t \in Callers : ApiCall(t) \/ CallStep(t)
    \/ ScaleWork \/ WorkStep

Spec == Init /\ [][Next]_vars

(***************************************************************************)
(* Fairness.  A call that has started and a work that has started go on;   *)
(* timers expire and the queue is served in order, so no queued work is    *)
(* passed over forever; nothing here waits for the scaling, which is left  *)
(* free.  Nobody is made to call the API.                                  *)
(***************************************************************************)
Fairness ==
    /\ \A t \in Callers : WF_vars(CallStep(t))
    /\ WF_vars(WorkStep)
    /\ \A c \in Clients : SF_vars(ActivateWork(c)) /\ SF_vars(TimerWork(c))

FairSpec == Spec /\ Fairness

-----------------------------------------------------------------------------
(* Correctness.                                                            *)

One(b) == IF b THEN 1 ELSE 0
At(c, pcs) == {t \in Callers : call[t].c = c /\ call[t].at \in pcs}
WorkAt(c, pcs) == work.c = c /\ work.at \in pcs

\* Votes are balanced: at every moment a voting client holds one vote if it
\* is active, plus the ones in flight - taken by a context that has yet to
\* store the state, or still to be dropped by one that has stored it.  Nothing
\* else is in the count, so an idle client holds no clock (ipa_pm.c:414, 436,
\* 497, 979, 982, 1174, 1229).
VotesBalanced ==
    \A c \in Clients \ SkipVote :
        vote[c] = One(st[c] \in Active)
                  + One(WorkAt(c, {"act_state", "act_undo", "act_dec", "tmr_dec"}))
                  + Cardinality(At(c, {"s_lock", "x_dec"}))
                  - Cardinality(At(c, {"d_set"}))

AtRest(c) == work.c # c /\ ~actWork[c] /\ ~Busy(c)

\* A client that is deactivated and on which nobody works holds no wakeup
\* source: the AP can suspend (ipa_pm.c:438, 499, 1176, 1231).
NoWakeLeak ==
    \A c \in Clients : (AtRest(c) /\ st[c] = "deactivated") => ~wake[c]

\* No work function finds its client in a state it does not expect: the two
\* WARN_ON(1) of ipa_pm.c:428 and 507.
NoUnexpectedState == ~warned

\* A client in one of the "timer set states" (ipa_pm.c:101) is never
\* forgotten: its timer is queued, or running up to its switch, or a caller
\* has cancelled it and will settle the state itself.
TimerCovered ==
    \A c \in Clients : st[c] \in Timed =>
        \/ timer[c] \/ WorkAt(c, {"tmr_state"})
        \/ At(c, {"d_cwait", "d_wait", "d_lock", "d_dec", "d_set", "x_cwait", "x_lock"}) # {}

(***************************************************************************)
(* The calls that take the asynchronous way only: the timer and the        *)
(* worker alone deactivate, one work at a time.  AsyncInv is inductive for *)
(* them; it ties what is queued and what runs to the state of the client.  *)
(***************************************************************************)
AsyncOps == {"activate", "deferred", "deregister"}
AsyncPcs == {"idle", "a_bit", "g_wait", "g_lock", "g_free"}

CallInv ==
    \A t \in Callers :
        /\ call[t].at \in AsyncPcs
        /\ call[t].at = "idle" => call[t].c = NoClient
        /\ call[t].at # "idle" => call[t].c \in Clients
        /\ call[t].at = "g_lock" => st[call[t].c] \notin InProgress
        /\ call[t].at = "g_free" => st[call[t].c] = "deactivated"

WorkInv ==
    /\ work.at \in ActivateWorkPcs \union TimerWorkPcs => work.c \in Clients
    /\ work.at \in ActivateWorkPcs => work.c \notin SkipVote
    /\ work.at = "act_done" => st[work.c] \in Active

ActivationInv(c) ==
    /\ actWork[c] => c \notin SkipVote /\ ~WorkAt(c, {"act_inc", "act_state"})
    /\ st[c] \in InProgress <=> actWork[c] \/ WorkAt(c, {"act_inc", "act_state"})
    /\ st[c] \in InProgress => ~complete[c] /\ ~WorkAt(c, {"act_undo"})

TimerInv(c) ==
    /\ st[c] \in Timed <=> timer[c] \/ WorkAt(c, {"tmr_state"})
    /\ timer[c] => ~WorkAt(c, {"tmr_state"})

VoteInv(c) ==
    vote[c] = One(st[c] \in Active)
              + One(WorkAt(c, {"act_state", "act_undo", "act_dec", "tmr_dec"}))

WakeInv(c) ==
    wake[c] => /\ c \in Apps
               /\ \/ st[c] \in Active
                  \/ WorkAt(c, {"act_state", "act_undo", "act_dec", "tmr_dec"})

\* The inductive invariant of the asynchronous calls: exactly the clients in
\* progress have an activation queued or running, exactly those in a timed
\* state have a timer, and the votes and the wakeup source of a client are
\* accounted for (ipa_pm.c:406-514, 939-1007, 1082-1117).
AsyncInv ==
    /\ ~warned /\ CallInv /\ WorkInv
    /\ \A c \in Clients :
          /\ ~alive[c] => st[c] = "deactivated"
          /\ ActivationInv(c) /\ TimerInv(c) /\ WakeInv(c)
          /\ c \notin SkipVote => VoteInv(c)

\* Once everything is done and some client votes, the aggregated throughput
\* is that of the active clients (ipa_pm.c:168, "aggragated tput value of all
\* valid activated clients").
AggregateCurrent ==
    ( /\ \A c \in Clients : AtRest(c)
      /\ work.at = "idle" /\ ~scaleWork
      /\ \A t \in Callers : call[t].at = "idle"
      /\ \E c \in Clients : vote[c] > 0 )
    => agg = {c \in Clients : alive[c] /\ st[c] \in Active}

\* No vote is dropped that was not taken: the clock count never loses the
\* vote of somebody else (ipa_pm.c:1229; ipa.c:7503 asserts it of the sum).
NoVoteUnderflow == \A c \in Clients : vote[c] >= 0

NoApiCall == \A t \in Callers : ~ApiCall(t)

\* Once nobody calls the API, every activation and every deferred
\* deactivation comes to its end, and stays there (ipa_pm.c:406-514).
Settles ==
    <>[][NoApiCall]_vars =>
        <>[](\A c \in Clients : st[c] \in {"activated", "deactivated"})

\* An activation in progress ends, whatever calls come in between
\* (ipa_pm.c:419-432).
ProgressEnds ==
    \A c \in Clients : st[c] \in InProgress ~> st[c] \notin InProgress

\* A call that waits for the completion returns to its work: the state it
\* waits for is one "activated by work_queue" (ipa_pm.c:98, 846, 947, 1151, 1214).
\* It does not hold: a synchronous activation completes nothing (README, 7).
WaitersResume ==
    \A t \in Callers : call[t].at \in WaitPcs ~> call[t].at \notin WaitPcs
=============================================================================

-------------------------- MODULE IpaActiveClients --------------------------
(***************************************************************************)
(* The IPA clock vote: ipa3_active_clients of ipa_v3/ipa.c, the reference  *)
(* count that every user of the IPA hardware raises before touching it and *)
(* drops afterwards.  The last vote to go suspends the apps pipes and      *)
(* gates the clocks, possibly after a TAG process; the first to come       *)
(* ungates them.  The count is an atomic_t with a lock-free fast path      *)
(* (never 0 -> 1 nor 1 -> 0) and a mutex for the two slow transitions.     *)
(*                                                                         *)
(* One action is one atomic operation of the code: an atomic_t operation,  *)
(* a plain store to the shared flag, a hardware write, or the acquisition  *)
(* of the mutex with the first test made under it.                         *)
(*                                                                         *)
(* A definition marked "slip" is the next one with a plausible mistake in  *)
(* it.  Next uses none of them: they show that each property can fail.     *)
(***************************************************************************)
EXTENDS Integers, FiniteSets

CONSTANTS Threads,      \* users of the clock vote: at most one vote each
          Senders,      \* the threads that send packets while they hold it
          Scalers,      \* contexts that run the clock scaling of ipa_pm.c
          Isr,          \* the IPA interrupt handler
          Wq,           \* the one worker of power_mgmt_wq (max_active is 1)
          NoProc,       \* "the mutex is free"
          Boot,         \* the thread that owns the vote taken by the probe
          Levels,       \* the clock plans in use, a part of 1 .. 4
          BootLevel,    \* the clock plan the probe starts with
          Floors,       \* floor voltages the resource manager asks for
          HasCoal,      \* a coalescing pipe exists, so force close sends
          ClockScaling, \* enable_clock_scaling
          TagMayFail    \* the TAG process may fail to send (-ENOMEM, ...)

Procs == Threads \union Scalers \union {Isr, Wq}

ASSUME ProcsAssumption ==
    /\ IsFiniteSet(Threads) /\ IsFiniteSet(Scalers)
    /\ Boot \in Threads /\ Senders \subseteq Threads
    /\ Threads \intersect Scalers = {}
    /\ Isr \notin Threads \union Scalers
    /\ Wq \notin Threads \union Scalers \union {Isr}
    /\ NoProc \notin Procs

ASSUME LevelsAssumption ==
    Levels \subseteq 1 .. 4 /\ BootLevel \in Levels /\ Floors \subseteq 0 .. 4

ASSUME FlagsAssumption ==
    HasCoal \in BOOLEAN /\ ClockScaling \in BOOLEAN /\ TagMayFail \in BOOLEAN

-----------------------------------------------------------------------------
\* Program points.  A context at one of OwnerPcs owns one vote of the count;
\* one at ZeroPcs or "dec_sub" holds the mutex.
OwnerPcs == {"held", "send_flag", "defer", "tag_send", "tag_clear", "dec",
             "dec_fast", "dec_coal", "dec_clear", "dec_mutex", "dec_sub",
             "dnb_queue"}
EnablePcs == {"en_bus", "en_clk", "en_vote", "en_pipes", "en_inc"}
GatePcs == {"dec_suspend", "gate_vote", "gate_clk", "gate_bus"}
ZeroPcs == EnablePcs \union GatePcs
PlanPcs == {"scale_cmp", "plan_check", "plan_mutex"}
PCs == OwnerPcs \union ZeroPcs \union PlanPcs \union {"idle", "inc_mutex", "bug"}

Works == {"dec", "irq_dec", "tag", "defer"}
VoteWorks == {"dec", "irq_dec", "tag"}   \* works that carry a vote with them

VARIABLES cnt,       \* ipa3_active_clients.cnt
          mutex,     \* owner of ipa3_active_clients.mutex
          pc,        \* where each context is
          pending,   \* works queued on power_mgmt_wq and not yet started
          tag,       \* tag_process_before_gating
          dirty,     \* packets entered the HW since the last TAG packet
          clkVote,   \* ipa_clk_vote
          clkRate,   \* level the IPA core clock runs at, 0 when it is off
          busVote,   \* level of the interconnect vote, 0 for IPA_ICC_NONE
          pipesOn,   \* the apps pipes are running
          currRate,  \* curr_ipa_clk_rate, as the level it stands for
          curVote,   \* clk_scaling.cur_vote of ipa_pm.c
          want       \* the level a context has computed and is applying

hw   == <<clkVote, clkRate, busVote, pipesOn>>
rate == <<currRate, curVote, want>>
vars == <<cnt, mutex, pc, pending, tag, dirty, hw, rate>>

TypeOK ==
    /\ cnt \in Int
    /\ mutex \in Procs \union {NoProc}
    /\ pc \in [Procs -> PCs]
    /\ pending \subseteq Works
    /\ tag \in BOOLEAN /\ dirty \in BOOLEAN
    /\ clkVote \in {0, 1}
    /\ clkRate \in Levels \union {0}
    /\ busVote \in Levels \union {0}
    /\ pipesOn \in BOOLEAN
    /\ currRate \in Levels
    /\ curVote \in Levels \union {0}
    /\ want \in [Scalers -> Levels]

\* The probe enables the clocks itself and sets the count to 1 for the proxy
\* vote; nothing has been sent yet.
Init ==
    /\ cnt = 1
    /\ mutex = NoProc
    /\ pc = [p \in Procs |-> IF p = Boot THEN "held" ELSE "idle"]
    /\ pending = {}
    /\ tag = FALSE /\ dirty = FALSE
    /\ clkVote = 1 /\ clkRate = BootLevel /\ busVote = BootLevel
    /\ pipesOn = TRUE
    /\ currRate = BootLevel /\ curVote = 0
    /\ want = [s \in Scalers |-> BootLevel]

Goto(p, l) == pc' = [pc EXCEPT ![p] = l]

\* Where a context is once its vote is granted: the worker only ever votes
\* for the deferred interrupt.
Granted(p) == IF p = Wq THEN "defer" ELSE "held"

-----------------------------------------------------------------------------
(* ipa3_inc_client_enable_clks: the blocking vote.                         *)

IncFast(p) ==                           \* the first atomic_inc_not_zero
    \/ /\ cnt # 0
       /\ cnt' = cnt + 1
       /\ Goto(p, Granted(p))
    \/ /\ cnt = 0
       /\ Goto(p, "inc_mutex")
       /\ UNCHANGED cnt

IncThread(p) ==
    /\ pc[p] = "idle"
    /\ IncFast(p)
    /\ UNCHANGED <<mutex, pending, tag, dirty, hw, rate>>

IncMutex(p) ==                          \* mutex_lock and the second try
    /\ pc[p] = "inc_mutex"
    /\ mutex = NoProc
    /\ \/ /\ cnt # 0
          /\ cnt' = cnt + 1
          /\ Goto(p, Granted(p))
          /\ UNCHANGED mutex
       \/ /\ cnt = 0
          /\ mutex' = p
          /\ Goto(p, "en_bus")
          /\ UNCHANGED cnt
    /\ UNCHANGED <<pending, tag, dirty, hw, rate>>

\* ipa3_enable_clks: the bus first, then the clock at the current rate, then
\* the flag that other code reads before it touches a register.
EnableBus(p) ==
    /\ pc[p] = "en_bus"
    /\ busVote' = currRate
    /\ Goto(p, "en_clk")
    /\ UNCHANGED <<cnt, mutex, pending, tag, dirty, clkVote, clkRate, pipesOn, rate>>

EnableClk(p) ==
    /\ pc[p] = "en_clk"
    /\ clkRate' = currRate
    /\ Goto(p, "en_vote")
    /\ UNCHANGED <<cnt, mutex, pending, tag, dirty, clkVote, busVote, pipesOn, rate>>

EnableVoteNoResume(p) ==                \* slip: the apps pipes stay suspended
    /\ pc[p] = "en_vote"
    /\ clkVote' = 1
    /\ Goto(p, "en_inc")
    /\ UNCHANGED <<cnt, mutex, pending, tag, dirty, clkRate, busVote, pipesOn, rate>>

EnableVote(p) ==
    /\ pc[p] = "en_vote"
    /\ clkVote' = 1
    /\ Goto(p, "en_pipes")
    /\ UNCHANGED <<cnt, mutex, pending, tag, dirty, clkRate, busVote, pipesOn, rate>>

ResumePipes(p) ==                       \* ipa3_suspend_apps_pipes(false)
    /\ pc[p] = "en_pipes"
    /\ pipesOn' = TRUE
    /\ Goto(p, "en_inc")
    /\ UNCHANGED <<cnt, mutex, pending, tag, dirty, clkVote, clkRate, busVote, rate>>

IncLast(p) ==                           \* atomic_inc and mutex_unlock
    /\ pc[p] = "en_inc"
    /\ cnt' = cnt + 1
    /\ mutex' = NoProc
    /\ Goto(p, Granted(p))
    /\ UNCHANGED <<pending, tag, dirty, hw, rate>>

\* ipa3_inc_client_enable_clks_no_block: -EPERM leaves everything alone.
IncNoBlock(p) ==
    /\ pc[p] = "idle"
    /\ cnt # 0
    /\ cnt' = cnt + 1
    /\ Goto(p, "held")
    /\ UNCHANGED <<mutex, pending, tag, dirty, hw, rate>>

-----------------------------------------------------------------------------
(* What a holder of a vote does with the hardware.                         *)

\* ipa3_send: the descriptors enter the HW first, the flag is set after.
SendQueue(p) ==
    /\ p \in Senders /\ pc[p] = "held"
    /\ dirty' = TRUE
    /\ Goto(p, "send_flag")
    /\ UNCHANGED <<cnt, mutex, pending, tag, hw, rate>>

SendFlag(p) ==
    /\ pc[p] = "send_flag"
    /\ tag' = TRUE
    /\ Goto(p, "held")
    /\ UNCHANGED <<cnt, mutex, pending, dirty, hw, rate>>

-----------------------------------------------------------------------------
(* __ipa3_dec_client_disable_clks: dropping a vote.                        *)

DecThread(p) ==
    /\ pc[p] = "held"
    /\ Goto(p, "dec")
    /\ UNCHANGED <<cnt, mutex, pending, tag, dirty, hw, rate>>

DecEnter(p) ==                          \* "trying to disable clocks with refcnt is 0"
    /\ pc[p] = "dec"
    /\ Goto(p, IF cnt = 0 THEN "bug" ELSE "dec_fast")
    /\ UNCHANGED <<cnt, mutex, pending, tag, dirty, hw, rate>>

DecFast(p) ==                           \* atomic_add_unless(cnt, -1, 1)
    /\ pc[p] = "dec_fast"
    /\ IF cnt # 1
       THEN cnt' = cnt - 1 /\ Goto(p, "idle")
       ELSE UNCHANGED cnt /\ Goto(p, "dec_coal")
    /\ UNCHANGED <<mutex, pending, tag, dirty, hw, rate>>

\* ipa3_force_close_coal sends a command, and ipa3_send sets the TAG flag for
\* every command; the store that follows takes it back.
DecCoal(p) ==
    /\ pc[p] = "dec_coal"
    /\ IF cnt = 1 /\ ~tag
       THEN tag' = HasCoal /\ Goto(p, "dec_clear")
       ELSE UNCHANGED tag /\ Goto(p, "dec_mutex")
    /\ UNCHANGED <<cnt, mutex, pending, dirty, hw, rate>>

DecClear(p) ==
    /\ pc[p] = "dec_clear"
    /\ tag' = FALSE
    /\ Goto(p, "dec_mutex")
    /\ UNCHANGED <<cnt, mutex, pending, dirty, hw, rate>>

\* With the mutex: either the vote moves to the TAG work, or it is dropped.
DecMutex(p) ==
    /\ pc[p] = "dec_mutex"
    /\ mutex = NoProc
    /\ \/ /\ cnt = 1 /\ tag
          /\ tag' = FALSE
          /\ pending' = pending \union {"tag"}
          /\ Goto(p, "idle")
          /\ UNCHANGED mutex
       \/ /\ ~(cnt = 1 /\ tag)
          /\ mutex' = p
          /\ Goto(p, "dec_sub")
          /\ UNCHANGED <<tag, pending>>
    /\ UNCHANGED <<cnt, dirty, hw, rate>>

DecSubNoRecheck(p) ==                   \* slip: gates although a vote came in
    /\ pc[p] = "dec_sub"
    /\ cnt' = cnt - 1
    /\ Goto(p, "dec_suspend")
    /\ UNCHANGED <<mutex, pending, tag, dirty, hw, rate>>

DecSubKeepsMutex(p) ==                  \* slip: early return with the mutex held
    /\ pc[p] = "dec_sub"
    /\ cnt' = cnt - 1
    /\ Goto(p, IF cnt - 1 > 0 THEN "idle" ELSE "dec_suspend")
    /\ UNCHANGED <<mutex, pending, tag, dirty, hw, rate>>

DecSub(p) ==                            \* atomic_sub_return
    /\ pc[p] = "dec_sub"
    /\ cnt' = cnt - 1
    /\ IF cnt - 1 > 0
       THEN mutex' = NoProc /\ Goto(p, "idle")
       ELSE UNCHANGED mutex /\ Goto(p, "dec_suspend")
    /\ UNCHANGED <<pending, tag, dirty, hw, rate>>

\* ipa3_suspend_apps_pipes(true) succeeds ...
SuspendPipes(p) ==
    /\ pc[p] = "dec_suspend"
    /\ tag' = (tag \/ HasCoal)
    /\ pipesOn' = FALSE
    /\ Goto(p, "gate_vote")
    /\ UNCHANGED <<cnt, mutex, pending, dirty, clkVote, clkRate, busVote, rate>>

SuspendBusyNoRetry(p) ==                \* slip: nobody retries the suspend
    /\ pc[p] = "dec_suspend"
    /\ tag' = (tag \/ HasCoal)
    /\ cnt' = cnt + 1
    /\ mutex' = NoProc
    /\ Goto(p, "idle")
    /\ UNCHANGED <<pending, dirty, hw, rate>>

\* ... or finds the HW busy: the vote moves to the delayed work.
SuspendBusy(p) ==
    /\ pc[p] = "dec_suspend"
    /\ tag' = (tag \/ HasCoal)
    /\ cnt' = cnt + 1
    /\ pending' = pending \union {"dec"}
    /\ mutex' = NoProc
    /\ Goto(p, "idle")
    /\ UNCHANGED <<dirty, hw, rate>>

\* ipa3_disable_clks: the flag goes down before the clock stops.
GateVote(p) ==
    /\ pc[p] = "gate_vote"
    /\ clkVote' = 0
    /\ Goto(p, "gate_clk")
    /\ UNCHANGED <<cnt, mutex, pending, tag, dirty, clkRate, busVote, pipesOn, rate>>

GateClk(p) ==                           \* with ipa_pm_set_clock_index(0)
    /\ pc[p] = "gate_clk"
    /\ clkRate' = 0
    /\ curVote' = 0
    /\ Goto(p, "gate_bus")
    /\ UNCHANGED <<cnt, mutex, pending, tag, dirty, clkVote, busVote, pipesOn,
                   currRate, want>>

GateBusDecrements(p) ==                 \* slip: the second store is a decrement
    /\ pc[p] = "gate_bus"
    /\ busVote' = 0
    /\ clkVote' = clkVote - 1
    /\ mutex' = NoProc
    /\ Goto(p, "idle")
    /\ UNCHANGED <<cnt, pending, tag, dirty, clkRate, pipesOn, rate>>

GateBus(p) ==
    /\ pc[p] = "gate_bus"
    /\ busVote' = 0
    /\ clkVote' = 0
    /\ mutex' = NoProc
    /\ Goto(p, "idle")
    /\ UNCHANGED <<cnt, pending, tag, dirty, clkRate, pipesOn, rate>>

\* ipa3_dec_client_disable_clks_no_block: the last vote goes to the work.
DecNoBlock(p) ==
    /\ pc[p] = "held"
    /\ IF cnt # 1
       THEN cnt' = cnt - 1 /\ Goto(p, "idle")
       ELSE UNCHANGED cnt /\ Goto(p, "dnb_queue")
    /\ UNCHANGED <<mutex, pending, tag, dirty, hw, rate>>

DecNoBlockQueue(p) ==
    /\ pc[p] = "dnb_queue"
    /\ pending' = pending \union {"dec"}
    /\ Goto(p, "idle")
    /\ UNCHANGED <<cnt, mutex, tag, dirty, hw, rate>>

-----------------------------------------------------------------------------
(* The interrupt handler and the worker of power_mgmt_wq.                  *)

IsrDefer ==                             \* the non-blocking vote failed
    /\ pc[Isr] = "idle"
    /\ cnt = 0
    /\ pending' = pending \union {"defer"}
    /\ UNCHANGED <<cnt, mutex, pc, tag, dirty, hw, rate>>

\* ipa_dec_clients_disable_clks_on_wq, the handler of two delayed works.
WorkDec(w) ==
    /\ w \in {"dec", "irq_dec"} \intersect pending
    /\ pc[Wq] = "idle"
    /\ pending' = pending \ {w}
    /\ Goto(Wq, "dec")
    /\ UNCHANGED <<cnt, mutex, tag, dirty, hw, rate>>

WorkTag ==                              \* ipa3_start_tag_process
    /\ "tag" \in pending
    /\ pc[Wq] = "idle"
    /\ pending' = pending \ {"tag"}
    /\ Goto(Wq, "tag_send")
    /\ UNCHANGED <<cnt, mutex, tag, dirty, hw, rate>>

\* ipa3_tag_process: ipa3_send of the TAG packet (which sets the flag like
\* any send), then the flag is cleared.
TagSend ==
    /\ pc[Wq] = "tag_send"
    /\ dirty' = FALSE
    /\ tag' = TRUE
    /\ Goto(Wq, "tag_clear")
    /\ UNCHANGED <<cnt, mutex, pending, hw, rate>>

TagFail ==                              \* logged; the vote is dropped anyway
    /\ TagMayFail
    /\ pc[Wq] = "tag_send"
    /\ Goto(Wq, "dec")
    /\ UNCHANGED <<cnt, mutex, pending, tag, dirty, hw, rate>>

TagClear ==
    /\ pc[Wq] = "tag_clear"
    /\ tag' = FALSE
    /\ Goto(Wq, "dec")
    /\ UNCHANGED <<cnt, mutex, pending, dirty, hw, rate>>

WorkDeferNoBlock ==                     \* slip: a vote that may be refused
    /\ "defer" \in pending
    /\ pc[Wq] = "idle"
    /\ pending' = pending \ {"defer"}
    /\ IF cnt # 0 THEN cnt' = cnt + 1 /\ Goto(Wq, "defer") ELSE UNCHANGED <<cnt, pc>>
    /\ UNCHANGED <<mutex, tag, dirty, hw, rate>>

WorkDefer ==                            \* ipa3_interrupt_defer votes first
    /\ "defer" \in pending
    /\ pc[Wq] = "idle"
    /\ pending' = pending \ {"defer"}
    /\ IncFast(Wq)
    /\ UNCHANGED <<mutex, tag, dirty, hw, rate>>

DecDelayWqIgnoresQueued ==              \* slip: the queued work is given a second vote
    /\ pc[Wq] = "defer"
    /\ pending' = pending \union {"irq_dec"}
    /\ Goto(Wq, "idle")
    /\ UNCHANGED <<cnt, mutex, tag, dirty, hw, rate>>

\* ... and leaves its vote to a delayed work, or drops it itself when that
\* work is already queued (ipa3_dec_client_disable_clks_delay_wq).
DecDelayWq ==
    /\ pc[Wq] = "defer"
    /\ \/ /\ "irq_dec" \notin pending
          /\ pending' = pending \union {"irq_dec"}
          /\ Goto(Wq, "idle")
       \/ /\ "irq_dec" \in pending
          /\ Goto(Wq, "dec")
          /\ UNCHANGED pending
    /\ UNCHANGED <<cnt, mutex, tag, dirty, hw, rate>>

-----------------------------------------------------------------------------
(* Clock scaling.                                                          *)

\* do_clk_scaling of ipa_pm.c: it computes a level from the demand of the
\* moment while the clocks are on, and compares it with the last one later.
\* The level stored in cur_vote is the level applied: the re-read of the plain
\* field in the next statement is served by the store before it.
DoClkScaling(s, lvl) ==
    /\ pc[s] = "idle"
    /\ clkVote = 1
    /\ want' = [want EXCEPT ![s] = lvl]
    /\ Goto(s, "scale_cmp")
    /\ UNCHANGED <<cnt, mutex, pending, tag, dirty, hw, currRate, curVote>>

ScaleCmp(s) ==
    /\ pc[s] = "scale_cmp"
    /\ curVote' = want[s]
    /\ Goto(s, IF curVote # want[s] /\ ClockScaling THEN "plan_check" ELSE "idle")
    /\ UNCHANGED <<cnt, mutex, pending, tag, dirty, hw, currRate, want>>

\* ipa3_set_required_perf_profile: the level that the bandwidth calls for,
\* or NOMINAL without scaling, raised to the floor.
NeededVoltage(floor, bw) ==
    LET needed == IF ClockScaling THEN bw ELSE 3
    IN  IF needed > floor THEN needed ELSE floor

SetRequiredPerfProfile(s, floor, bw) ==
    /\ pc[s] = "idle"
    /\ NeededVoltage(floor, bw) \in Levels
    /\ want' = [want EXCEPT ![s] = NeededVoltage(floor, bw)]
    /\ Goto(s, "plan_check")
    /\ UNCHANGED <<cnt, mutex, pending, tag, dirty, hw, currRate, curVote>>

PlanCheck(s) ==                         \* "Same voltage", read without the mutex
    /\ pc[s] = "plan_check"
    /\ Goto(s, IF want[s] = currRate THEN "idle" ELSE "plan_mutex")
    /\ UNCHANGED <<cnt, mutex, pending, tag, dirty, hw, rate>>

PlanMutexUnlocked(s) ==                 \* slip: races with ipa3_enable_clks
    /\ pc[s] = "plan_mutex"
    /\ currRate' = want[s]
    /\ IF cnt > 0
       THEN clkRate' = want[s] /\ busVote' = want[s]
       ELSE UNCHANGED <<clkRate, busVote>>
    /\ Goto(s, "idle")
    /\ UNCHANGED <<cnt, mutex, pending, tag, dirty, clkVote, pipesOn, curVote, want>>

\* The critical section of ipa3_set_clock_plan_from_pm.
PlanMutex(s) ==
    /\ pc[s] = "plan_mutex"
    /\ mutex = NoProc
    /\ currRate' = want[s]
    /\ IF cnt > 0
       THEN clkRate' = want[s] /\ busVote' = want[s]
       ELSE UNCHANGED <<clkRate, busVote>>
    /\ Goto(s, "idle")
    /\ UNCHANGED <<cnt, mutex, pending, tag, dirty, clkVote, pipesOn, curVote, want>>

-----------------------------------------------------------------------------
\* Steps of a context inside the blocking vote, and inside the drop.
IncStep(p) == \/ EnableBus(p) \/ EnableClk(p) \/ EnableVote(p)
              \/ ResumePipes(p) \/ IncLast(p)

DecStep(p) == \/ DecEnter(p) \/ DecFast(p) \/ DecCoal(p) \/ DecClear(p)
              \/ DecSub(p) \/ GateVote(p) \/ GateClk(p) \/ GateBus(p)

Suspend(p) == SuspendPipes(p) \/ SuspendBusy(p)

ThreadStep(t) ==
    \/ IncThread(t) \/ IncNoBlock(t) \/ IncMutex(t) \/ IncStep(t)
    \/ SendQueue(t) \/ SendFlag(t)
    \/ DecThread(t) \/ DecMutex(t) \/ DecStep(t) \/ Suspend(t)
    \/ DecNoBlock(t) \/ DecNoBlockQueue(t)

IsrStep ==
    IncNoBlock(Isr) \/ IsrDefer \/ DecNoBlock(Isr) \/ DecNoBlockQueue(Isr)

WqStep ==
    \/ \E w \in Works : WorkDec(w)
    \/ WorkTag \/ TagSend \/ TagFail \/ TagClear
    \/ WorkDefer \/ DecDelayWq
    \/ IncMutex(Wq) \/ IncStep(Wq)
    \/ DecMutex(Wq) \/ DecStep(Wq) \/ Suspend(Wq)

ScalerStep(s) ==
    \/ \E lvl \in Levels : DoClkScaling(s, lvl)
    \/ \E floor \in Floors, bw \in Levels :
          SetRequiredPerfProfile(s, floor, bw)
    \/ ScaleCmp(s) \/ PlanCheck(s) \/ PlanMutex(s)

Next ==
    \/ \E t \in Threads : ThreadStep(t)
    \/ IsrStep
    \/ WqStep
    \/ \E s \in Scalers : ScalerStep(s)

Spec == Init /\ [][Next]_vars

(***************************************************************************)
(* Fairness.  A context inside the vote code keeps running, the worker of  *)
(* the queue keeps running, and the mutex hands itself to its waiters      *)
(* (Linux mutexes do: strong fairness on the two acquisitions).  The queue *)
(* is a FIFO, so no queued work is passed over forever: strong fairness on *)
(* the start of each.  The HW is not busy forever: SuspendPipes is         *)
(* strongly fair.  Nothing makes a thread start, nor drop the vote it      *)
(* holds.                                                                  *)
(***************************************************************************)
Voters == Threads \union {Wq}

\* The steps of the vote code that wait for nobody.
Running(p) ==
    IncStep(p) \/ DecStep(p) \/ Suspend(p) \/ SendFlag(p) \/ DecNoBlockQueue(p)

Fairness ==
    /\ \A p \in Voters : SF_vars(IncMutex(p) \/ DecMutex(p)) /\ SF_vars(SuspendPipes(p))
    /\ \A t \in Threads : WF_vars(Running(t))
    /\ WF_vars(DecNoBlock(Isr) \/ DecNoBlockQueue(Isr))
    /\ WF_vars(WqStep)
    /\ SF_vars(WorkTag) /\ SF_vars(WorkDefer)
    /\ \A w \in {"dec", "irq_dec"} : SF_vars(WorkDec(w))

FairSpec == Spec /\ Fairness

-----------------------------------------------------------------------------
(* Correctness.                                                            *)

Owners == {p \in Procs : pc[p] \in OwnerPcs}
Carried == pending \intersect VoteWorks

\* No vote is lost or invented: the count is the number of contexts that own
\* a vote plus the queued works that carry one.  queue_work on a work that is
\* already queued does nothing, so a vote handed to a pending work would be
\* lost and the clocks would never gate (ipa.c:7533, 7545, 7627, 7643).
VoteConservation ==
    cnt = Cardinality(Owners) + Cardinality(Carried)

\* A vote is a promise: while any is outstanding the bus is voted, the clock
\* runs, the flag other code reads says so, and the apps pipes are running.
Usable == clkVote = 1 /\ clkRate # 0 /\ busVote # 0 /\ pipesOn

ClockedWhileVoted ==
    (Owners # {} \/ Carried # {}) => Usable

\* The assertion "trying to disable clocks with refcnt is 0" of the drop
\* (ipa.c:7502) never fires.
RefcntNeverUnderflows == \A p \in Procs : pc[p] # "bug"

\* Whenever ipa_clk_vote reads 1 the clock runs, and whenever the clock runs
\* the bus is voted: "Need to set this flag first before clock off"
\* (ipa.c:7234).
FlagBeforeClock ==
    /\ clkVote = 1 => clkRate # 0
    /\ clkRate # 0 => busVote # 0

\* With the mutex free the hardware is where the count and the recorded rate
\* say: at curr_ipa_clk_rate when voted, entirely off when not.
HwFollowsCount ==
    mutex = NoProc =>
        IF cnt > 0 THEN clkRate = currRate /\ busVote = currRate
                   ELSE clkVote = 0 /\ clkRate = 0 /\ busVote = 0 /\ ~pipesOn

\* A step that gates the clock finds no vote outstanding, and no step takes
\* the count from 0 without the hardware being usable already.
GateOnlyUnvoted ==
    [][/\ (Usable /\ ~Usable') => cnt = 0 /\ cnt' = 0
       /\ (cnt = 0 /\ cnt' # 0) => Usable]_vars

\* The inductive invariant behind the four above.  Who holds the mutex:
MutexPcs == ZeroPcs \union {"dec_sub"}
MutexInv == /\ \A p \in Procs : pc[p] \in MutexPcs => mutex = p
            /\ mutex # NoProc => pc[mutex] \in MutexPcs

\* No vote exists while a context switches the hardware; and a context about
\* to queue the drop of the last vote is alone in that, with no such work
\* queued (the count was 1 when it looked, and its own vote is still in it).
ZeroInv == \A p \in Procs : pc[p] \in ZeroPcs => cnt = 0
QueueInv == \A p \in Procs : pc[p] = "dnb_queue" =>
                /\ "dec" \notin pending
                /\ \A q \in Procs : pc[q] = "dnb_queue" => q = p

\* What the hardware is at each point of the two switches.
HwIs(vote, clk, bus, pipes) ==
    clkVote = vote /\ clkRate = clk /\ busVote = bus /\ pipesOn = pipes

HwInv ==
    /\ cnt > 0 => HwIs(1, currRate, currRate, TRUE)
    /\ (cnt = 0 /\ mutex = NoProc) => HwIs(0, 0, 0, FALSE)
    /\ \A p \in Procs :
          /\ pc[p] \in {"en_inc", "dec_suspend"} => HwIs(1, currRate, currRate, TRUE)
          /\ pc[p] \in {"en_pipes", "gate_vote"} => HwIs(1, currRate, currRate, FALSE)
          /\ pc[p] \in {"en_vote", "gate_clk"} => HwIs(0, currRate, currRate, FALSE)
          /\ pc[p] \in {"en_clk", "gate_bus"} => HwIs(0, 0, currRate, FALSE)
          /\ pc[p] = "en_bus" => HwIs(0, 0, 0, FALSE)

\* The whole of it, proved in IpaActiveClientsProofs.
IndInv == VoteConservation /\ RefcntNeverUnderflows /\ MutexInv /\ ZeroInv /\ QueueInv /\ HwInv

\* "make sure TAG process is sent before clocks are gated" (ipa_dp.c:607,830):
\* the clock is off only with no packet sent since the last TAG packet.  It does
\* not hold (README, 7).
TagBeforeGating == clkRate = 0 => ~dirty

UsersGone ==
    (\A p \in Threads \union {Isr} : pc[p] = "idle") /\ "defer" \notin pending

\* If from some point on no thread uses the IPA and no interrupt comes, its
\* clocks are gated for good, whatever works were left with the last votes
\* (ipa.c:7530-7557, the TAG work and the retry of a busy suspend).
GatedWhenUnused == <>[]UsersGone => <>[](clkRate = 0 /\ busVote = 0)

\* An interrupt that found the clocks off is processed with the clocks on
\* (ipa_interrupts.c:387, 409).
DeferredIrqServed == "defer" \in pending ~> pc[Wq] = "defer"

\* A blocking vote is granted: the mutex is never held forever (ipa.c:7425).
VoteGranted == \A t \in Threads : pc[t] = "inc_mutex" ~> pc[t] = "held"

Gate == INSTANCE ClockGate WITH votes <- cnt, usable <- Usable

\* The count and the hardware behave as ClockGate says: a vote is granted only
\* while the hardware is usable, and the hardware is switched only without
\* votes (ipa.c:7414-7442, 7498-7560).
GateSpec == Gate!Spec
=============================================================================

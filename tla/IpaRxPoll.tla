----------------------------- MODULE IpaRxPoll -----------------------------
(***************************************************************************)
(* How the IPA receives: a channel of the GSI interrupts for its first     *)
(* packet, is then polled by NAPI until its event ring is empty, and goes  *)
(* back to interrupts (ipa_dp.c, gsi.c); and how the pipe is suspended     *)
(* with the clocks and resumed (ipa_utils.c).                              *)
(*                                                                         *)
(* The clock vote is the one of IpaActiveClients, reduced to its count,    *)
(* the votes that works are to drop, and the context that switches the     *)
(* clocks under the mutex, Gate.                                           *)
(*                                                                         *)
(* A definition marked "slip" is the next one with a plausible mistake in  *)
(* it.  Next uses none of them: they show that each property can fail.     *)
(***************************************************************************)
EXTENDS Integers, FiniteSets

CONSTANTS Cpus,         \* on which the softirq may poll
          Gate,         \* the context that switches the clocks
          Cap,          \* bound on the events of a pipe in the ring
          Hw            \* the hardware the driver may find itself on

ASSUME RxAssumption ==
    /\ IsFiniteSet(Cpus) /\ Gate \notin Cpus
    /\ Cap \in Nat \ {0} /\ Hw \subseteq {"plain", "pair", "check"}

Actors == Cpus \union {Gate}

VARIABLES hw,       \* "pair": a default pipe shares the event ring; "check": GSI
                    \* 2.2 or 2.5, which may lose an interrupt
          ring,     \* events between rp_local and the rp of the hardware, by pipe
          ieob,     \* the bit in CNTXT_SRC_IEOB_IRQ
          msk,      \* the bit in CNTXT_SRC_IEOB_IRQ_MSK
          mode,     \* poll_mode of the channels of the ring
          running,  \* the channels that are started
          polling,  \* curr_polling_state, of both pipes
          isr,      \* progress of the interrupt handler
          napi,     \* "off", "sched", or "run": being polled
          at,       \* progress of each CPU in the poll, and of Gate
          work,     \* sys->work: "none", "queued", or "run": with its vote
          wake,     \* wakelock_ref_cnt
          cnt,      \* ipa3_active_clients.cnt
          later,    \* votes that works are to drop
          other,    \* another client has a vote
          wants     \* why the clocks are switched on

chan  == <<hw, ring, ieob, msk, mode, running>>
votes == <<cnt, later, other, wants>>
vars  == <<chan, polling, isr, napi, at, work, wake, votes>>

Pipes == IF hw = "pair" THEN {"coal", "default"} ELSE {"coal"}
Empty == \A p \in Pipes : ring[p] = 0

TypeOK ==
    /\ hw \in Hw /\ ring \in [Pipes -> 0 .. Cap] /\ ieob \in BOOLEAN /\ msk \in BOOLEAN
    /\ mode \in {"callback", "poll"} /\ running \subseteq Pipes
    /\ polling \in BOOLEAN
    /\ isr \in {"idle", "enter", "loop", "callback", "test", "mask", "state", "vote"}
    /\ napi \in {"off", "sched", "run"}
    /\ at \in [Actors -> {"idle", "poll", "took", "look", "empty", "complete", "state",
                          "release", "mode", "unmask", "check", "xchg", "pending",
                          "drop", "stop", "test", "mask", "quiet", "default", "gate",
                          "off", "start", "start2"}]
    /\ work \in {"none", "queued", "run"}
    /\ wake \in Nat /\ cnt \in Nat /\ later \in Nat /\ other \in BOOLEAN
    /\ wants \in {"nobody", "retry", "other", "work"}

Init ==
    /\ hw \in Hw /\ ring = [p \in Pipes |-> 0] /\ running = Pipes
    /\ ieob = FALSE /\ msk = TRUE /\ mode = "callback"
    /\ polling = FALSE /\ isr = "idle" /\ napi = "off"
    /\ at = [a \in Actors |-> "idle"]
    /\ work = "none" /\ wake = 0
    /\ cnt = 1 /\ later = 0 /\ other = TRUE /\ wants = "nobody"

Go(a, l) == at' = [at EXCEPT ![a] = l]

\* ring.slock, kept over several steps by the handler and by an empty poll.
RingFree == isr \in {"idle", "enter"} /\ \A c \in Cpus : at[c] \notin {"look", "empty"}

\* gsi_ctx->slock.
GsiFree == \A a \in Actors : at[a] # "check"

ClocksOn == at[Gate] # "off"

\* gsi_config_channel_mode, to polling, once it has read another mode without the
\* lock: the interrupt is masked, and what is pending is cleared.
ConfigPoll ==
    /\ GsiFree
    /\ mode' = "poll" /\ msk' = FALSE /\ ieob' = FALSE

-----------------------------------------------------------------------------
(* The hardware: an event is written and its interrupt raised.             *)

Arrive ==
    /\ \E p \in running : ring[p] < Cap /\ ring' = [ring EXCEPT ![p] = @ + 1]
    /\ ieob' = TRUE
    /\ UNCHANGED <<hw, msk, mode, running, polling, isr, napi, at, work, wake, votes>>

-----------------------------------------------------------------------------
(* gsi_isr, with clocks.                                                   *)

IsrEnter ==
    /\ isr = "idle" /\ ClocksOn /\ ieob /\ msk
    /\ ieob' = FALSE
    /\ isr' = "enter"
    /\ UNCHANGED <<hw, ring, msk, mode, running, polling, napi, at, work, wake, votes>>

\* gsi_handle_ieob: to the callback, or out of the loop.
IsrLoop ==
    /\ (isr = "enter" /\ RingFree) \/ isr = "loop"
    /\ isr' = IF Empty \/ mode = "poll" THEN "idle" ELSE "callback"
    /\ UNCHANGED <<chan, polling, napi, at, work, wake, votes>>

\* ipa_gsi_irq_rx_notify_cb.
IsrCallback ==
    /\ isr = "callback"
    /\ isr' = IF polling THEN "loop" ELSE "test"
    /\ UNCHANGED <<chan, polling, napi, at, work, wake, votes>>

\* It ignores that the channel was polled already.
IsrTest ==
    /\ isr = "test"
    /\ isr' = IF mode = "poll" THEN "state" ELSE "mask"
    /\ UNCHANGED <<chan, polling, napi, at, work, wake, votes>>

IsrMask ==
    /\ isr = "mask" /\ ConfigPoll
    /\ isr' = "state"
    /\ UNCHANGED <<hw, ring, running, polling, napi, at, work, wake, votes>>

\* __ipa_gsi_irq_rx_scedule_poll: the state and the wakelock ...
IsrState ==
    /\ isr = "state"
    /\ polling' = TRUE /\ wake' = wake + 1
    /\ isr' = "vote"
    /\ UNCHANGED <<chan, napi, at, work, votes>>

\* ... then the vote, and NAPI, or the work if the clocks are being gated.
IsrVote ==
    /\ isr = "vote"
    /\ IF cnt > 0 THEN napi' = "sched" /\ cnt' = cnt + 1 /\ UNCHANGED work
                  ELSE work' = "queued" /\ UNCHANGED <<napi, cnt>>
    /\ isr' = "loop"
    /\ UNCHANGED <<chan, polling, at, wake, later, other, wants>>

-----------------------------------------------------------------------------
(* ipa3_wq_handle_rx: a blocking vote, then NAPI.                          *)

WorkVote ==
    /\ work = "queued" /\ cnt > 0
    /\ cnt' = cnt + 1 /\ work' = "run"
    /\ UNCHANGED <<chan, polling, isr, napi, at, wake, later, other, wants>>

WorkSchedule ==
    /\ work = "run"
    /\ napi' = "sched" /\ work' = "none"
    /\ UNCHANGED <<chan, polling, isr, at, wake, votes>>

-----------------------------------------------------------------------------
(* ipa3_rx_poll.                                                           *)

PollStart(c) ==
    /\ napi = "sched" /\ at[c] = "idle"
    /\ napi' = "run" /\ Go(c, "poll")
    /\ UNCHANGED <<chan, polling, isr, work, wake, votes>>

\* gsi_poll_n_channel finds an event, at once or on the second look.
PollTake(c) ==
    /\ \/ at[c] = "poll" /\ polling /\ RingFree
       \/ at[c] = "empty"
    /\ \E p \in Pipes : ring[p] > 0 /\ ring' = [ring EXCEPT ![p] = @ - 1]
    /\ Go(c, "took")
    /\ UNCHANGED <<hw, ieob, msk, mode, running, polling, isr, napi, work, wake, votes>>

\* The loop ends on the state as well, which is never lowered under a poll.
PollMore(c) ==
    /\ at[c] = "took"
    /\ Go(c, "poll")
    /\ UNCHANGED <<chan, polling, isr, napi, work, wake, votes>>

\* No buffer of the pipe is left with the hardware (sys->len): there is no event
\* of its own then.  The loop ends, and the ring need not be empty.
PollExhausted(c) ==
    /\ at[c] = "took" /\ ring["coal"] = 0
    /\ Go(c, "complete")
    /\ UNCHANGED <<chan, polling, isr, napi, work, wake, votes>>

\* It finds none, clears the interrupt ...
PollLook(c) ==
    /\ at[c] = "poll" /\ polling /\ RingFree /\ Empty
    /\ Go(c, "look")
    /\ UNCHANGED <<chan, polling, isr, napi, work, wake, votes>>

PollClear(c) ==
    /\ at[c] = "look"
    /\ ieob' = FALSE /\ Go(c, "empty")
    /\ UNCHANGED <<hw, ring, msk, mode, running, polling, isr, napi, work, wake, votes>>

PollEmptyOnce(c) ==                     \* slip: does not look again
    /\ at[c] = "empty"
    /\ Go(c, "complete")
    /\ UNCHANGED <<chan, polling, isr, napi, work, wake, votes>>

\* ... and looks again.
PollEmpty(c) ==
    /\ at[c] = "empty" /\ Empty
    /\ Go(c, "complete")
    /\ UNCHANGED <<chan, polling, isr, napi, work, wake, votes>>

\* The budget is spent, or there are too few buffers: NAPI polls again.
PollYield(c) ==
    /\ at[c] \in {"took", "complete"}
    /\ napi' = "sched" /\ Go(c, "idle")
    /\ UNCHANGED <<chan, polling, isr, work, wake, votes>>

\* napi_complete.
PollComplete(c) ==
    /\ at[c] = "complete"
    /\ napi' = "off" /\ Go(c, "state")
    /\ UNCHANGED <<chan, polling, isr, work, wake, votes>>

\* ipa3_rx_switch_to_intr_mode: the state, the wakelock, the mode.
SwitchState(c) ==
    /\ at[c] = "state"
    /\ polling' = FALSE /\ Go(c, "release")
    /\ UNCHANGED <<chan, isr, napi, work, wake, votes>>

SwitchRelease(c) ==
    /\ at[c] = "release"
    /\ wake' = wake - 1 /\ Go(c, "mode")
    /\ UNCHANGED <<chan, polling, isr, napi, work, votes>>

SwitchPendingUnheld(c) ==               \* slip: the wakelock is not taken again
    /\ at[c] = "pending"
    /\ polling' = TRUE
    /\ IF napi = "off" THEN napi' = "run" /\ Go(c, "poll")
                       ELSE Go(c, "drop") /\ UNCHANGED napi
    /\ UNCHANGED <<chan, isr, work, wake, votes>>

\* The interrupt was pending, the channel is polled again: so is NAPI.
SwitchPending(c) ==
    /\ at[c] = "pending"
    /\ polling' = TRUE
    /\ wake' = IF polling THEN wake ELSE wake + 1
    /\ IF napi = "off" THEN napi' = "run" /\ Go(c, "poll")
                       ELSE Go(c, "drop") /\ UNCHANGED napi
    /\ UNCHANGED <<chan, isr, work, votes>>

\* The last vote is left to a work.
PollDrop(c) ==
    /\ at[c] = "drop"
    /\ IF cnt > 1 THEN cnt' = cnt - 1 /\ UNCHANGED later
                  ELSE later' = later + 1 /\ UNCHANGED cnt
    /\ Go(c, "idle")
    /\ UNCHANGED <<chan, polling, isr, napi, work, wake, other, wants>>

-----------------------------------------------------------------------------
(* gsi_config_channel_mode, to callbacks, by a poll or by a resume, which  *)
(* ignores what it returns.                                                *)

Callbacks(a, pending) ==
    Go(a, IF a = Gate THEN "start2" ELSE IF pending THEN "pending" ELSE "drop")

\* The mode is read without the lock.
ConfigTest(a) ==
    /\ at[a] = "mode"
    /\ IF mode = "callback" THEN Callbacks(a, FALSE) ELSE Go(a, "unmask")
    /\ UNCHANGED <<chan, polling, isr, napi, work, wake, votes>>

ConfigCallback(a) ==
    /\ at[a] = "unmask" /\ GsiFree
    /\ mode' = "callback" /\ msk' = TRUE
    /\ IF hw = "check" THEN Go(a, "check") ELSE Callbacks(a, FALSE)
    /\ UNCHANGED <<hw, ring, ieob, running, polling, isr, napi, work, wake, votes>>

CheckPending(a) ==
    /\ at[a] = "check"
    /\ IF ieob THEN msk' = FALSE /\ ieob' = FALSE /\ Go(a, "xchg")
               ELSE Callbacks(a, FALSE) /\ UNCHANGED <<msk, ieob>>
    /\ UNCHANGED <<hw, ring, mode, running, polling, isr, napi, work, wake, votes>>

\* Whoever sets the mode is to poll.
TakeMode(a) ==
    /\ at[a] = "xchg" /\ RingFree
    /\ mode' = "poll" /\ Callbacks(a, mode = "callback")
    /\ UNCHANGED <<hw, ring, ieob, msk, running, polling, isr, napi, work, wake, votes>>

-----------------------------------------------------------------------------
(* The clock vote.                                                         *)

\* A vote is dropped under the mutex, by the other client or by a work; the
\* last one gates.
Drop ==
    /\ at[Gate] = "idle"
    /\ \/ other /\ other' = FALSE /\ UNCHANGED later
       \/ later > 0 /\ later' = later - 1 /\ UNCHANGED other
    /\ cnt' = cnt - 1
    /\ Go(Gate, IF cnt = 1 THEN "stop" ELSE "idle")
    /\ UNCHANGED <<chan, polling, isr, napi, work, wake, wants>>

\* The other client votes.
Vote ==
    /\ ~other /\ cnt > 0
    /\ other' = TRUE /\ cnt' = cnt + 1
    /\ UNCHANGED <<chan, polling, isr, napi, at, work, wake, later, wants>>

\* A blocking vote of it, or of the work, finds the clocks off.
VoteOff ==
    /\ at[Gate] = "off"
    /\ \/ wants' = "other"
       \/ work = "queued" /\ wants' = "work"
    /\ Go(Gate, "start")
    /\ UNCHANGED <<chan, polling, isr, napi, work, wake, cnt, later, other>>

-----------------------------------------------------------------------------
(* ipa3_suspend_apps_pipes(true), for the pipe or the pair.                *)

SuspendStop ==
    /\ at[Gate] = "stop"
    /\ running' = running \ {"coal"}
    /\ Go(Gate, "test")
    /\ UNCHANGED <<hw, ring, ieob, msk, mode, polling, isr, napi, work, wake, votes>>

SuspendTest ==
    /\ at[Gate] = "test"
    /\ Go(Gate, IF mode = "poll" THEN "quiet" ELSE "mask")
    /\ UNCHANGED <<chan, polling, isr, napi, work, wake, votes>>

SuspendMask ==
    /\ at[Gate] = "mask" /\ ConfigPoll
    /\ Go(Gate, "quiet")
    /\ UNCHANGED <<hw, ring, running, polling, isr, napi, work, wake, votes>>

Busy == wants' = "retry" /\ Go(Gate, "start")

SuspendQuietBlind ==                    \* slip: the ring is not looked at
    /\ at[Gate] = "quiet" /\ RingFree
    /\ Go(Gate, "default") /\ UNCHANGED wants
    /\ UNCHANGED <<chan, polling, isr, napi, work, wake, cnt, later, other>>

\* ipa3_gsi_channel_is_quite.
SuspendQuiet ==
    /\ at[Gate] = "quiet" /\ RingFree
    /\ IF Empty THEN Go(Gate, "default") /\ UNCHANGED wants ELSE Busy
    /\ UNCHANGED <<chan, polling, isr, napi, work, wake, cnt, later, other>>

\* The default pipe is stopped and not looked at.
SuspendDefault ==
    /\ at[Gate] = "default"
    /\ running' = {} /\ Go(Gate, "gate")
    /\ UNCHANGED <<hw, ring, ieob, msk, mode, polling, isr, napi, work, wake, votes>>

\* Something else is busy.
SuspendBusy ==
    /\ at[Gate] = "gate" /\ Busy
    /\ UNCHANGED <<chan, polling, isr, napi, work, wake, cnt, later, other>>

\* ipa3_disable_clks.
GateOff ==
    /\ at[Gate] = "gate"
    /\ Go(Gate, "off")
    /\ UNCHANGED <<chan, polling, isr, napi, work, wake, votes>>

-----------------------------------------------------------------------------
(* ipa3_suspend_apps_pipes(false), and the undo labels.                    *)

\* A channel that is started raises the interrupt of what is in the ring.
Start(S) ==
    /\ running' = running \union S
    /\ ieob' = (ieob \/ (~Empty /\ ~ S \subseteq running))

ResumeStart ==
    /\ at[Gate] = "start"
    /\ Start({"coal"}) /\ Go(Gate, "state")
    /\ UNCHANGED <<hw, ring, msk, mode, polling, isr, napi, work, wake, votes>>

\* A pipe that is polled stays so.
ResumeState ==
    /\ at[Gate] = "state"
    /\ Go(Gate, IF polling THEN "start2" ELSE "mode")
    /\ UNCHANGED <<chan, polling, isr, napi, work, wake, votes>>

ResumeEndLost ==                        \* slip: the retry has no vote
    /\ at[Gate] = "start2"
    /\ Start(Pipes) /\ Go(Gate, "idle")
    /\ cnt' = (IF wants = "retry" THEN cnt ELSE cnt + 1) /\ wants' = "nobody"
    /\ later' = IF wants = "retry" THEN later + 1 ELSE later
    /\ other' = (other \/ wants = "other")
    /\ work' = IF wants = "work" THEN "run" ELSE work
    /\ UNCHANGED <<hw, ring, msk, mode, polling, isr, napi, wake>>

\* The vote that waits is taken, or the one of the retry.
ResumeEnd ==
    /\ at[Gate] = "start2"
    /\ Start(Pipes) /\ Go(Gate, "idle")
    /\ cnt' = cnt + 1 /\ wants' = "nobody"
    /\ later' = IF wants = "retry" THEN later + 1 ELSE later
    /\ other' = (other \/ wants = "other")
    /\ work' = IF wants = "work" THEN "run" ELSE work
    /\ UNCHANGED <<hw, ring, msk, mode, polling, isr, napi, wake>>

-----------------------------------------------------------------------------
Isr == IsrEnter \/ IsrLoop \/ IsrCallback \/ IsrTest \/ IsrMask \/ IsrState \/ IsrVote

Config(a) == ConfigTest(a) \/ ConfigCallback(a) \/ CheckPending(a) \/ TakeMode(a)

Poll(c) ==
    \/ PollTake(c) \/ PollMore(c) \/ PollExhausted(c) \/ PollLook(c) \/ PollClear(c)
    \/ PollEmpty(c) \/ PollYield(c) \/ PollComplete(c) \/ SwitchState(c) \/ SwitchRelease(c)
    \/ SwitchPending(c) \/ PollDrop(c) \/ Config(c)

Switching ==
    \/ SuspendStop \/ SuspendTest \/ SuspendMask \/ SuspendQuiet \/ SuspendDefault
    \/ SuspendBusy \/ GateOff \/ ResumeStart \/ ResumeState \/ ResumeEnd \/ Config(Gate)

Next ==
    \/ Arrive \/ Isr
    \/ WorkVote \/ WorkSchedule
    \/ \E c \in Cpus : PollStart(c) \/ Poll(c)
    \/ Drop \/ Vote \/ VoteOff \/ Switching

Spec == Init /\ [][Next]_vars

\* Handler, softirq and works run, and so does the context that switches the
\* clocks.  A suspend is retried after milliseconds (IPA_SUSPEND_BUSY_TIMEOUT):
\* the handler is not overtaken by it for ever.  Packets need not arrive, and
\* the other client need not do anything.
FairSpec ==
    /\ Spec
    /\ SF_vars(Isr) /\ SF_vars(IsrLoop /\ isr' = "callback") /\ WF_vars(WorkSchedule)
    /\ SF_vars(WorkVote) /\ SF_vars(VoteOff /\ wants' = "work")
    /\ WF_vars(\E c \in Cpus : PollStart(c))
    /\ \A c \in Cpus : SF_vars(Poll(c))
    /\ WF_vars(Switching)

-----------------------------------------------------------------------------
(* Correctness.                                                            *)

Count(b) == IF b THEN 1 ELSE 0
Working == {c \in Cpus : at[c] # "idle"}

\* Every vote belongs to someone who will drop it: no poll that is scheduled
\* while another ends, no failed suspend and no work loses or invents one
\* (ipa_dp.c:6603, "Use the active no block instead where we would have ref
\* counts").
VotesOwned ==
    cnt = Count(other) + later + Cardinality(Working)
             + Count(napi = "sched") + Count(work = "run")

\* The wakelock is held once while a pipe is polled, however the end of one
\* poll overlaps the interrupt that starts the next (ipa_dp.c:6591).
WakelockBalanced == wake = Count(polling) + Cardinality({c \in Cpus : at[c] = "release"})

\* No interrupt of the GSI is pending when the clocks go off, which
\* ipa3_disable_clks asserts (ipa.c:7245).
NoPendingIrq == at[Gate] = "gate" => ~(ieob /\ msk)

\* Somebody is going to look at the ring, or an interrupt will come.
Minded ==
    (ieob /\ msk) \/ isr # "idle" \/ napi # "off" \/ work # "none" \/ Working # {}

\* With clocks, an event of the pipe is always somebody's business: of a poll, of
\* the handler, of a work or of an interrupt that will come, whatever suspends
\* and resumes came in between (ipa_dp.c:6640, "In resume after starting the
\* channel will receive the IEOB interrupt").  A poll that runs out of buffers
\* completes without having seen the ring empty, and drops no event of the pipe
\* by it.  GSI 2.2 and 2.5 are left out.
NoEventForgotten ==
    hw # "check" /\ ring["coal"] > 0 /\ at[Gate] = "idle" => Minded

\* The same of every event in the ring, on all hardware.  It does not hold: not
\* on GSI 2.2 and 2.5, and not for a default pipe, whose event a poll that runs
\* out of buffers leaves behind, with its interrupt cleared.
EventMinded == ~Empty /\ at[Gate] = "idle" => Minded

\* Every event of the pipe is received, also after a suspend that was given up
\* (ipa_utils.c:13012).
EventsReceived ==
    hw # "check" /\ ring["coal"] > 0 ~> \E c \in Cpus : at[c] = "took"

\* The handler calls back only in callback mode, or gsi.c:744 warns ("Calling
\* client callback in polling mode").  It does not hold: a suspend changes the
\* mode between the test of the handler and the callback.
NoCallbackInPoll == isr = "callback" => mode = "callback"
=============================================================================

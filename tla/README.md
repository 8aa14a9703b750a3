# Verification of control code in the SM8850 kernel modules

TLA+ models of the parts of this repository whose correctness is a matter of
control rather than of hardware: the power management and the receive path of
the IPA driver (the network accelerator), the events and timelines of the
graphics driver, and the sync objects of the camera driver. They are checked with
TLC, and most safety properties are proved with TLAPS. Paths below are relative to
`qcom/opensource/dataipa/drivers/platform/msm/ipa/ipa_v3/` for `ipa*.c`, to
`qcom/opensource/dataipa/drivers/platform/msm/gsi/` for `gsi.c`, to
`qcom/opensource/graphics-kernel/` for `kgsl*` and `adreno*`, and to
`qcom/opensource/camera-kernel/drivers/cam_sync/` for `cam_sync*`.

## 1. Inventory

The repository holds the out-of-tree kernel modules of a phone: audio,
Bluetooth, camera, data (IPA, rmnet), display, DSP, graphics, video, WLAN,
touch, fingerprint, NFC and a few more, about ten thousand files. They are
separate drivers. Most of their lines are register tables, firmware interfaces
and hardware sequences; the models cover a very small share of the lines and
the places where several contexts of a kernel (threads, interrupt handlers,
softirqs, workqueues, timers) meet on shared state.

| Component | State | Operations | Hard behaviour | What makes it correct |
|---|---|---|---|---|
| Clock vote, `ipa3_active_clients` (`ipa.c`, with parts of `ipa_utils.c`, `ipa_interrupts.c`, `ipa_dp.c`) | an atomic count, a mutex, `ipa_clk_vote`, `tag_process_before_gating`, four works, the clock and bus rates | blocking and non-blocking vote, four kinds of drop, TAG process, deferred interrupt, change of plan | a lock-free fast path beside the mutex; works that carry a vote; a suspend that may fail after the count reached 0 | hardware usable while a vote is out; votes neither lost nor invented; clocks gate when nobody uses them |
| Power manager, client states (`ipa_pm.c`) | per client: state, timer, activation work, completion, wakeup source, bit of a mask | register, deregister, activate, activate_sync, deferred_deactivate, deactivate_sync, deactivate_all_deferred, three work functions | state changes under a spinlock, their consequences after it; timers cancelled and re-armed; waits for a completion | one vote per active client; no timed state without timer; no wakeup source left; activations end |
| Power manager, clock scaling (`ipa_pm.c`) | client table, exceptions, groups, pipes, throughputs, thresholds, `cur_vote` | register, deregister, associate pipe, set throughput, scale | a sum taken under a mutex and used after it; slots reused; lists compared as strings | the vote is the one the active clients ask for |
| Receive polling and suspend of the pipes (`ipa_dp.c`, `ipa_utils.c`, `gsi.c`) | event ring, interrupt and mask bits, mode of the channel, `curr_polling_state`, NAPI, `sys->work`, wakelock count | interrupt, poll, switch of mode, suspend, undo, resume | an interrupt that arrives while it is being masked; a poll that ends while another begins; a suspend that must notice the packet that just came | no packet waits for ever; votes and wakelock balanced |
| GPU events and contexts (`kgsl_events.c`, `kgsl.c`, `adreno_drawctxt.c`) | timestamps that wrap, list of events per group, references of the context | add, process, cancel, fire, wait, invalidate, detach, destroy | the GPU retires while an event is added; a context leaves while events are queued; rollover | every event fires once, not early; the context outlives its events |
| Software timelines (`kgsl_timeline.c`, `kgsl_drawobj.c`) | value, list of fences, list of events, references | create, signal, wait, query, fence, destroy, objects of command queues | two locks; fences released while they are being signaled; values that only rise | a fence below the value is signaled; references exact |
| Camera sync objects (`cam_sync.c`, `cam_sync_util.c`) | table of rows, a spinlock each, bitmap, parents and children, callbacks, payloads | create, merge, signal, register, references, destroy, open, close | a group and its children are locked one after the other; merges that fail half way; the device closes under its users | a group ends with its last child, with the worst status; callbacks after the end |
| IPA resource manager (`../ipa_rm*.c`) | resources and dependency graph | request, release | | not reachable: nothing outside these files creates or requests a resource |
| Other parts of these drivers, and the other drivers | | | | not modelled (section 9) |

The components of the IPA interact by direct calls: the power manager takes and
drops clock votes for its clients (`IPA_ACTIVE_CLIENTS_INC/DEC_SPECIAL`) and, in
`do_clk_scaling`, sets the clock plan of the clock vote; the clock vote calls back
to say that the clock index is 0 (`ipa_pm_set_clock_index`); it suspends and
resumes the receive pipes when it switches the clocks, and the receive path votes
from the interrupt handler, without blocking, for every poll. A kgsl timeline
object waits for an event of its context, and advances the timeline from the
callback of the event. The hazards are listed, each at its line, in
`PROJECT.json`.

## 2. Modules

| Module | What it models |
|---|---|
| `IpaActiveClients` | the clock vote; one action per atomic operation, plain store, register sequence or acquisition of the mutex |
| `ClockGate` | what the clock vote promises: votes, and a block that is switched only without votes |
| `IpaActiveClientsProofs` | the theorems about it |
| `IpaPm` | the states of the power manager's clients; one action per critical section of `state_lock` and one per step outside it |
| `IpaPmProofs`, `IpaPmSyncProofs` | the theorems about it: types and asynchronous calls; synchronous calls |
| `IpaPmTput` | the throughput algorithm of `calculate_throughput`, as operators |
| `IpaPmScaling` | the client table, the exceptions and `do_clk_scaling` |
| `IpaPmScalingProofs` | the theorems about it |
| `IpaRxPoll` | interrupt and poll of a receive pipe, or of a coalescing pair, its suspend and resume |
| `IpaRxPollProofs` | the theorems about it |
| `KgslEvents` | the events of one context, its timestamps and its life |
| `KgslEventsProofs` | the theorems about it |
| `KgslTimeline` | one software timeline, its fences and the objects that advance it |
| `KgslTimelineProofs` | the theorems about it |
| `CamSync` | the table of sync objects |
| `CamSyncProofs` | the theorems about it |
| `MC...` | symmetry and the tables of the runs; the modules without one are run as they are |

`IpaPmScaling` uses `IpaPmTput`; `IpaActiveClients` implements `ClockGate`.
`IpaPm` counts the clock votes of each client itself, and `IpaRxPoll` reduces the
clock vote to its count: that a vote keeps the hardware usable, and that a
blocking vote is granted, are the results of `IpaActiveClients`, which both rely
on. `KgslTimeline` relies on `KgslEvents` in the same way: that the event of an
object fires once its commands retire is `EventsFire`.

A definition marked *slip* is the one after it with a plausible mistake. No
specification uses a slip; with one put in place, the property it belongs to
fails, which shows that the property can.

### 2.1 IpaActiveClients

`cnt`, `mutex`, `tag`, `clkVote`, `currRate`, `curVote` are the variables of the
code. `clkRate` and `busVote` are what the clock framework and the interconnect
were last told, as a level (0 is off); `pipesOn` is whether the apps pipes run;
`dirty` says that packets entered the hardware since the last TAG packet;
`pending` is the set of works queued on `power_mgmt_wq`, which has one worker,
`Wq`. `pc` says where each context is.

* Blocking vote, `ipa3_inc_client_enable_clks`: `IncThread` (fast path),
  `IncMutex`, then `EnableBus`, `EnableClk`, `EnableVote`, `ResumePipes`,
  `IncLast` under the mutex.
* Vote that may not block: `IncNoBlock`; on failure the interrupt handler queues
  the deferred interrupt (`IsrDefer`), which `WorkDefer` serves.
* Drop, `__ipa3_dec_client_disable_clks`: `DecEnter` (the assertion), `DecFast`,
  `DecCoal`, `DecClear`, `DecMutex`, `DecSub`, `SuspendPipes`, `SuspendBusy`,
  and `GateVote`, `GateClk`, `GateBus`.
* Drops for others: `DecNoBlock`, `DecNoBlockQueue`, `DecDelayWq`, and the works
  `WorkDec` and `WorkTag` with `TagSend`, `TagFail`, `TagClear`.
* Plans: `DoClkScaling`, `ScaleCmp` (the power manager's side),
  `SetRequiredPerfProfile` (the resource manager's floor), `PlanCheck`,
  `PlanMutex`.

Abstracted: rates are the four levels of the plan; a packet is the fact that
something was sent; the two interconnect votes are one; the retry timer of a
busy suspend is "eventually". Left out: the assertion on a pending GSI
interrupt while gating, and the work that enables clocks after a crash dump.

### 2.2 IpaPm

`alive` is `clients[hdl] != NULL`; `st`, `complete`, `wake`, `bit` are the fields
of the client; `timer` and `actWork` say that its works are queued; `vote` is
the number of clock votes taken for it and not dropped; `agg` is the set of
clients the last scaling counted; `work` is what the single-threaded workqueue
runs and at which step; `call` is where each caller is. `Ops` says which calls a
run allows and `Exclusive` whether two calls on one client may overlap.

Each API function is an entry action followed by one action per step after an
unlock or a wait: `ActivateAgain` / `ActivateNow` / `ActivateNowBit` /
`ActivateLater`; `ActivateSync`, `SyncSwitch`, `SyncInc`, `SyncLock`, `SyncBit`,
`SyncScale`; `DeferredDeactivate`; `DeactivateSync` ... `DeactivateBit`;
`AllDeferred`, `AllNext` ... `AllDone`; `Deregister`, `DeregisterCheck`,
`DeregisterFree`. The works are `ActivateWork...`, `TimerWork...`, `ScaleWork`,
`WorkScale`. `WaitComplete` is the kernel's `wait_for_completion`,
`TimerRunning` what `cancel_delayed_work_sync` waits for.

Decisions worth knowing:

* A vote and the wakeup source that goes with it are one step. The code of the
  power manager never reads the count of votes, so the vote can be moved next to
  the wakeup call in every interleaving without changing what anybody sees.
* `AllNext` takes the clients in any order; the code takes them by handle. That
  allows more behaviours.
* A slot is registered again only when no work uses it (see section 7).
* Scaling returns early when the clocks are gated. `IpaPm` allows that only if
  no client votes.
* `VoteBound` bounds the count of a client in both directions.

### 2.3 IpaPmScaling and IpaPmTput

`slot` is the clients array by name, `pending` and `mask` the two fields of an
exception, `threshold` and `curVote` those of `clk_scaling`, `plan` the plan the
clocks follow, and `ctx` where each context is in `do_clk_scaling`: the test of the
flag (`ScaleTest`), the sum under the mutex (`ScaleSum`), the index after it, with
whatever thresholds are current by then (`ScalePlan`), the comparison and the
store (`ScaleVote`), the second reading of `cur_vote`, which a compiler may or may not do
(`ScaleArg`), and `ipa3_set_clock_plan_from_pm` (`ScaleSet`; how it applies the plan is
part of `IpaActiveClients`). A registration is three steps, as in the code: a free
element under the mutex, its name and wakeup source without it, and the exceptions;
two of them may overlap, and each may fail and deregister again.

`old` and `late` are history variables that no step reads: `old` holds the contexts another one
has overtaken since their sum or vote, `late` what such a context was the last to write.

An exception's list of names is a set, of which `Matches` says what the string
comparison of `ipa_pm.c:552` makes of it: a name matches a list that is exactly
that name. `Asked` is what each client adds to the array of throughputs and
`Gathered` the array; `Aggregate`, a recursive function, pops the two largest
values and pushes their difference, as the loop does.

### 2.4 IpaRxPoll

`ring` counts, by pipe, the events the hardware wrote and the driver has not
consumed; `ieob` and `msk` are the bits of the interrupt and of its mask; `mode`,
`polling`, `napi`, `work`, `wake` are `poll_mode`, `curr_polling_state`, the state
of NAPI, `sys->work` and `wakelock_ref_cnt`. `isr` is where the interrupt handler
is, `at` where each CPU is in the poll and `Gate` in the switch of the clocks.
`hw` is the hardware the driver runs on, chosen at the start: a single pipe
("plain"), a coalescing pipe and a default pipe that share an event ring ("pair"),
or a GSI of version 2.2 or 2.5, which may lose an interrupt and has a check for
it ("check").

* `Arrive` is the hardware (external). `IsrEnter`, `IsrLoop`, and the steps of the
  callback (`gsi_handle_ieob`, `ipa_gsi_irq_rx_notify_cb`,
  `ipa3_rx_switch_to_poll`) are the interrupt.
* The poll takes events until the ring is empty (`PollLook`, `PollClear`,
  `PollEmpty`: it looks once more under the ring's lock), the budget is spent
  (`PollYield`) or the pipe has no buffer left with the hardware (`PollExhausted`,
  `ipa_dp.c:7417`), in which case the ring may still hold events of the other pipe.
  It then completes NAPI, gives back wakelock and vote, and returns the channel to
  interrupts; it notices what arrived meanwhile and starts again.
* `Gate` stops the channel, looks whether it is really quiet, and gates; or undoes
  all of it and tries again later; and starts it again when somebody votes.

`gsi_config_channel_mode` reads the mode before it takes the lock (`gsi.c:4627-4636`):
`IsrTest`, `SuspendTest` and `ConfigTest` are steps of their own. Steps that nothing
can observe apart are one, such as vote and schedule. That starting a channel raises
the interrupt again if its ring is not
empty is taken from the comment at `ipa_dp.c:6640`. `Cap` bounds the events of a
pipe: two make a difference between one and several.

### 2.5 KgslEvents

`queued`, `retired`, `processed` are the timestamps of the context, modulo
`2 * Window`; `ev` the events; `th` what each thread does; `ref` the references of
the context; `det`, `inv`, `linked` how far detaching, invalidation and the
removal of the group are. `Submit` and `GpuRetire` move the timestamps;
`ProcessGroup` is `_process_event_group`, `Worker` the callback of an event;
`GetContext`, `AddCheck`, `AddReject`, `AddEvent` are the caller of
`kgsl_add_event`; `WaitCheck`, `WaitTimeout` are `adreno_drawctxt_wait`;
`Invalidate...`, `Detach...`, `PutContext`, `CreateContext` are the life of the
context.

`Cmp` and `DoProcess` are the comparisons of the code with their rollover. `Recent`
states what they rest on: no timestamp that is in use falls half the range behind
while a thread stalls. In the same way `AddCheck` is not asked for the timestamp exactly
half the range away from the one queued last, of which the comparison
(`kgsl_events.c:252`) cannot tell on which side it lies; the code has no such test.
`DetachContext` does not end while an invalidation is between its mark and its flush:
both retire the same timestamp and wake the same threads, and the exclusion keeps
the run within reach. The hook `gpudev->context_detach` (`adreno_drawctxt.c:641`) is
left out. A reference that is put in the same breath as the step
before it is put in that step, and a timestamp nobody reads any more is set to 0.

### 2.6 KgslTimeline

`id` is the entry in `device->timelines`, `value` and `ref` are the timeline's,
`events` its list of events in order, `fence` the fences, each with the list it is
on; `at` where each actor is; `seq`, `sig`, `fired`, `passed` are the objects'.
`kgsl_timeline_signal` keeps `timeline->lock` over three steps, `SignalBegin`,
`SignalTake` and `SignalEnd`, because fences come and go under the other lock
meanwhile. A fence is only ever compared with the value, never with another
fence, so one fence stands for all; the list of events is kept as a sequence
because its order matters.

### 2.7 CamSync

`row` is the table, `bits` the bitmap, `lock` the row spinlocks that a merge keeps
over several steps, `held` the references drivers still have to give back, `out`
the callbacks queued for the worker, `close` the progress of `cam_sync_close`.
Create, register, signal, merge and destroy are each one action per critical
section. A create takes any free row, a merge checks and links its two objects in
any order, the close visits the rows in any order: more behaviours than the code,
which takes them by index.

A row is free as soon as its bit is clear, as in the code, whoever still refers to
the object that had it: a driver that holds a reference (`held`), a merge that has
checked it (`objs`), a thread that walks the parents it took off a signaled child
(`todo`). `remaining` is an unsigned number that wraps around at `Wrap` (2^32 in the
code). `Enqueue` queues a callback or loses it, as `cam_worker_wrapper_get` or
`cam_worker_wrapper_enqueue` fail (`cam_sync_util.c:704-719`, `cam_sync.c:201-208`).
Creates, merges and destructions go on while the device is closed.

`stale` and `spoilt` are history variables that no step reads: the threads on their
way to a row with a message for an earlier object of it, and the objects such a
message has reached.

`Singles` says on which rows individual objects are created, `Drivers` who takes
references, `Kinds` which callbacks are registered, `Closable` whether the device is
closed; `MaxNotes` bounds the callbacks. References on groups, which nobody can
signal, and the unlock around the signal of a synx object (`cam_sync.c:470-472`) are
left out.

`CarefulSpec` restricts the callers, not the code. `Careful` says that an object which
is being merged, has a driver, or is still to be told of a child, is not destroyed;
that groups are not merged; and that there is memory for the links. Nothing in
the code obliges the callers to it; what happens otherwise is the subject of
`cam_merge_hang` and of section 7.

## 3. Runs

| Run | Constants | Shows |
|---|---|---|
| `votes` | 3 threads, 1 scaling context, interrupt, worker, 2 plans | `TypeOK`, `VoteConservation`, `ClockedWhileVoted`, `HwFollowsCount`, and the refinement `GateSpec` |
| `gating` | 2 threads, interrupt, worker, fair | `GatedWhenUnused`, `DeferredIrqServed`, `VoteGranted` |
| `pm_sync` | 2 clients (one without votes), 2 callers, synchronous calls, the suspend of the AP and deregistration, one call at a time per client | `TypeOK`, `VotesBalanced`, `NoWakeLeak`, `NoUnexpectedState`, `TimerCovered`, `AggregateCurrent` |
| `pm_suspend` | 1 client, 2 callers, the suspend of the AP overlapping every call but the synchronous deactivation, fair | `Settles`, `ProgressEnds` |
| `scaling` | 2 names, 2 handles, 2 scaling contexts, 1 pipe, an exception of two names and one of one | `VoteCurrent`, `TableExact`, `ExceptionSound`, `RisesTogether` |
| `rx` | 2 CPUs, 2 events, three kinds of hardware, fair | `VotesOwned`, `WakelockBalanced`, `NoEventForgotten`, `EventsReceived` |
| `events` | 2 threads, 2 events, timestamps modulo 6, fair | `RetiredIsDone`, `NoMissedEvent`, `ContextHeld`, `DeletedEmpty`, `EventsFire`, `WaitersReturn` |
| `timeline` | 1 ioctl, 2 objects, 1 fence, values up to 2, fair | `References`, `NoLostFence`, `QueryMonotone`, `FencesEnd` |
| `cam_calls` | 4 rows, 2 of them for individual objects, 2 threads, 1 driver, careful callers, fair | `CallsReturn`, `GroupsEnd` |
| `cam_close` | 3 rows, 1 thread, 1 driver, both kinds of callback, the close, no care taken | `GroupWaits`, `NobodyForgotten`, `FailureSticks`, `CallbackAtEnd` |
| `pm_early_complete` | 1 driver, activate and deactivate_sync in turn | violation of `NoVoteUnderflow` |
| `cam_merge_hang` | 3 rows, 2 threads, no care taken, fair | violation of `CallsReturn` |

Why the bounds are enough. In the clock vote three threads give one that gates,
one that votes by the mutex and one that uses the fast path meanwhile; the
worker and the interrupt come on top. Two plans are what it takes for a rate to
be stale. The races of the power manager are between the worker and at most two
callers on one client; a second client matters for the shared workqueue and
because clients that do not vote take other branches. The free overlap of the
activations, deferred deactivation and the suspend is not run for safety: it is
proved, for any number of clients and callers (section 6). Two scaling contexts give every
order of two scalings. Two names on two handles make a handle be reused by the
other name and two registrations of one name overlap; one of the names shares a
group and takes no vote. NAPI is polled on one CPU at a time, but a second one can begin while the
first is still leaving the poll. Timestamps modulo 6 with at most 2 commands
outstanding roll over within each behaviour. Two timeline objects give an order
in the list of events. In
`cam_calls` four rows are two groups of the same two children: a child has two
parents, and two merges hold the rows of their groups at a time. Three rows in
`cam_close` are a group and two children, a group given to a merge, which is refused,
or a row freed and used again by the next object while its destroyed predecessor is
still referred to; `Wrap` is 8, out of reach of the two messages that can be
stale at a time.

`cam_close` and `cam_merge_hang` do not check for deadlock: a merge that fails
keeps the lock of a row for ever (section 5). The runs of liveness properties use
no symmetry, because TLC's liveness checking is not sound with it.

Not kept as properties of a run, but checked with the same configurations:
`GroupsOnce` and `AggregateBounds` of `IpaPmScaling` and its type invariant. The
type invariants of the other modules whose run lists none, `EventsAhead` of
`KgslTimeline` and `NoPendingIrq` of `IpaRxPoll` are proved. `IndInv`,
`RefcntNeverUnderflows`, `FlagBeforeClock`, `GateOnlyUnvoted` and `AsyncInv` are
stated for the proofs. The inductive invariants of the proof modules were checked
by TLC, with the constants of the runs and others of the same size, before they
were proved.

## 4. Fairness

`IpaActiveClients`: a context inside the vote code goes on (weak fairness of its
steps); the mutex is handed to its waiters and the worker serves the queue in
order (strong fairness of the acquisitions and of the start of each work, since
what enables them can come and go); the hardware is not busy for ever, which is
what the retry of a busy suspend relies on (strong fairness of `SuspendPipes`).
Nobody has to start a vote or to drop one.

`IpaPm`: a call and a work that have started go on; timers expire and queued
works are served, but the scaling, for which nothing waits, is left free. Nobody
has to call the API.

`IpaRxPoll`: the interrupt handler, the softirq and the works run once they are
raised. A suspend that finds the pipe busy is retried after
`IPA_SUSPEND_BUSY_TIMEOUT` (10 ms), so it does not overtake the handler for ever.

`KgslEvents` and `KgslTimeline`: the GPU retires what is queued and the driver
then processes the groups; worker and threads run. The spinlocks and mutexes are
handed on in order, hence strong fairness of the steps that wait for one.
`EventFires` of `KgslTimeline` is fair because of `EventsFire` of `KgslEvents`.

`CamSync`: a thread in a call goes on, with strong fairness because spinlocks are
handed on in order. No driver has to signal: `GroupsEnd` says that a group ends
once the signals it misses are on their way. `CarefulSpec` adds the care of the
callers (section 2.7), which is an assumption about them and not a fairness condition;
its two liveness properties say nothing about callers who do not take it.

## 5. What the violations show

* `pm_early_complete`: `activate_work_func` completes after it unlocked
  (`ipa_pm.c:432`). If the client was deactivated and activated again in
  between, the completion of the second activation is set before it happened,
  and `ipa_pm_deactivate_sync` drops a vote that was not taken.
* `cam_merge_hang`: `cam_sync_merge` sets the row up with `cam_sync_init_group_object`,
  which keeps the lock of the group row when it fails; the row is marked free, and
  the next call that takes this row never returns.

## 6. Proofs

All theorems hold for every value of the constants that satisfies the named
assumptions: any number of threads, scaling contexts, clients and callers.

`IpaActiveClientsProofs`, under `ProcsAssumption`, `LevelsAssumption`,
`FlagsAssumption`. `ClockedWhileVoted` is not inductive: that the hardware is up
with a vote out depends on nobody being able to take a vote while it is
switched, hence on who holds the mutex and on the count being exact. `IndInv` is
the conjunction of `VoteConservation` (the count is the number of contexts that
own a vote plus the queued works that carry one), `MutexInv` (the mutex belongs
to the context that is at a program point under it), `ZeroInv` (no vote during a
switch), `QueueInv` (the drop that is queued without blocking is queued by one
context at a time and never twice) and `HwInv` (what the hardware is at each
point of the two switches). One lemma per conjunct goes through the actions;
`CountedSets`, `OwnersMove` and `WorksMove` state how the cardinalities move.
From `Inductive` follow `Conservation`, `NoUnderflow`, `Clocked`, `HwAgrees`,
`FlagOrder`, `SwitchesUnvoted`, and `Refinement`, the implementation of
`ClockGate`: `CountMoves` shows that every step is a vote, a drop, a switch or a
stutter of it.

`IpaPmProofs`. `TypeCorrect` and `SkippedNoVote` (a client registered with
`skip_clk_vote` never holds a vote) hold for all calls, under `ClientsAssumption` and
`GroupsAssumption`. The other theorems let calls overlap on one client as they
like, and differ in the calls they admit.

*The asynchronous calls*, `Ops \subseteq AsyncOps` (the calls of a data path).
`AsyncInv` ties what is queued and what runs to the state of a client: an
activation is queued or running exactly for the clients in progress, a timer
exactly for those in a timed state, a client at rest holds a vote exactly if it
is active. None of `VotesBalanced`, `NoUnexpectedState`, `TimerCovered` is
inductive without it: a work function that starts must find its client in the
state its queueing promised. `AsyncNoUnderflow` follows from the balance.
`AsyncAggregate` adds `ScaleInv`: unless a scaling is queued, runs, or is still to
be queued by the context that changed what is active (`ScalingDue`), the aggregate
is that of the active clients, or no client that votes is active. The second case
is the scaling that returned early because the clocks were off.

*The activations and the suspend of the AP*, `Ops \subseteq OverlapOps` (both
activations, deferred deactivation, `ipa_pm_deactivate_all_deferred`). `AsyncInv` is
false here: a caller may be in the middle of an activation, a suspend may have
cancelled a timer, and several suspends may each owe a drop on one client.
`OverlapInv` says instead that an activation in progress has one owner, which is a
synchronous caller (`CallerOwns`), the worker (`WorkerOwns`) or the queue
(`QueueOwns`); that a timed state has its timer or a suspend that is past the
cancellation and will settle the state (`TimerKept`); that the votes of a client are
its state plus those the worker and the callers owe, the callers counted by
`Owing` (`VoteOwed`); and who still has to release the wakeup source (`WakeOwed`).
`OverlapVotes`, `OverlapNoUnderflow`, `OverlapTimers` and `OverlapWake` follow;
`OverlapAggregate` adds `OverlapScaled`, the counterpart of `ScaleInv`.
`NoUnexpectedState` is not among them, since a suspend reaches a `WARN_ON`
(section 7): `PlainExpected` proves it without the suspend, `Ops \subseteq
PlainOps`. The hypotheses are not there for the proof only: with the
synchronous deactivation all of these properties but `AggregateCurrent` fail
(section 5), and with deregistration next to the suspend the balance and the
aggregate do (section 7).

`IpaPmSyncProofs`, the same properties for `Ops \subseteq SyncOps` (the synchronous
calls, deferred deactivation, the suspend of the AP and deregistration), under
`Exclusive`: calls on one client do not overlap, as in `pm_sync`. Calls on different
clients, the timers and the worker interleave freely. `Where` is the place of the
call on a client; `SyncCalls` makes it unique. `HoldInv`, `CancelInv`, `HeldInv` and
`AwakeInv` say, by that place, what the state, the timer, the votes and the wakeup
source of the client may be: a call that has cancelled the timer settles the state
itself, because the work function cannot queue the timer again meanwhile, and
nobody ever waits for a completion, because only its own call sees a client in
progress. `AwakeInv` needs that the wakeup source is already released while
`ipa_pm_deactivate_sync` has dropped the vote and not stored the state. The lemmas
on `Moved` reduce each step of a caller to a change of `Where` at one client.
`SyncNoUnderflow` follows from `HeldInv` and `SkippedNoVote`. `SyncAggregate` adds
`SyncScaled`: a caller that has taken the first vote or changed
what is active, or a suspend that has deactivated a client, is on its way to a
scaling (`SyncDue`).

`IpaPmScalingProofs`, under `ScalingAssumption`, for any number of clients,
exceptions and scaling contexts. `TableInv` says that the mask of an exception
holds only registered handles whose name is its list, and that `pending` and the mask
add up to the list; `TableExact` alone is not inductive, because it does not
say which handles a mask may hold. A mask therefore has at most one
handle, and an exception of several names none: `ExceptionsSound` holds for every
list, its converse only for lists of one name (section 7). `VoteIsCurrent` adds
`VoteInv`, of any number of scalings: the newest sum stays the current one until its vote
(registrations and deregistrations touch only inactive clients, which add
nothing, and exceptions that do not pass before or after), and whoever is not
overtaken carries it. The claim is about behaviours in which nobody that was
overtaken writes last (`InOrder`); of the others it is false (section 7).

`IpaRxPollProofs`, under `RxAssumption` (a finite set of CPUs), for the three kinds
of hardware. The core is that there is at most one polling session, and that it is
in one pair of hands: the handler's, the work's, NAPI's or one CPU's (`OneSession`).
`NapiInv`, `PollingInv` and `ModeInv` say what NAPI, `curr_polling_state` and the
mode of the channel are during it, `GateInv` that the clocks are switched without
votes and with the interrupt masked. `CountInv`, all of them with `VotesOwned` and
`WakelockBalanced`, is inductive. `NoEventForgotten` needs, in addition, what the
places at which the ring was last looked at promise (`EventInv`); a poll that ends
for lack of buffers has not looked, but has taken every event of its own pipe.

`KgslEventsProofs`, under `EventsAssumption`. Timestamps are compared modulo
`2 * Window`, so the invariant measures everything as a distance to the timestamp
queued last: `ClockInv` orders the processed, retired and queued timestamps,
`AddInv` says that an event is owned by the thread that adds it, `ListInv` that a
listed event lies after the processed timestamp. `ContextAlwaysHeld` holds without
hypotheses. `RetiredAlwaysDone` and `NoEventMissed` are about timestamps the driver
hands out (`~UserTs`): with one chosen by user space, "retired" has no meaning in
terms of commands. `GroupsDeletedEmpty` also assumes that the wait of a detach for
the GPU does not time out (`WaitEnds \subseteq {"idle"}`); section 7 says what
happens otherwise.

`KgslTimelineProofs`, under `TimelineAssumption`. `TimelineInv` adds to `References`,
`NoLostFence` and `EventsAhead` that `timeline->lock` has one owner over the three
steps of a signal, that a fence off the list is signaled, and how `sig_refcount` of
an object relates to its queue and its event. The order of the list of events is
kept by a lemma about the insertion. `QueriesMonotone` is an action property: what
a query returns is the greatest of the value and of the listed events whose
commands have retired (`QueryGreatest`), and such an event leaves the list only
when the value has reached it (`PassedKept`).

`CamSyncProofs`, under `SyncAssumption`, for callers who take no care. `GroupWaits` is
not inductive: that a group counts each child once depends on who may touch a row
(`OwnInv`), on the lists of parents and children agreeing with one another and with
the merge or destruction in progress (`LinkInv`), on cleared rows being clear
(`RowInv`), and on which messages are meant for the object that has the row now
(`TellInv`). A message for an earlier object can reach an individual object, whose
count then wraps around; `RowInv` says that there are too few such messages to bring
it back to 0, which is what `SyncAssumption` asks of `Wrap` (more than there are
threads), so that the object is not taken for complete (`NobodyIsForgotten`). Steps are
first classified by what they do to the rows and threads (`StepKinds`), so that
each conjunct is shown once per kind and not once per action.

`MergesDoNotWait` is the argument behind `CallsReturn` for any number of rows and
threads: in a state where callers have taken care (`Careful`), a locked row is that of
a group being merged (`OwnInv`), and a child of a merge is no group, so a merge that holds a
row waits for no other.

Only model-checked:

* liveness, under the fairness of section 4;
* `IpaPm` where the synchronous deactivation, or deregistration next to a synchronous
  activation or the suspend, overlaps another call on the same client, but for
  the types and `SkippedNoVote`: most of the safety properties fail there
  (sections 5 and 7). Both activations with deferred deactivation and
  deregistration, which keep all of them, were only run;
* `RisesTogether`, `GroupsOnce` and `AggregateBounds`: they say what a recursive
  function computes for every array, which takes an induction over data.

## 7. Other disagreements met while modelling

Not kept as runs, found with the same modules. Where a property is named, it is
a definition of the module that TLC refutes.

IPA:

* `TagBeforeGating`: `ipa3_send` sets a flag so that a TAG process is sent before
  the clocks are gated (`ipa_dp.c:830`). `__ipa3_dec_client_disable_clks` tests
  the flag under the mutex (`ipa.c:7526`) and subtracts at 7538. A thread that
  takes a vote, sends and drops the vote by the fast path in between is not
  noticed (two senders, `TagMayFail = FALSE`).
* `WaitersResume`: a synchronous activation announces `ACTIVATE_IN_PROGRESS`
  (`ipa_pm.c:977`) but only the work function completes what others then wait for
  (`Ops` of `activate_sync` and `all`).
* `ExceptionInForce`: `ipa_pm.h:49` describes `usecase` as "comma separated client
  names", and the device tree may give such lists (`ipa.c:10689-10731`), but a
  registering client is compared with the whole list (`ipa_pm.c:552`). An
  exception of several names is never in force.
* `VoteAlwaysCurrent`: `do_clk_scaling` stores `cur_vote` and applies the plan
  without a lock over both (`ipa_pm.c:386`): two contexts can store 1, 4 and apply
  4, 1; calls that compute 4 then return early. In the same way the older of two
  sums can be stored last (377). Vote and plan stay wrong until the next change
  of demand that calls for another plan.
* The timer work stores `DEACTIVATED`, unlocks and relaxes the wakeup source
  later (499); an activation in between stays active without wakeup source.
* `ipa_pm_deactivate_all_deferred` cancels the timer before it takes the lock
  (1149); a timer armed in between meets a deactivated client and reaches the
  `WARN_ON(1)` of line 507.
* `activate_work_func` sets the client's bit after the unlock (445), possibly
  after a deactivation cleared it.
* The early completion of section 5 also lets `ipa_pm_deregister` go on (846) while
  the client is being activated: it frees a client that becomes active, whose vote
  and throughput stay. `AggregateCurrent` and `VotesBalanced` fail with `activate`,
  `all` and `deregister` together; without `deregister` they are proved (section 6).
* `ipa_pm_deregister` frees the client (867) without flushing its works. The
  model therefore registers a slot again only when no work uses it.
* `EventMinded`, on GSI 2.2 and 2.5: the return to interrupts may report
  `-GSI_STATUS_PENDING_IRQ` (`gsi.c:4705-4749`), which the resume of a pipe ignores
  (`ipa_utils.c:13021`): an event stays in the ring until the next packet or, as
  the comment at `ipa_dp.c:6640` assumes, until the channel starts again.
* `EventMinded`, with a coalescing pair (`Hw = {"pair"}`): `ipa3_rx_poll` leaves its
  loop when the pipe it polls has no buffer left (`sys->len == 0`, `ipa_dp.c:7417`) and,
  once replenished, completes. Events of the default pipe in the shared
  ring, whose interrupt was cleared when the poll began, wait for the next packet.
* `NoCallbackInPoll`: the handler can reach the callback in polling mode, which the
  code logs as an error (`gsi.c:743`); nothing is lost.
* After a suspend stops a coalescing pair, only the coalescing pipe is looked at
  for pending work; and the undo of a failed suspend does not restore the
  head-of-line blocking of the ODL pipe.

Graphics:

* `DeletedEmpty` fails with `UserTs = TRUE`: a detached context still accepts
  events, and those added between `kgsl_cancel_events` and
  `kgsl_del_event_group` (`kgsl.c:850`) are fired at once if their timestamp has
  retired, as every queued one has by then. A timestamp chosen by user space need
  not have: its event stays on the list of the deleted group, which reaches the
  `WARN_ON` of `kgsl_events.c:324`, and keeps the context for ever. A detach
  whose wait for the GPU times out leaves events in the same way.
* A fence added to a timeline after the destruction swept the list is never
  signaled, and `kgsl_ioctl_timeline_destroy` may call `dma_fence_set_error` on a
  fence that is signaled already.
* A thread that waits for room in the queue of a context is not woken when the
  context is detached.

Camera:

* `CloseSignalsAll`: `cam_sync_close` is to "signal all ACTIVE objects as ERR"
  (`cam_sync.c:2484`), but a signal while other references are left changes nothing,
  and the object is destroyed active.
* `PayloadAtEnd`: registering a payload sends the event as soon as the state is
  not active (`cam_sync.c:890`). A group takes the state of its first child
  while other children are still active.
* `GroupAlwaysWaits`: an index that is freed and used again is taken for the old
  object by threads that still hold it. TLC's shortest behaviour has 29 states: a
  child is signaled while its group is being destroyed, so the signal has taken the
  index of the group off the child; the index becomes another group; and
  `cam_sync_signal_parent_util` subtracts from the new one (`cam_sync.c:344`), which
  completes before its last child. An individual object that gets the index has
  its count wrap around, and takes the status of a child it never had. In the
  same way a reference can be put, or a signal sent, on the object
  that has the row now.
* A merge whose object is destroyed after `cam_sync_check_valid` and whose index is
  the first free one takes it as its own group and then waits for its own lock.
* A callback is taken off its list before a worker task is found for it
  (`cam_sync_util.c:697-709`): if there is none, or the worker refuses it, the
  callback is never called. A registration on a complete object returns the error
  instead (`cam_sync.c:201-208`). `NobodyForgotten` is about the lists only.
* A child that is destroyed while active never completes its group.

## 8. Plan

1. *Done*: `IpaActiveClients`, `ClockGate`, `IpaPm`, `IpaPmTput`,
   `IpaPmScaling`, `IpaRxPoll`, `KgslEvents`, `KgslTimeline`, `CamSync`; the
   proof modules.
2. *Done*: proofs of every safety property of the runs but `RisesTogether`, some
   under the hypotheses section 6 names.
3. Further modules: the resource manager of `qcom/opensource/mmrm-driver`, synx
   (`qcom/opensource/synx-kernel`), the request manager of the camera, the cold
   reset of the NFC driver, the dispatcher of kgsl.

## 9. Not modelled

The hardware-facing parts of the IPA driver (sending and buffers, rule encoding,
the microcontroller, peripherals, most of GSI) need a model of hardware or
firmware that is not in the repository. `ipa_rm` cannot be reached. The other
drivers are listed in `PROJECT.json` with the reason; most are register
sequences, firmware sessions or packet processing, and the ones with control of
their own are in the plan. Within the modelled components:

* `ipa_pm.c`: the callbacks of `ipa_pm_handle_suspend`, `ipa_pm_destroy`, the
  failure paths of registration in `IpaPm` (`IpaPmScaling` has them),
  the dummy clients and the debugfs output;
* receive path: the contents of packets and buffers, replenishing, the pipes
  that are not polled by NAPI;
* kgsl: the event groups of the ringbuffers, fence arrays over several timelines,
  objects for several timelines;
* cam_sync: dma fences and synx objects tied to a row, references on groups, the
  monitor arrays.

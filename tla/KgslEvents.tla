----------------------------- MODULE KgslEvents -----------------------------
(***************************************************************************)
(* GPU events of a kgsl context, graphics-kernel/kgsl_events.c, with what  *)
(* uses them: the timestamps of the context, the threads that wait for one *)
(* (adreno_drawctxt_wait), and the invalidation, detachment and            *)
(* destruction of the context.                                             *)
(*                                                                         *)
(* A timestamp is an unsigned int that wraps around: with Window in place  *)
(* of KGSL_TIMESTAMP_WINDOW, a number below 2 * Window.  What is done      *)
(* under group->lock is one step.                                          *)
(*                                                                         *)
(* A definition marked "slip" is the next one with a plausible mistake in  *)
(* it.  Next uses none of them: they show that each property can fail.     *)
(***************************************************************************)
EXTENDS Integers, FiniteSets

CONSTANTS Threads,        \* callers of kgsl_add_event
          Events,         \* struct kgsl_event
          NoEvent,
          Window,         \* KGSL_TIMESTAMP_WINDOW
          Depth,          \* commands queued since the last processing
          Kinds,          \* "wait": adreno_drawctxt_wait; "async": the others
          UserTs,         \* KGSL_CONTEXT_USER_GENERATED_TS
          WaitEnds        \* how a detach's wait for the GPU may end

ASSUME EventsAssumption ==
    /\ IsFiniteSet(Threads) /\ IsFiniteSet(Events)
    /\ Window \in Nat /\ Depth \in 1 .. Window - 1
    /\ NoEvent \notin Events /\ Kinds \subseteq {"wait", "async"}
    /\ UserTs \in BOOLEAN /\ WaitEnds \subseteq {"idle", "timeout"}

Stamps == 0 .. 2 * Window - 1

VARIABLES queued,     \* drawctxt->timestamp
          retired,    \* eoptimestamp in the memstore
          processed,  \* group->processed
          ev,         \* the events; "need" is kept for the properties only:
                      \* the commands to retire before the event may
          th,         \* what each thread does
          ref,        \* context->refcount
          det,        \* progress of kgsl_context_detach
          inv,        \* progress of adreno_drawctxt_invalidate
          linked      \* the group is on device->event_groups

clock == <<queued, processed>>
life == <<det, inv, linked>>
vars == <<clock, retired, ev, th, ref, life>>

Detached == det # "no"
Invalid == inv # "no"

FreeEvent == [st |-> "free", ts |-> 0, kind |-> "async", res |-> "none", need |-> 0]
IdleThread == [at |-> "idle", ts |-> 0, ev |-> NoEvent]

TypeOK ==
    /\ queued \in Stamps /\ retired \in Stamps /\ processed \in Stamps
    /\ ev \in [Events -> [st : {"free", "new", "listed", "work"}, ts : Stamps,
                          kind : {"wait", "async"}, need : 0 .. Depth,
                          res : {"none", "retired", "cancelled"}]]
    /\ th \in [Threads -> [at : {"idle", "got", "add", "check", "sleep", "put"},
                           ts : Stamps, ev : Events \union {NoEvent}]]
    /\ ref \in Nat
    /\ det \in {"no", "marked", "drained", "cancelled", "unlinked", "done"}
    /\ inv \in {"no", "marked", "done"}
    /\ linked \in BOOLEAN

Init ==
    /\ queued = 0 /\ retired = 0 /\ processed = 0
    /\ ev = [e \in Events |-> FreeEvent]
    /\ th = [t \in Threads |-> IdleThread]
    /\ ref = 2 /\ det = "no" /\ inv = "no" /\ linked = TRUE

-----------------------------------------------------------------------------
(* Timestamps, kgsl.h:444 and kgsl_events.c:53.                            *)

\* Sum and difference of unsigned ints.
Plus(a, b) == IF a + b >= 2 * Window THEN a + b - 2 * Window ELSE a + b
Minus(a, b) == IF a >= b THEN a - b ELSE a - b + 2 * Window

CmpPlain(a, b) ==                       \* slip: no rollover
    IF a = b THEN 0 ELSE IF a > b THEN 1 ELSE -1

Cmp(a, b) ==
    IF a = b THEN 0
    ELSE IF a > b /\ a - b < Window THEN 1
    ELSE LET x == Plus(a, Window)
             y == Plus(b, Window)
         IN  IF x > y /\ x - y <= Window THEN 1 ELSE -1

DoProcessOrdered(done, cur) == cur > done   \* slip: no rollover

\* _do_process_group: something retired, and not by slipping back.
DoProcess(done, cur) == done # cur /\ ~(cur < done /\ done - cur < Window)

-----------------------------------------------------------------------------
(* The commands of the context: adreno_dispatch.c:912 and the GPU.         *)

Outstanding == Minus(queued, retired)

\* The commands that have to retire before timestamp ts has.
Need(ts) == IF Minus(ts, retired) \in 1 .. Outstanding THEN Minus(ts, retired) ELSE 0

\* Timestamps retire up to "to".
RetireTo(to) ==
    /\ retired' = to
    /\ ev' = [e \in Events |->
                [ev[e] EXCEPT !.need = IF @ > Minus(to, retired)
                                       THEN @ - Minus(to, retired) ELSE 0]]

\* A timestamp in use stays less than half the range behind: no thread stalls
\* while 2^31 commands are queued.
Recent(ts) == Cmp(ts, queued) <= 0 => Minus(queued, ts) < Window - 1

\* A command is queued with the next timestamp, or with a later one that the
\* owner of the context made up.  The dispatcher bounds the commands in the queue
\* and in flight, and processes the events of those that retire as it goes on.
Submit(ts) ==
    /\ ~Detached /\ ~Invalid
    /\ IF UserTs THEN Cmp(queued, ts) < 0 ELSE ts = Plus(queued, 1)
    /\ Minus(ts, processed) \in 1 .. Depth
    /\ \A t \in Threads : th[t].at \in {"add", "check", "sleep"} => Recent(th[t].ts)
    /\ queued' = ts
    /\ UNCHANGED <<processed, retired, ev, th, ref, life>>

\* The GPU, or _retire_timestamp for a command it need not see.
GpuRetire ==
    /\ ref > 0 /\ Outstanding > 0
    /\ RetireTo(Plus(retired, 1))
    /\ UNCHANGED <<clock, th, ref, life>>

-----------------------------------------------------------------------------
(* The reference count of the context.                                     *)

\* n calls of kgsl_context_put; the last one clears the memstore.
Put(n) == ref' = ref - n
Cleared(n) == IF ref = n THEN 0 ELSE retired

\* The context is created again, by kgsl_context_init.
CreateContext ==
    /\ ref = 0
    /\ queued' = 0 /\ retired' = 0 /\ processed' = 0
    /\ ref' = 2 /\ det' = "no" /\ inv' = "no" /\ linked' = TRUE
    /\ UNCHANGED <<ev, th>>

-----------------------------------------------------------------------------
(* Processing: what is done under group->lock.                             *)

Listed == {e \in Events : ev[e].st = "listed"}
Due(e) == Cmp(ev[e].ts, retired) <= 0

\* The callback of an event is queued; its timestamp is only traced from now on.
Fired(e, res) == [ev[e] EXCEPT !.st = "work", !.res = res, !.ts = 0]

\* signal_event for every event of S.
Signal(S, res) == [e \in Events |-> IF e \in S THEN Fired(e, res) ELSE ev[e]]

ProcessGroupAll ==                      \* slip: every event taken for retired
    /\ linked /\ ref > 0
    /\ DoProcess(processed, retired)
    /\ ev' = Signal(Listed, "retired")
    /\ processed' = retired
    /\ UNCHANGED <<queued, retired, th, ref, life>>

\* kgsl_process_event_group(s), for a group that needs it.
ProcessGroup ==
    /\ linked /\ ref > 0
    /\ DoProcess(processed, retired)
    /\ ev' = Signal({e \in Listed : Due(e)}, "retired")
    /\ processed' = retired
    /\ UNCHANGED <<queued, retired, th, ref, life>>

WakeAll == [t \in Threads |-> IF th[t].at = "sleep" THEN [th[t] EXCEPT !.at = "check"] ELSE th[t]]

\* _kgsl_event_worker: the callback, then the reference of the event.
Worker(e) ==
    /\ ev[e].st = "work"
    /\ th' = IF ev[e].kind = "wait" THEN WakeAll ELSE th
    /\ ev' = [ev EXCEPT ![e] = FreeEvent]
    /\ Put(1) /\ retired' = Cleared(1)
    /\ UNCHANGED <<clock, life>>

-----------------------------------------------------------------------------
(* Threads: kgsl_add_event and adreno_drawctxt_wait.                       *)

Goto(t, at) == th' = [th EXCEPT ![t].at = at]

\* On the way out; the thread does not look at its timestamp again.
Leave(t) == th' = [th EXCEPT ![t] = [IdleThread EXCEPT !.at = "put"]]

\* kgsl_context_get.
GetContext(t) ==
    /\ th[t].at = "idle" /\ ref > 0 /\ ~Detached
    /\ Goto(t, "got")
    /\ ref' = ref + 1
    /\ UNCHANGED <<clock, retired, ev, life>>

AddCheckBare(t, e, ts, kind) ==         \* slip: no reference for the event
    /\ th[t].at = "got" /\ ev[e].st = "free"
    /\ kind = "wait" => ~Detached /\ ~Invalid
    /\ UserTs \/ (Cmp(ts, queued) <= 0 /\ Minus(queued, ts) # Window)
    /\ ev' = [ev EXCEPT ![e] = [FreeEvent EXCEPT !.st = "new", !.ts = ts,
                                                 !.kind = kind, !.need = Need(ts)]]
    /\ th' = [th EXCEPT ![t] = [at |-> "add", ts |-> ts, ev |-> e]]
    /\ UNCHANGED <<clock, retired, ref, life>>

\* kgsl_add_event up to the lock: the timestamp has been queued, and the event
\* takes a reference on the context.  The code has no more than the comparison;
\* that nobody asks for the timestamp exactly half the range away, of which it
\* cannot tell if it is ahead or behind, is an assumption like that of Submit.
AddCheck(t, e, ts, kind) ==
    /\ th[t].at = "got" /\ ev[e].st = "free"
    /\ kind = "wait" => ~Detached /\ ~Invalid
    /\ UserTs \/ (Cmp(ts, queued) <= 0 /\ Minus(queued, ts) # Window)
    /\ ev' = [ev EXCEPT ![e] = [FreeEvent EXCEPT !.st = "new", !.ts = ts,
                                                 !.kind = kind, !.need = Need(ts)]]
    /\ th' = [th EXCEPT ![t] = [at |-> "add", ts |-> ts, ev |-> e]]
    /\ ref' = ref + 1
    /\ UNCHANGED <<clock, retired, life>>

\* An early return: a timestamp in the future, a bad context, no memory.
AddReject(t) ==
    /\ th[t].at = "got"
    /\ Leave(t)
    /\ UNCHANGED <<clock, retired, ev, ref, life>>

Added(t, event) ==
    /\ ev' = [ev EXCEPT ![th[t].ev] = event]
    /\ IF ev[th[t].ev].kind = "wait"
       THEN th' = [th EXCEPT ![t].at = "check", ![t].ev = NoEvent]
       ELSE Leave(t)

AddEventList(t) ==                      \* slip: listed without the second check
    /\ th[t].at = "add"
    /\ Added(t, [ev[th[t].ev] EXCEPT !.st = "listed"])
    /\ UNCHANGED <<clock, retired, ref, life>>

\* kgsl_add_event under the lock: the callback is queued at once if the
\* timestamp has retired.
AddEvent(t) ==
    /\ th[t].at = "add"
    /\ IF Cmp(retired, th[t].ts) >= 0
       THEN Added(t, Fired(th[t].ev, "retired"))
       ELSE Added(t, [ev[th[t].ev] EXCEPT !.st = "listed"])
    /\ UNCHANGED <<clock, retired, ref, life>>

\* _check_context_timestamp.
WaitOver(t) == Detached \/ Invalid \/ Cmp(retired, th[t].ts) >= 0

\* The loop of wait_event_interruptible_timeout.
WaitCheck(t) ==
    /\ th[t].at = "check"
    /\ IF WaitOver(t) THEN Leave(t) ELSE Goto(t, "sleep")
    /\ UNCHANGED <<clock, retired, ev, ref, life>>

CancelEventBelow(ts) ==                 \* slip: the events up to the timestamp
    ev' = Signal({e \in Listed : Cmp(ev[e].ts, ts) <= 0}, "cancelled")

\* kgsl_cancel_event: the first listed event with the caller's timestamp,
\* callback and private data; those of all waiters are alike.
CancelEvent(ts) ==
    LET alike == {e \in Listed : ev[e].kind = "wait" /\ ev[e].ts = ts}
    IN  IF alike = {} THEN UNCHANGED ev
        ELSE \E e \in alike : ev' = Signal({e}, "cancelled")

\* A timeout, or a signal to the thread.
WaitTimeout(t) ==
    /\ th[t].at = "sleep"
    /\ Leave(t)
    /\ IF WaitOver(t) THEN UNCHANGED ev ELSE CancelEvent(th[t].ts)
    /\ UNCHANGED <<clock, retired, ref, life>>

PutContext(t) ==
    /\ th[t].at = "put"
    /\ th' = [th EXCEPT ![t] = IdleThread]
    /\ Put(1) /\ retired' = Cleared(1)
    /\ UNCHANGED <<clock, ev, life>>

-----------------------------------------------------------------------------
(* adreno_drawctxt_invalidate, for the command that hung.                  *)

InvalidateMark ==
    /\ ~Invalid /\ det \in {"no", "marked"} /\ Outstanding > 0
    /\ inv' = "marked" /\ ref' = ref + 1
    /\ RetireTo(queued)
    /\ UNCHANGED <<clock, th, det, linked>>

\* The events of the commands still in the queue are cancelled, the others
\* flushed; then the waiters are woken.
InvalidateFlush ==
    /\ inv = "marked"
    /\ inv' = "done"
    /\ \E C \in SUBSET Listed :
          ev' = [e \in Events |->
                   IF e \in Listed
                   THEN Fired(e, IF e \in C \/ ~Due(e) THEN "cancelled" ELSE "retired")
                   ELSE ev[e]]
    /\ processed' = retired
    /\ th' = WakeAll
    /\ Put(1) /\ retired' = Cleared(1)
    /\ UNCHANGED <<queued, det, linked>>

-----------------------------------------------------------------------------
(* kgsl_context_detach.                                                    *)

DetachMark ==
    /\ ~Detached /\ ref > 0
    /\ det' = "marked" /\ ref' = ref + 1
    /\ UNCHANGED <<clock, retired, ev, th, inv, linked>>

\* adreno_drawctxt_detach: the GPU is done with the context, whose last
\* timestamp retires; or the wait for it fails and nothing is written.  It is not
\* taken to end within an invalidation, which has retired the same timestamp and
\* wakes the same threads.
DetachContext ==
    /\ det = "marked" /\ inv # "marked"
    /\ det' = "drained"
    /\ \E end \in WaitEnds : RetireTo(IF end = "idle" THEN queued ELSE retired)
    /\ th' = WakeAll
    /\ UNCHANGED <<clock, ref, inv, linked>>

DetachCancelNone ==                     \* slip: kgsl_cancel_events forgotten
    /\ det = "drained"
    /\ det' = "cancelled"
    /\ UNCHANGED <<clock, retired, ev, th, ref, inv, linked>>

\* kgsl_cancel_events.
DetachCancel ==
    /\ det = "drained"
    /\ det' = "cancelled"
    /\ ev' = Signal(Listed, "cancelled")
    /\ UNCHANGED <<clock, retired, th, ref, inv, linked>>

\* kgsl_del_event_group.
DetachUnlink ==
    /\ det = "cancelled"
    /\ det' = "unlinked" /\ linked' = FALSE
    /\ UNCHANGED <<clock, retired, ev, th, ref, inv>>

\* kgsl_sync_timeline_detach, the context's own reference and the caller's.
DetachPut ==
    /\ det = "unlinked"
    /\ det' = "done"
    /\ Put(3) /\ retired' = Cleared(3)
    /\ UNCHANGED <<clock, ev, th, inv, linked>>

Detach == DetachContext \/ DetachCancel \/ DetachUnlink \/ DetachPut

-----------------------------------------------------------------------------
Next ==
    \/ \E ts \in Stamps : Submit(ts)
    \/ GpuRetire \/ ProcessGroup \/ CreateContext
    \/ InvalidateMark \/ InvalidateFlush
    \/ DetachMark \/ Detach
    \/ \E e \in Events : Worker(e)
    \/ \E t \in Threads :
          \/ GetContext(t) \/ AddReject(t) \/ AddEvent(t)
          \/ WaitCheck(t) \/ WaitTimeout(t) \/ PutContext(t)
          \/ \E e \in Events, ts \in Stamps, kind \in Kinds : AddCheck(t, e, ts, kind)

Spec == Init /\ [][Next]_vars

\* The GPU retires what it was given, the dispatcher processes the groups, the
\* event worker and the threads run.  Nobody has to submit, wait, time out,
\* invalidate or detach.
FairSpec ==
    /\ Spec
    /\ WF_vars(GpuRetire) /\ WF_vars(ProcessGroup)
    /\ WF_vars(InvalidateFlush) /\ WF_vars(Detach)
    /\ \A e \in Events : WF_vars(Worker(e))
    /\ \A t \in Threads : WF_vars(AddEvent(t) \/ WaitCheck(t))

-----------------------------------------------------------------------------
(* Correctness.                                                            *)

\* A callback is told that its timestamp has retired only if every command up
\* to it has, however the timestamps wrap around (kgsl_events.c:98).
RetiredIsDone ==
    \A e \in Events : ev[e].st = "work" /\ ev[e].res = "retired" => ev[e].need = 0

\* No event is overlooked: while one that may fire is on the list, the group
\* counts as unprocessed and the next processing takes the event.  An event
\* added while timestamps retire cannot slip in behind the processing
\* (kgsl_events.c:293).
NoMissedEvent ==
    linked => \A e \in Listed : ev[e].need = 0 => DoProcess(processed, retired) /\ Due(e)

Holding == {t \in Threads : th[t].at # "idle"}
Unit(b) == IF b THEN 1 ELSE 0

\* Every thread, every event in use and every call in progress has its own
\* reference, so the context outlives its listed events, its group and its
\* queued callbacks (kgsl_events.c:84, "racing with the context getting
\* destroyed") and is destroyed only when it is detached (kgsl.c:871).
ContextHeld ==
    ref = Cardinality(Holding) + Cardinality({e \in Events : ev[e].st # "free"})
          + Unit(inv = "marked") + (IF det = "done" THEN 0 ELSE 2 + Unit(Detached))

\* The group is deleted when its list is empty (kgsl_events.c:323, "Make sure
\* that all the events have been deleted from the list").
DeletedEmpty == [][linked /\ ~linked' => Listed = {}]_vars

\* Every event that was accepted gets its callback, also when the context is
\* invalidated or detached meanwhile.
EventsFire == \A e \in Events : ev[e].st = "listed" ~> ev[e].st = "free"

\* No wakeup is lost: a thread that sleeps, without a timeout, returns once its
\* timestamp retired or the context went bad, even if another waiter for the
\* same timestamp times out and cancels an event that might be the sleeper's.
WaitersReturn == \A t \in Threads : th[t].at = "sleep" ~> th[t].at = "put"
=============================================================================

---------------------------- MODULE KgslTimeline ----------------------------
(***************************************************************************)
(* A software timeline of the graphics driver, kgsl_timeline.c: its value, *)
(* the dma-fences that wait for a value, and the timeline objects of the   *)
(* command queues (kgsl_drawobj.c) that advance it when the commands       *)
(* queued before them retire.                                              *)
(*                                                                         *)
(* kgsl_timeline_signal holds timeline->lock over three steps; what others *)
(* do under timeline->lock is one step that waits for it, and what is done *)
(* under timeline->fence_lock alone is one step that does not.  The        *)
(* identifier table and its lock are the single variable "id".             *)
(*                                                                         *)
(* A definition marked "slip" is the next one with a plausible mistake in  *)
(* it.  Next uses none of them: they show that each property can fail.     *)
(***************************************************************************)
EXTENDS Integers, Sequences, FiniteSets, SequencesExt

CONSTANTS Callers,    \* threads in an ioctl on the timeline
          Objs,       \* struct kgsl_drawobj_timeline, one timeline each
          Fences,     \* struct kgsl_timeline_fence
          MaxSeqno    \* bound on the sequence numbers, which are u64

ASSUME TimelineAssumption ==
    /\ IsFiniteSet(Callers) /\ IsFiniteSet(Objs) /\ IsFiniteSet(Fences)
    /\ Callers \intersect Objs = {} /\ MaxSeqno \in Nat
    /\ {"no", "list", "swept"} \intersect (Callers \union Objs) = {}

Actors == Callers \union Objs       \* who may run kgsl_timeline_signal
Seqnos == 0 .. MaxSeqno

VARIABLES id,       \* the timeline is in device->timelines
          value,    \* timeline->value
          ref,      \* timeline->ref; 0 when the timeline does not exist
          events,   \* timeline->events: the objects of the listed events
          fence,    \* the fences; "on" is the list the fence is on: none,
                    \* timeline->fences, "temp" of the destruction, or of a
                    \* signaller
          at,       \* where each actor is
          seq,      \* the sequence number of an object
          sig,      \* sig_refcount of an object
          fired,    \* the event callback of an object has run
          passed,   \* the commands queued before an object have retired
          destroy   \* progress of kgsl_ioctl_timeline_destroy

timeline == <<id, value, ref, events>>
object == <<sig, fired, passed>>
vars == <<timeline, fence, at, seq, object, destroy>>

NoFence == [st |-> "free", seqno |-> 0, ref |-> 0, user |-> FALSE,
            signaled |-> FALSE, error |-> FALSE, on |-> "no"]

TypeOK ==
    /\ id \in BOOLEAN /\ value \in Seqnos /\ ref \in Nat
    /\ events \in Seq(Objs)
    /\ fence \in [Fences -> [st : {"free", "live", "dead"}, seqno : Seqnos,
                             ref : Nat, user : BOOLEAN, signaled : BOOLEAN,
                             error : BOOLEAN, on : {"no", "list", "swept"} \union Actors]]
    /\ at \in [Actors -> {"idle", "got", "queued", "wait", "retire", "begun", "taken"}]
    /\ seq \in [Objs -> Seqnos]
    /\ sig \in [Objs -> 0 .. 2]
    /\ fired \in [Objs -> BOOLEAN] /\ passed \in [Objs -> BOOLEAN]
    /\ destroy \in {"no", "removed", "swept", "done"}

Init ==
    /\ id = TRUE /\ value = 0 /\ ref = 1 /\ events = <<>>
    /\ fence = [f \in Fences |-> NoFence]
    /\ at = [a \in Actors |-> "idle"] /\ seq = [o \in Objs |-> 0]
    /\ sig = [o \in Objs |-> 0]
    /\ fired = [o \in Objs |-> FALSE] /\ passed = [o \in Objs |-> FALSE]
    /\ destroy = "no"

\* timeline->lock is free.
Unlocked == \A a \in Actors : at[a] \notin {"begun", "taken"}

Goto(a, place) == at' = [at EXCEPT ![a] = place]

-----------------------------------------------------------------------------
(* The life of the timeline.                                               *)

\* kgsl_ioctl_timeline_create, once the last timeline is gone.
Create(initial) ==
    /\ ref = 0
    /\ id' = TRUE /\ value' = initial /\ ref' = 1 /\ events' = <<>>
    /\ destroy' = "no"
    /\ UNCHANGED <<fence, at, seq, object>>

\* kgsl_timeline_by_id, for an ioctl.
ById(c) ==
    /\ at[c] = "idle" /\ id /\ ref > 0
    /\ ref' = ref + 1
    /\ Goto(c, "got")
    /\ UNCHANGED <<id, value, events, fence, seq, object, destroy>>

\* The end of an ioctl, or of the signal of an object: kgsl_timeline_put.
Leave(a) == at' = [at EXCEPT ![a] = "idle"]

\* The ioctl fails: no memory, no descriptor, a bad argument.
GiveUp(c) ==
    /\ at[c] = "got"
    /\ Leave(c) /\ ref' = ref - 1
    /\ UNCHANGED <<id, value, events, fence, seq, object, destroy>>

-----------------------------------------------------------------------------
(* Fences.                                                                 *)

\* timeline_fence_signaled.
Reached(f) == fence[f].seqno <= value

FenceAllocBare(c, f, s) ==              \* slip: listed without the check
    /\ at[c] = "got" /\ fence[f].st = "free" /\ Unlocked
    /\ Leave(c) /\ ref' = ref - 1 + 1
    /\ fence' = [fence EXCEPT ![f] = [NoFence EXCEPT !.st = "live", !.seqno = s,
                    !.ref = 1, !.user = TRUE, !.on = "list"]]
    /\ UNCHANGED <<id, value, events, seq, object, destroy>>

\* kgsl_timeline_fence_alloc: a fence for a value the timeline has reached is
\* signaled at once, any other goes on the list, both under the lock.
FenceAlloc(c, f, s) ==
    /\ at[c] = "got" /\ fence[f].st = "free" /\ Unlocked
    /\ Leave(c) /\ ref' = ref - 1 + 1
    /\ fence' = [fence EXCEPT ![f] = [NoFence EXCEPT !.st = "live", !.seqno = s,
                    !.ref = 1, !.user = TRUE, !.signaled = s <= value,
                    !.on = IF s <= value THEN "no" ELSE "list"]]
    /\ UNCHANGED <<id, value, events, seq, object, destroy>>

\* dma_fence_is_signaled or dma_fence_enable_sw_signaling, by the holder.
Poll(f) ==
    /\ fence[f].user /\ ~fence[f].signaled /\ Reached(f) /\ Unlocked
    /\ fence' = [fence EXCEPT ![f].signaled = TRUE]
    /\ UNCHANGED <<timeline, at, seq, object, destroy>>

\* dma_fence_put; the last one releases the fence.
Dropped(fc) == [fc EXCEPT !.ref = @ - 1, !.st = IF fc.ref = 1 THEN "dead" ELSE @]

\* The holder closes the fence.
PutFence(f) ==
    /\ fence[f].user
    /\ fence' = [fence EXCEPT ![f] = Dropped([fence[f] EXCEPT !.user = FALSE])]
    /\ UNCHANGED <<timeline, at, seq, object, destroy>>

\* timeline_fence_release: off the list, if the fence is still on it.
Release(f) ==
    /\ fence[f].st = "dead"
    /\ fence' = [fence EXCEPT ![f] = NoFence]
    /\ ref' = ref - 1
    /\ UNCHANGED <<id, value, events, at, seq, object, destroy>>

-----------------------------------------------------------------------------
(* kgsl_timeline_signal, in three steps under timeline->lock.              *)

TrimAll(s) == <<>>                      \* slip: every event removed

\* The events after those up to s; the loop stops at the first one above s.
Trim(s) ==
    LET above == {i \in 1 .. Len(events) : seq[events[i]] > s}
    IN  IF above = {} THEN <<>> ELSE SubSeq(events, Min(above), Len(events))

\* A value below the current one changes nothing.
SignalBegin(a, s) ==
    /\ Unlocked
    /\ IF s < value
       THEN Leave(a) /\ ref' = ref - 1 /\ UNCHANGED <<value, events>>
       ELSE Goto(a, "begun") /\ value' = s /\ events' = Trim(s) /\ UNCHANGED ref
    /\ UNCHANGED <<id, fence, destroy>>

SignalTakeOld(a) ==                     \* slip: only the fences below the value
    /\ at[a] = "begun"
    /\ fence' = [f \in Fences |->
                   IF fence[f].on = "list" /\ fence[f].seqno < value /\ fence[f].ref > 0
                   THEN [fence[f] EXCEPT !.on = a, !.ref = @ + 1] ELSE fence[f]]
    /\ Goto(a, "taken")
    /\ UNCHANGED <<timeline, seq, object, destroy>>

\* Under fence_lock: the fences that are reached, and not being released, move
\* to a private list with a reference each.
SignalTake(a) ==
    /\ at[a] = "begun"
    /\ fence' = [f \in Fences |->
                   IF fence[f].on = "list" /\ Reached(f) /\ fence[f].ref > 0
                   THEN [fence[f] EXCEPT !.on = a, !.ref = @ + 1] ELSE fence[f]]
    /\ Goto(a, "taken")
    /\ UNCHANGED <<timeline, seq, object, destroy>>

\* They are signaled and put; then the lock is released.
SignalEnd(a) ==
    /\ at[a] = "taken"
    /\ fence' = [f \in Fences |->
                   IF fence[f].on = a
                   THEN Dropped([fence[f] EXCEPT !.signaled = TRUE, !.on = "no"])
                   ELSE fence[f]]
    /\ Leave(a) /\ ref' = ref - 1
    /\ UNCHANGED <<id, value, events, seq, object, destroy>>

\* kgsl_ioctl_timeline_signal.
IoctlSignal(c, s) ==
    /\ at[c] = "got"
    /\ SignalBegin(c, s)
    /\ UNCHANGED <<seq, object>>

-----------------------------------------------------------------------------
(* Timeline objects, kgsl_drawobj.c.                                       *)

\* kgsl_drawobj_add_timeline: the object waits to be popped off its queue and
\* for the last timestamp queued on its context, which may have retired.
AddTimeline(o, s, done) ==
    /\ at[o] = "idle" /\ id /\ ref > 0
    /\ ref' = ref + 1
    /\ sig' = [sig EXCEPT ![o] = 2]
    /\ seq' = [seq EXCEPT ![o] = s]
    /\ passed' = [passed EXCEPT ![o] = done]
    /\ Goto(o, "queued")
    /\ UNCHANGED <<id, value, events, fence, fired, destroy>>

\* kgsl_timelineobj_signal: the last reference starts the signal.
PutSig(o, place) ==
    /\ sig' = [sig EXCEPT ![o] = @ - 1]
    /\ Goto(o, IF sig[o] = 1 THEN "retire" ELSE place)

\* Behind the last event up to the sequence number of o.
Insert(o) ==
    InsertAt(events, 1 + Max({0} \union {i \in 1 .. Len(events) : seq[events[i]] <= seq[o]}), o)

\* timelineobj_destroy, by the dispatcher or by the cleanup of a detached
\* context: kgsl_timeline_add_signal, unless the value is reached, then the
\* reference of the queue.
Pop(o) ==
    /\ at[o] = "queued" /\ Unlocked
    /\ events' = IF value >= seq[o] THEN events ELSE Insert(o)
    /\ PutSig(o, "wait")
    /\ UNCHANGED <<id, value, ref, fence, seq, fired, passed, destroy>>

\* The timestamp the object waits for retires.
RetireCommands(o) ==
    /\ at[o] \in {"queued", "wait"} /\ ~passed[o]
    /\ passed' = [passed EXCEPT ![o] = TRUE]
    /\ UNCHANGED <<timeline, fence, at, seq, sig, fired, destroy>>

\* _timeline_signaled, the callback of the kgsl event: the timestamp retired,
\* or the event was cancelled; the callback makes no difference.
EventFires(o) ==
    /\ at[o] \in {"queued", "wait"} /\ ~fired[o]
    /\ fired' = [fired EXCEPT ![o] = TRUE]
    /\ PutSig(o, at[o])
    /\ UNCHANGED <<timeline, fence, seq, passed, destroy>>

\* _drawobj_timelineobj_retire; nothing of the object is read again.
ObjRetire(o) ==
    /\ at[o] = "retire"
    /\ SignalBegin(o, seq[o])
    /\ seq' = [seq EXCEPT ![o] = 0]
    /\ fired' = [fired EXCEPT ![o] = FALSE] /\ passed' = [passed EXCEPT ![o] = FALSE]
    /\ UNCHANGED sig

-----------------------------------------------------------------------------
(* kgsl_ioctl_timeline_query.                                              *)

\* The value, or the last listed event whose commands have retired.
QueryValue ==
    LET hit == {i \in 1 .. Len(events) : passed[events[i]]}
    IN  IF hit = {} THEN value ELSE seq[events[Max(hit)]]

Query(c) ==
    /\ at[c] = "got" /\ Unlocked
    /\ Leave(c) /\ ref' = ref - 1
    /\ UNCHANGED <<id, value, events, fence, seq, object, destroy>>

-----------------------------------------------------------------------------
(* kgsl_ioctl_timeline_destroy, by the owner.                              *)

DestroyRemove ==
    /\ id
    /\ id' = FALSE /\ destroy' = "removed"
    /\ UNCHANGED <<value, ref, events, fence, at, seq, object>>

DestroySweepBare ==                     \* slip: no references on the fences
    /\ destroy = "removed"
    /\ destroy' = "swept"
    /\ fence' = [f \in Fences |-> IF fence[f].on = "list"
                                  THEN [fence[f] EXCEPT !.on = "swept"] ELSE fence[f]]
    /\ UNCHANGED <<timeline, at, seq, object>>

\* Under fence_lock: the list moves to a private one, with a reference for
\* each fence; a fence that is being released just leaves it.
DestroySweep ==
    /\ destroy = "removed"
    /\ destroy' = "swept"
    /\ fence' = [f \in Fences |->
                   IF fence[f].on # "list" THEN fence[f]
                   ELSE IF fence[f].ref = 0 THEN [fence[f] EXCEPT !.on = "no"]
                   ELSE [fence[f] EXCEPT !.on = "swept", !.ref = @ + 1]]
    /\ UNCHANGED <<timeline, at, seq, object>>

\* Under timeline->lock: the fences fail; then the reference of the creation.
DestroySignal ==
    /\ destroy = "swept" /\ Unlocked
    /\ destroy' = "done"
    /\ fence' = [f \in Fences |->
                   IF fence[f].on = "swept"
                   THEN Dropped([fence[f] EXCEPT !.error = TRUE, !.signaled = TRUE,
                                                 !.on = "no"])
                   ELSE fence[f]]
    /\ ref' = ref - 1
    /\ UNCHANGED <<id, value, events, at, seq, object>>

-----------------------------------------------------------------------------
SignalSteps(a) == SignalTake(a) \/ SignalEnd(a)

ObjSteps(o) == Pop(o) \/ ObjRetire(o) \/ SignalSteps(o)

CallerSteps(c) ==
    \/ ById(c) \/ GiveUp(c) \/ Query(c) \/ SignalSteps(c)
    \/ \E s \in Seqnos : IoctlSignal(c, s) \/ \E f \in Fences : FenceAlloc(c, f, s)

Next ==
    \/ \E s \in Seqnos : Create(s)
    \/ DestroyRemove \/ DestroySweep \/ DestroySignal
    \/ \E c \in Callers : CallerSteps(c)
    \/ \E o \in Objs : \/ ObjSteps(o) \/ RetireCommands(o) \/ EventFires(o)
                       \/ \E s \in Seqnos, done \in BOOLEAN : AddTimeline(o, s, done)
    \/ \E f \in Fences : Poll(f) \/ PutFence(f) \/ Release(f)

Spec == Init /\ [][Next]_vars

\* The GPU retires what was queued, kgsl events fire (KgslEvents!EventsFire),
\* the dispatcher pops the objects, and a thread inside a call goes on; the
\* spinlock is granted in the order of arrival.  Nobody has to poll, close,
\* signal or destroy.
FairSpec ==
    /\ Spec
    /\ SF_vars(DestroySweep \/ DestroySignal)
    /\ \A c \in Callers : WF_vars(SignalSteps(c))
    /\ \A o \in Objs : SF_vars(ObjSteps(o)) /\ WF_vars(EventFires(o))

-----------------------------------------------------------------------------
(* Correctness.                                                            *)

Unit(b) == IF b THEN 1 ELSE 0
Holders == {a \in Actors : at[a] # "idle"}

\* Every ioctl in progress, every timeline object and every fence holds a
\* reference on the timeline, besides the one of its creation, and every list
\* a fence is taken to holds one on the fence: nothing is used after it is
\* freed, however a release races with a signal or a destruction
\* (kgsl_timeline.c:311 and 606).
References ==
    /\ ref = Unit(destroy # "done") + Cardinality(Holders)
             + Cardinality({f \in Fences : fence[f].st # "free"})
    /\ \A f \in Fences :
          /\ fence[f].ref = Unit(fence[f].user) + Unit(fence[f].on \notin {"no", "list"})
          /\ fence[f].st = "live" <=> fence[f].ref > 0

\* The events on the list belong to objects that have not signaled yet and so
\* still own them, they lie ahead of the value, and they are sorted: the list
\* is empty when the timeline is freed (kgsl_timeline.c:104) and no element of
\* it is freed with its object (kgsl_drawobj.c:412).
EventsAhead ==
    \A i \in 1 .. Len(events) :
        /\ at[events[i]] \in {"wait", "retire"}
        /\ seq[events[i]] > value
        /\ \A j \in i + 1 .. Len(events) : seq[events[i]] <= seq[events[j]] /\ events[i] # events[j]

\* No fence is lost between the check of its value and the list: one that the
\* timeline has reached is signaled, unless a signal or the destruction that
\* will do it is under way (kgsl_timeline.c:344).
NoLostFence ==
    \A f \in Fences :
        fence[f].st = "live" /\ Reached(f) /\ ~fence[f].signaled =>
            \/ fence[f].on \in Actors \union {"swept"}
            \/ fence[f].on = "list" /\ \E a \in Actors : at[a] = "begun"

\* A query never returns less than an earlier one did, although it looks ahead
\* at commands that have retired and whose signal is still to come
\* (kgsl_timeline.c:464, "subsequent query ioctls return a monotonically
\* increasing seqno").
QueryMonotone == [][ref > 0 => QueryValue' >= QueryValue]_vars

\* What was queued before a fence's value gets the fence signaled: a fence that
\* waits for a queued object ends, whoever else signals, queries or destroys
\* the timeline (kgsl_timeline.h:65, "signal any fences that might have
\* expired").
FencesEnd ==
    \A f \in Fences, o \in Objs :
        (fence[f].on = "list" /\ at[o] = "queued" /\ seq[o] >= fence[f].seqno)
            ~> (fence[f].signaled \/ fence[f].st # "live")
=============================================================================

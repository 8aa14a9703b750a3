-------------------------- MODULE KgslEventsProofs --------------------------
(***************************************************************************)
(* Proofs about the GPU events of a context, for any finite numbers of     *)
(* threads and events and any window of timestamps.                        *)
(*                                                                         *)
(* Timestamps wrap around, so they are compared by their distance to the   *)
(* one queued last: what the invariant keeps is that all timestamps in use *)
(* are near it.                                                            *)
(***************************************************************************)
EXTENDS KgslEvents, FiniteSetTheorems, TLAPS

\* How many timestamps were queued after ts.
Since(ts) == Minus(queued, ts)

\* How many commands up to ts are still to retire, when q is the timestamp
\* queued last and r the one retired last.
LeftOf(q, r, ts) == IF Minus(q, r) > Minus(q, ts) THEN Minus(q, r) - Minus(q, ts) ELSE 0
Left(ts) == LeftOf(queued, retired, ts)

\* While the context exists, retired lies between processed and queued, and
\* these are not far apart.
ClockInv == ref > 0 => Outstanding <= Since(processed) /\ Since(processed) <= Depth

\* A thread in kgsl_add_event owns the event it is about to list, whose
\* timestamp is recent.
AddInv ==
    /\ \A t \in Threads : th[t].at = "add" =>
          /\ th[t].ev \in Events
          /\ ev[th[t].ev].st = "new" /\ ev[th[t].ev].ts = th[t].ts
          /\ ~UserTs => Since(th[t].ts) < Window /\ ev[th[t].ev].need = Left(th[t].ts)
    /\ \A t, u \in Threads :
          th[t].at = "add" /\ th[u].at = "add" /\ th[t].ev = th[u].ev => t = u

\* A listed event has a timestamp after the one that was processed.
ListInv ==
    ~UserTs => \A e \in Listed : /\ Since(ev[e].ts) < Since(processed)
                                 /\ ev[e].need = Left(ev[e].ts)

DoneInv == ~UserTs => RetiredIsDone

\* If the wait of a detach for the GPU does not fail, everything has retired
\* after it, so that nothing is listed any more.
DetachInv ==
    WaitEnds \subseteq {"idle"} =>
        /\ det \in {"drained", "cancelled", "unlinked"} => retired = queued
        /\ ~UserTs /\ det = "cancelled" => Listed = {}

\* The group is on the list of groups until kgsl_del_event_group.
LinkInv == linked <=> det \notin {"unlinked", "done"}

\* The inductive invariant.
EventsInv ==
    /\ TypeOK /\ ContextHeld /\ ClockInv /\ AddInv /\ ListInv /\ DoneInv /\ DetachInv
    /\ LinkInv

-----------------------------------------------------------------------------
(* Timestamps.                                                             *)

\* The difference of two timestamps is one, and zero only if they are equal.
LEMMA MinusStamp ==
    ASSUME NEW a \in Stamps, NEW b \in Stamps
    PROVE  /\ Minus(a, b) \in Stamps /\ Minus(a, b) \in Nat /\ Minus(a, b) < 2 * Window
           /\ Minus(a, b) = 0 <=> a = b
BY EventsAssumption DEF Stamps, Minus

\* The distance between two timestamps, from their distances to a third.
LEMMA MinusSplit ==
    ASSUME NEW q \in Stamps, NEW r \in Stamps, NEW a \in Stamps
    PROVE  Minus(r, a) = IF Minus(q, a) >= Minus(q, r) THEN Minus(q, a) - Minus(q, r)
                         ELSE Minus(q, a) - Minus(q, r) + 2 * Window
BY EventsAssumption DEF Stamps, Minus

\* One more is queued.
LEMMA PlusOne ==
    ASSUME NEW q \in Stamps, NEW a \in Stamps
    PROVE  /\ Plus(q, 1) \in Stamps
           /\ Minus(Plus(q, 1), a) =
                 IF Minus(q, a) = 2 * Window - 1 THEN 0 ELSE Minus(q, a) + 1
           /\ q # a => Minus(q, Plus(a, 1)) = Minus(q, a) - 1
           /\ Minus(Plus(a, 1), a) = 1
BY EventsAssumption DEF Stamps, Minus, Plus

\* timestamp_cmp is the order of two timestamps less than the window apart,
\* however they wrap around.
LEMMA CmpOrder ==
    ASSUME NEW a \in Stamps, NEW b \in Stamps, Minus(a, b) # Window
    PROVE  (Cmp(a, b) >= 0 <=> Minus(a, b) < Window) /\ (Cmp(b, a) <= 0 <=> Minus(a, b) < Window)
<1>1. /\ a \in Nat /\ b \in Nat /\ a < 2 * Window /\ b < 2 * Window /\ Window \in Nat
      /\ Window >= 2
  BY EventsAssumption DEF Stamps
<1>2. CASE a = b
  BY <1>1, <1>2 DEF Cmp, Minus
<1>3. CASE a > b
  <2>1. Minus(a, b) = a - b
    BY <1>1, <1>3 DEF Minus
  <2> QED
    BY <1>1, <1>3, <2>1 DEF Cmp, Plus
<1>4. CASE a < b
  <2>1. Minus(a, b) = a - b + 2 * Window
    BY <1>1, <1>4 DEF Minus
  <2> QED
    BY <1>1, <1>4, <2>1 DEF Cmp, Plus
<1> QED
  BY <1>1, <1>2, <1>3, <1>4

\* A later user-generated timestamp is ahead of the one queued last.
LEMMA CmpAhead ==
    ASSUME NEW a \in Stamps, NEW b \in Stamps, Cmp(a, b) < 0
    PROVE  Minus(a, b) >= Window
<1>1. Cmp(a, b) \in {-1, 0, 1}
  BY DEF Cmp
<1> QED
  BY <1>1, CmpOrder, MinusStamp, EventsAssumption

\* _do_process_group sees that timestamps retired, less than the window of them.
LEMMA DoProcessAhead ==
    ASSUME NEW a \in Stamps, NEW b \in Stamps, Minus(a, b) \in 1 .. Window - 1
    PROVE  DoProcess(b, a)
BY EventsAssumption DEF Stamps, Minus, DoProcess

\* Of the timestamps near the one queued last, those have retired after which
\* at least the outstanding ones were queued.
LEMMA DueOrder ==
    ASSUME TypeOK, NEW ts \in Stamps, Outstanding < Window, Since(ts) < Window
    PROVE  /\ Cmp(ts, retired) <= 0 <=> Since(ts) >= Outstanding
           /\ Cmp(retired, ts) >= 0 <=> Since(ts) >= Outstanding
<1>1. retired \in Stamps /\ queued \in Stamps
  BY DEF TypeOK
<1>2. Since(ts) \in Nat /\ Outstanding \in Nat /\ Window \in Nat
  BY <1>1, MinusStamp, EventsAssumption DEF Since, Outstanding
<1>3. Minus(retired, ts) = IF Since(ts) >= Outstanding THEN Since(ts) - Outstanding
                           ELSE Since(ts) - Outstanding + 2 * Window
  BY <1>1, MinusSplit DEF Since, Outstanding
<1>4. Minus(retired, ts) # Window /\ (Minus(retired, ts) < Window <=> Since(ts) >= Outstanding)
  BY <1>2, <1>3
<1> QED
  BY <1>1, <1>4, CmpOrder

\* What AddCheck notes for the properties is what is left to retire.
LEMMA NeedLeft ==
    ASSUME TypeOK, NEW ts \in Stamps
    PROVE  /\ Need(ts) \in Nat /\ Need(ts) <= Outstanding
           /\ Since(ts) < Window => Need(ts) = Left(ts)
<1>1. retired \in Stamps /\ queued \in Stamps
  BY DEF TypeOK
<1>2. /\ Since(ts) \in Nat /\ Outstanding \in Nat /\ Window \in Nat
      /\ Minus(ts, retired) \in Nat
  BY <1>1, MinusStamp, EventsAssumption DEF Since, Outstanding
<1>3. Minus(ts, retired) = IF Outstanding >= Since(ts) THEN Outstanding - Since(ts)
                           ELSE Outstanding - Since(ts) + 2 * Window
  BY <1>1, MinusSplit DEF Since, Outstanding
<1> QED
  BY <1>2, <1>3 DEF Need, Left, LeftOf, Since, Outstanding

-----------------------------------------------------------------------------
(* Counts.                                                                 *)

\* The events in use.
InUse == {e \in Events : ev[e].st # "free"}

\* The counted sets are finite, before and after a step.
LEMMA CountedSets ==
    /\ IsFiniteSet(Holding) /\ Cardinality(Holding) \in Nat
    /\ IsFiniteSet(InUse) /\ Cardinality(InUse) \in Nat
    /\ IsFiniteSet(Holding') /\ Cardinality(Holding') \in Nat
    /\ IsFiniteSet(InUse') /\ Cardinality(InUse') \in Nat
<1>1. Holding \subseteq Threads /\ InUse \subseteq Events
  BY DEF Holding, InUse
<1>2. Holding' \subseteq Threads /\ InUse' \subseteq Events
  BY DEF Holding, InUse
<1>3. IsFiniteSet(Holding) /\ IsFiniteSet(InUse) /\ IsFiniteSet(Holding') /\ IsFiniteSet(InUse')
  BY <1>1, <1>2, EventsAssumption, FS_Subset
<1> QED
  BY <1>3, FS_CardinalityType

\* A context without references is detached, and nobody uses it.
LEMMA RefZero ==
    ASSUME ContextHeld, ref = 0
    PROVE  /\ det = "done" /\ inv # "marked"
           /\ \A t \in Threads : th[t].at = "idle"
           /\ \A e \in Events : ev[e].st = "free"
<1>1. ref = Cardinality(Holding) + Cardinality(InUse)
            + Unit(inv = "marked") + (IF det = "done" THEN 0 ELSE 2 + Unit(Detached))
  BY DEF ContextHeld, InUse
<1>2. /\ Cardinality(Holding) = 0 /\ Cardinality(InUse) = 0
      /\ det = "done" /\ inv # "marked"
  BY <1>1, CountedSets DEF Unit
<1>3. Holding = {} /\ InUse = {}
  BY <1>2, CountedSets, FS_EmptySet
<1> QED
  BY <1>2, <1>3 DEF Holding, InUse

\* So it is after a step.
LEMMA RefZeroNext ==
    ASSUME ContextHeld', ref' = 0
    PROVE  /\ det' = "done" /\ inv' # "marked"
           /\ \A t \in Threads : th'[t].at = "idle"
           /\ \A e \in Events : ev'[e].st = "free"
<1>1. ref' = Cardinality(Holding') + Cardinality(InUse')
            + Unit(inv' = "marked") + (IF det' = "done" THEN 0 ELSE 2 + Unit(det' # "no"))
  BY DEF ContextHeld, InUse, Detached, Unit
<1>2. /\ Cardinality(Holding') = 0 /\ Cardinality(InUse') = 0
      /\ det' = "done" /\ inv' # "marked"
  BY <1>1, CountedSets DEF Unit
<1>3. Holding' = {} /\ InUse' = {}
  BY <1>2, CountedSets, FS_EmptySet
<1> QED
  BY <1>2, <1>3 DEF Holding, InUse

\* One thread moves.
MovesThread(t) == \A u \in Threads : u # t => th'[u] = th[u]

\* It changes the number of holders when it begins or ends a call.
LEMMA HoldingMove ==
    ASSUME NEW t \in Threads, MovesThread(t)
    PROVE  Cardinality(Holding') =
               Cardinality(Holding) + Unit(th'[t].at # "idle") - Unit(th[t].at # "idle")
<1>1. Cardinality(Holding \union {t}) =
        IF t \in Holding THEN Cardinality(Holding) ELSE Cardinality(Holding) + 1
  BY CountedSets, FS_AddElement
<1>2. Cardinality(Holding \ {t}) =
        IF t \in Holding THEN Cardinality(Holding) - 1 ELSE Cardinality(Holding)
  BY CountedSets, FS_RemoveElement
<1>3. Holding' = IF th'[t].at # "idle" THEN Holding \union {t} ELSE Holding \ {t}
  BY DEF Holding, MovesThread
<1>4. t \in Holding <=> th[t].at # "idle"
  BY DEF Holding
<1>5. CASE th'[t].at # "idle"
  <2>1. Cardinality(Holding') = Cardinality(Holding \union {t})
    BY <1>3, <1>5
  <2> QED
    BY <1>1, <1>4, <1>5, <2>1, CountedSets DEF Unit
<1>6. CASE th'[t].at = "idle"
  <2>1. Cardinality(Holding') = Cardinality(Holding \ {t})
    BY <1>3, <1>6
  <2> QED
    BY <1>2, <1>4, <1>6, <2>1, CountedSets DEF Unit
<1> QED
  BY <1>5, <1>6

\* One event changes.
MovesEvent(e) == \A f \in Events : f # e => ev'[f] = ev[f]

\* It changes the number in use when it is allocated or freed.
LEMMA InUseMove ==
    ASSUME NEW e \in Events, MovesEvent(e)
    PROVE  Cardinality(InUse') =
               Cardinality(InUse) + Unit(ev'[e].st # "free") - Unit(ev[e].st # "free")
<1>1. Cardinality(InUse \union {e}) =
        IF e \in InUse THEN Cardinality(InUse) ELSE Cardinality(InUse) + 1
  BY CountedSets, FS_AddElement
<1>2. Cardinality(InUse \ {e}) =
        IF e \in InUse THEN Cardinality(InUse) - 1 ELSE Cardinality(InUse)
  BY CountedSets, FS_RemoveElement
<1>3. InUse' = IF ev'[e].st # "free" THEN InUse \union {e} ELSE InUse \ {e}
  BY DEF InUse, MovesEvent
<1>4. e \in InUse <=> ev[e].st # "free"
  BY DEF InUse
<1>5. CASE ev'[e].st # "free"
  <2>1. Cardinality(InUse') = Cardinality(InUse \union {e})
    BY <1>3, <1>5
  <2> QED
    BY <1>1, <1>4, <1>5, <2>1, CountedSets DEF Unit
<1>6. CASE ev'[e].st = "free"
  <2>1. Cardinality(InUse') = Cardinality(InUse \ {e})
    BY <1>3, <1>6
  <2> QED
    BY <1>2, <1>4, <1>6, <2>1, CountedSets DEF Unit
<1> QED
  BY <1>5, <1>6

-----------------------------------------------------------------------------
(* What the steps do to threads and events.                                *)

EventRec == [st : {"free", "new", "listed", "work"}, ts : Stamps,
             kind : {"wait", "async"}, need : 0 .. Depth,
             res : {"none", "retired", "cancelled"}]
ThreadRec == [at : {"idle", "got", "add", "check", "sleep", "put"},
              ts : Stamps, ev : Events \union {NoEvent}]

\* An event or a thread is kept, but for the field named.
SameButNeed(e) == /\ ev'[e].st = ev[e].st /\ ev'[e].ts = ev[e].ts
                  /\ ev'[e].kind = ev[e].kind /\ ev'[e].res = ev[e].res
SameButAt(t) == th'[t].ts = th[t].ts /\ th'[t].ev = th[t].ev

\* The events and threads, by TypeOK.
LEMMA Types ==
    ASSUME TypeOK
    PROVE  ev \in [Events -> EventRec] /\ th \in [Threads -> ThreadRec] /\ 0 \in Stamps
BY EventsAssumption DEF TypeOK, EventRec, ThreadRec, Stamps

\* The event after signal_event.
LEMMA FiredEffect ==
    ASSUME TypeOK, NEW e \in Events, NEW res \in {"retired", "cancelled"}
    PROVE  /\ Fired(e, res) \in EventRec
           /\ Fired(e, res).st = "work" /\ Fired(e, res).res = res
           /\ Fired(e, res).need = ev[e].need /\ Fired(e, res).kind = ev[e].kind
BY Types DEF Fired, EventRec

\* signal_event for the events of S.
LEMMA SignalEffect ==
    ASSUME TypeOK, NEW S \in SUBSET Events, NEW res \in {"retired", "cancelled"},
           ev' = Signal(S, res)
    PROVE  /\ ev' \in [Events -> EventRec]
           /\ \A e \in Events : e \notin S => ev'[e] = ev[e]
           /\ \A e \in S : /\ ev'[e].st = "work" /\ ev'[e].res = res
                           /\ ev'[e].need = ev[e].need
<1>1. \A e \in Events : ev'[e] = IF e \in S THEN Fired(e, res) ELSE ev[e]
  BY DEF Signal
<1>2. \A e \in Events : (IF e \in S THEN Fired(e, res) ELSE ev[e]) \in EventRec
  BY Types, FiredEffect
<1>3. ev' \in [Events -> EventRec]
  BY <1>2 DEF Signal
<1>4. \A e \in S : ev'[e] = Fired(e, res)
  BY <1>1
<1> QED
  BY <1>1, <1>3, <1>4, FiredEffect

\* Timestamps retire.
LEMMA RetireEffect ==
    ASSUME TypeOK, NEW to \in Stamps, RetireTo(to)
    PROVE  /\ retired' = to /\ ev' \in [Events -> EventRec]
           /\ \A e \in Events :
                 /\ SameButNeed(e)
                 /\ ev'[e].need = IF ev[e].need > Minus(to, retired)
                                  THEN ev[e].need - Minus(to, retired) ELSE 0
<1> DEFINE n == Minus(to, retired)
           after(e) == [ev[e] EXCEPT !.need = IF ev[e].need > n THEN ev[e].need - n ELSE 0]
<1>1. n \in Nat
  BY MinusStamp DEF TypeOK
<1>2. retired' = to /\ ev' = [e \in Events |-> after(e)]
  BY DEF RetireTo
<1> HIDE DEF n
<1>3. ASSUME NEW e \in Events
      PROVE  /\ after(e) \in EventRec
             /\ after(e).st = ev[e].st /\ after(e).ts = ev[e].ts
             /\ after(e).kind = ev[e].kind /\ after(e).res = ev[e].res
             /\ after(e).need = IF ev[e].need > n THEN ev[e].need - n ELSE 0
  <2>1. ev[e] \in EventRec /\ ev[e].need \in 0 .. Depth /\ Depth \in Nat
    BY Types, EventsAssumption DEF EventRec
  <2>2. (IF ev[e].need > n THEN ev[e].need - n ELSE 0) \in 0 .. Depth
    BY <1>1, <2>1
  <2> QED
    BY <2>1, <2>2 DEF EventRec
<1> HIDE DEF after
<1>4. \A e \in Events : ev'[e] = after(e)
  BY <1>2
<1>5. ev' \in [Events -> EventRec]
  BY <1>2, <1>3
<1> QED
  BY <1>2, <1>3, <1>4, <1>5 DEF SameButNeed, n

\* The waiters are woken.
LEMMA WakeAllEffect ==
    ASSUME TypeOK, th' = WakeAll
    PROVE  /\ th' \in [Threads -> ThreadRec]
           /\ \A t \in Threads :
                 /\ SameButAt(t)
                 /\ th'[t].at = IF th[t].at = "sleep" THEN "check" ELSE th[t].at
BY Types DEF WakeAll, ThreadRec, SameButAt

\* A thread goes on.
LEMMA GotoEffect ==
    ASSUME TypeOK, NEW t \in Threads, NEW at \in {"got", "sleep"}, Goto(t, at)
    PROVE  /\ th' \in [Threads -> ThreadRec] /\ MovesThread(t)
           /\ SameButAt(t) /\ th'[t].at = at
BY Types DEF Goto, ThreadRec, SameButAt, MovesThread

\* A thread is on its way out.
LEMMA LeaveEffect ==
    ASSUME TypeOK, NEW t \in Threads, Leave(t)
    PROVE  th' \in [Threads -> ThreadRec] /\ MovesThread(t) /\ th'[t].at = "put"
<1>1. [IdleThread EXCEPT !.at = "put"] \in ThreadRec
  BY Types DEF IdleThread, ThreadRec
<1>2. [IdleThread EXCEPT !.at = "put"].at = "put"
  BY DEF IdleThread
<1> QED
  BY <1>1, <1>2, Types DEF Leave, MovesThread

\* The event of a thread in kgsl_add_event is replaced, and the thread goes on
\* to its wait or out.
LEMMA AddedEffect ==
    ASSUME TypeOK, NEW t \in Threads, NEW event \in EventRec, th[t].ev \in Events,
           Added(t, event)
    PROVE  /\ ev' \in [Events -> EventRec] /\ MovesEvent(th[t].ev) /\ ev'[th[t].ev] = event
           /\ th' \in [Threads -> ThreadRec] /\ MovesThread(t)
           /\ th'[t].at \in {"check", "put"}
<1>1. ev' = [ev EXCEPT ![th[t].ev] = event]
  BY DEF Added
<1>2. ev' \in [Events -> EventRec] /\ MovesEvent(th[t].ev) /\ ev'[th[t].ev] = event
  BY <1>1, Types DEF MovesEvent
<1>3. CASE ev[th[t].ev].kind = "wait"
  <2>1. th' = [th EXCEPT ![t].at = "check", ![t].ev = NoEvent]
    BY <1>3 DEF Added
  <2>2. th' \in [Threads -> ThreadRec] /\ MovesThread(t) /\ th'[t].at = "check"
    BY <2>1, Types DEF ThreadRec, MovesThread
  <2> QED
    BY <1>2, <2>2
<1>4. CASE ev[th[t].ev].kind # "wait"
  <2>1. Leave(t)
    BY <1>4 DEF Added
  <2> QED
    BY <1>2, <2>1, LeaveEffect
<1> QED
  BY <1>3, <1>4

\* The event of kgsl_add_event is listed, or its callback queued.
LEMMA AddEventEffect ==
    ASSUME TypeOK, AddInv, NEW t \in Threads, AddEvent(t)
    PROVE  /\ th[t].ev \in Events /\ ev[th[t].ev].st = "new"
           /\ ev' \in [Events -> EventRec] /\ MovesEvent(th[t].ev)
           /\ ev'[th[t].ev].need = ev[th[t].ev].need
           /\ \/ /\ Cmp(retired, th[t].ts) >= 0
                 /\ ev'[th[t].ev].st = "work" /\ ev'[th[t].ev].res = "retired"
              \/ /\ ~(Cmp(retired, th[t].ts) >= 0)
                 /\ ev'[th[t].ev].st = "listed" /\ ev'[th[t].ev].ts = th[t].ts
           /\ th' \in [Threads -> ThreadRec] /\ MovesThread(t)
           /\ th[t].at = "add" /\ th'[t].at \in {"check", "put"}
<1> DEFINE x == th[t].ev
<1>1. /\ th[t].at = "add" /\ x \in Events /\ ev[x].st = "new" /\ ev[x].ts = th[t].ts
  BY DEF AddEvent, AddInv
<1>2. ev[x] \in EventRec
  BY <1>1, Types
<1>3. CASE Cmp(retired, th[t].ts) >= 0
  <2>1. Added(t, Fired(x, "retired"))
    BY <1>3 DEF AddEvent
  <2>2. /\ Fired(x, "retired") \in EventRec
        /\ Fired(x, "retired").st = "work" /\ Fired(x, "retired").res = "retired"
        /\ Fired(x, "retired").need = ev[x].need
    BY <1>1, FiredEffect
  <2> QED
    BY <1>1, <1>3, <2>1, <2>2, AddedEffect
<1>4. CASE ~(Cmp(retired, th[t].ts) >= 0)
  <2> DEFINE r == [ev[x] EXCEPT !.st = "listed"]
  <2>1. Added(t, r)
    BY <1>4 DEF AddEvent
  <2>2. r \in EventRec /\ r.st = "listed" /\ r.ts = ev[x].ts /\ r.need = ev[x].need
    BY <1>2 DEF EventRec
  <2> HIDE DEF r
  <2> QED
    BY <1>1, <1>4, <2>1, <2>2, AddedEffect
<1> QED
  BY <1>3, <1>4

\* kgsl_add_event takes an event for the thread.
LEMMA AddCheckEffect ==
    ASSUME TypeOK, ContextHeld, ClockInv, NEW t \in Threads, NEW e \in Events,
           NEW ts \in Stamps, NEW kind \in Kinds, AddCheck(t, e, ts, kind)
    PROVE  /\ th[t].at = "got" /\ ev[e].st = "free"
           /\ ev' \in [Events -> EventRec] /\ MovesEvent(e)
           /\ ev'[e].st = "new" /\ ev'[e].ts = ts /\ ev'[e].need = Need(ts)
           /\ th' \in [Threads -> ThreadRec] /\ MovesThread(t)
           /\ th'[t].at = "add" /\ th'[t].ts = ts /\ th'[t].ev = e
<1> DEFINE r == [FreeEvent EXCEPT !.st = "new", !.ts = ts, !.kind = kind, !.need = Need(ts)]
           w == [at |-> "add", ts |-> ts, ev |-> e]
<1>1. th[t].at = "got" /\ ev[e].st = "free" /\ ev' = [ev EXCEPT ![e] = r]
      /\ th' = [th EXCEPT ![t] = w]
  BY DEF AddCheck
<1>2. ref > 0
  BY <1>1, RefZero DEF TypeOK
<1>3. Outstanding \in Nat /\ Since(processed) \in Nat
  BY MinusStamp DEF TypeOK, Outstanding, Since
<1>4. Need(ts) \in 0 .. Depth
  BY <1>2, <1>3, NeedLeft, EventsAssumption DEF ClockInv
<1>5. kind \in {"wait", "async"}
  BY EventsAssumption
<1>6. r \in EventRec /\ r.st = "new" /\ r.ts = ts /\ r.need = Need(ts)
  BY <1>4, <1>5 DEF FreeEvent, EventRec
<1>7. w \in ThreadRec /\ w.at = "add" /\ w.ts = ts /\ w.ev = e
  BY DEF ThreadRec
<1> HIDE DEF r, w
<1> QED
  BY <1>1, <1>6, <1>7, Types DEF MovesEvent, MovesThread

\* A waiter gives up: at most one listed event is cancelled.
LEMMA TimeoutEffect ==
    ASSUME TypeOK, NEW t \in Threads, WaitTimeout(t)
    PROVE  /\ th' \in [Threads -> ThreadRec] /\ MovesThread(t)
           /\ th[t].at = "sleep" /\ th'[t].at = "put"
           /\ ev' \in [Events -> EventRec]
           /\ \A e \in Events : \/ ev'[e] = ev[e]
                                \/ /\ ev[e].st = "listed" /\ ev'[e].st = "work"
                                   /\ ev'[e].res = "cancelled" /\ ev'[e].need = ev[e].need
<1>1. th[t].at = "sleep" /\ Leave(t)
  BY DEF WaitTimeout
<1>2. UNCHANGED ev \/ \E e \in Listed : ev' = Signal({e}, "cancelled")
  BY DEF WaitTimeout, CancelEvent
<1>3. CASE UNCHANGED ev
  BY <1>1, <1>3, LeaveEffect, Types
<1>4. ASSUME NEW e \in Listed, ev' = Signal({e}, "cancelled")
      PROVE  /\ ev' \in [Events -> EventRec]
             /\ \A f \in Events : \/ ev'[f] = ev[f]
                                  \/ /\ ev[f].st = "listed" /\ ev'[f].st = "work"
                                     /\ ev'[f].res = "cancelled" /\ ev'[f].need = ev[f].need
  <2>1. {e} \in SUBSET Events /\ ev[e].st = "listed"
    BY DEF Listed
  <2>2. /\ ev' \in [Events -> EventRec] /\ \A f \in Events : f \notin {e} => ev'[f] = ev[f]
        /\ \A f \in {e} : /\ ev'[f].st = "work" /\ ev'[f].res = "cancelled"
                          /\ ev'[f].need = ev[f].need
    BY <1>4, <2>1, SignalEffect
  <2> QED
    BY <2>1, <2>2
<1> QED
  BY <1>1, <1>2, <1>3, <1>4, LeaveEffect

\* The events of an invalidated context are cancelled or flushed.
LEMMA FlushEffect ==
    ASSUME TypeOK, InvalidateFlush
    PROVE  /\ ev' \in [Events -> EventRec]
           /\ \A e \in Events : e \notin Listed => ev'[e] = ev[e]
           /\ \A e \in Listed : /\ ev'[e].st = "work" /\ ev'[e].need = ev[e].need
                                /\ ev'[e].res = "retired" => Due(e)
<1>1. PICK C \in SUBSET Listed :
          ev' = [e \in Events |->
                   IF e \in Listed
                   THEN Fired(e, IF e \in C \/ ~Due(e) THEN "cancelled" ELSE "retired")
                   ELSE ev[e]]
  BY DEF InvalidateFlush
<1> DEFINE how(e) == IF e \in C \/ ~Due(e) THEN "cancelled" ELSE "retired"
<1>2. \A e \in Events : how(e) \in {"cancelled", "retired"} /\ (how(e) = "retired" => Due(e))
  OBVIOUS
<1>3. /\ ev' = [e \in Events |-> IF e \in Listed THEN Fired(e, how(e)) ELSE ev[e]]
      /\ \A e \in Events : ev'[e] = IF e \in Listed THEN Fired(e, how(e)) ELSE ev[e]
  BY <1>1
<1> HIDE DEF how
<1>4. \A e \in Events : (IF e \in Listed THEN Fired(e, how(e)) ELSE ev[e]) \in EventRec
  BY <1>2, Types, FiredEffect
<1>5. ev' \in [Events -> EventRec]
  BY <1>3, <1>4
<1>6. \A e \in Listed : e \in Events /\ ev'[e] = Fired(e, how(e))
  BY <1>3 DEF Listed
<1> QED
  BY <1>2, <1>3, <1>5, <1>6, FiredEffect

\* The callback of an event has run.
LEMMA WorkerEffect ==
    ASSUME TypeOK, NEW e \in Events, Worker(e)
    PROVE  /\ ev[e].st = "work" /\ ev' \in [Events -> EventRec] /\ MovesEvent(e)
           /\ ev'[e].st = "free"
           /\ th' \in [Threads -> ThreadRec]
           /\ \A t \in Threads :
                 /\ SameButAt(t)
                 /\ th'[t].at = th[t].at \/ (th[t].at = "sleep" /\ th'[t].at = "check")
<1>1. FreeEvent \in EventRec /\ FreeEvent.st = "free"
  BY Types, EventsAssumption DEF FreeEvent, EventRec
<1>2. ev[e].st = "work" /\ ev' = [ev EXCEPT ![e] = FreeEvent] /\ (th' = WakeAll \/ th' = th)
  BY DEF Worker
<1>3. ev' \in [Events -> EventRec] /\ MovesEvent(e) /\ ev'[e].st = "free"
  BY <1>1, <1>2, Types DEF MovesEvent
<1>4. CASE th' = WakeAll
  BY <1>2, <1>3, <1>4, WakeAllEffect
<1>5. CASE th' = th
  BY <1>2, <1>3, <1>5, Types DEF SameButAt
<1> QED
  BY <1>2, <1>4, <1>5

\* A thread is done with the context.
LEMMA PutEffect ==
    ASSUME TypeOK, NEW t \in Threads, PutContext(t)
    PROVE  /\ th[t].at = "put" /\ th'[t].at = "idle"
           /\ th' \in [Threads -> ThreadRec] /\ MovesThread(t)
<1>1. IdleThread \in ThreadRec /\ IdleThread.at = "idle"
  BY Types DEF IdleThread, ThreadRec
<1> QED
  BY <1>1, Types DEF PutContext, MovesThread

\* What a detach does after its wait.
LEMMA DetachEffect ==
    ASSUME TypeOK, DetachContext
    PROVE  \E to \in {queued, retired} :
              /\ to \in Stamps /\ RetireTo(to)
              /\ WaitEnds \subseteq {"idle"} => to = queued
<1>1. PICK end \in WaitEnds : RetireTo(IF end = "idle" THEN queued ELSE retired)
  BY DEF DetachContext
<1>2. queued \in Stamps /\ retired \in Stamps
  BY DEF TypeOK
<1>3. CASE end = "idle"
  BY <1>1, <1>2, <1>3
<1>4. CASE end # "idle"
  BY <1>1, <1>2, <1>4
<1> QED
  BY <1>3, <1>4

\* Steps that neither begin nor end a call.
LEMMA HoldingSame ==
    ASSUME \A t \in Threads : th'[t].at = "idle" <=> th[t].at = "idle"
    PROVE  Cardinality(Holding') = Cardinality(Holding)
<1>1. Holding' = Holding
  BY DEF Holding
<1> QED
  BY <1>1

\* Steps that neither allocate nor free an event.
LEMMA InUseSame ==
    ASSUME \A e \in Events : ev'[e].st = "free" <=> ev[e].st = "free"
    PROVE  Cardinality(InUse') = Cardinality(InUse)
<1>1. InUse' = InUse
  BY DEF InUse
<1> QED
  BY <1>1

-----------------------------------------------------------------------------
(* The references.                                                         *)

\* The references of an invalidation and of the context's owner.
OtherRefs(i, d) == Unit(i = "marked") + (IF d = "done" THEN 0 ELSE 2 + Unit(d # "no"))

\* What ContextHeld counts.
LEMMA HeldSum ==
    /\ ContextHeld <=> ref = Cardinality(Holding) + Cardinality(InUse) + OtherRefs(inv, det)
    /\ ContextHeld' <=> ref' = Cardinality(Holding') + Cardinality(InUse') + OtherRefs(inv', det')
<1>1. \A a, b \in Nat : \A i, d :
          a + b + OtherRefs(i, d) =
             a + b + Unit(i = "marked") + (IF d = "done" THEN 0 ELSE 2 + Unit(d # "no"))
  BY DEF OtherRefs, Unit
<1>2. Unit(TRUE) = 1 /\ Unit(FALSE) = 0
  BY DEF Unit
<1>3. ContextHeld <=> ref = Cardinality(Holding) + Cardinality(InUse) + OtherRefs(inv, det)
  BY <1>1, CountedSets DEF ContextHeld, InUse, Detached
<1>4. ContextHeld' <=> ref' = Cardinality(Holding') + Cardinality(InUse') + OtherRefs(inv', det')
  BY <1>1, CountedSets DEF ContextHeld, InUse, Detached
<1> QED
  BY <1>3, <1>4

\* Every step keeps the count of the references.
LEMMA HeldStep ==
    ASSUME TypeOK, ContextHeld, ClockInv, AddInv, [Next]_vars
    PROVE  ContextHeld'
<1>1. ASSUME NEW ts \in Stamps, Submit(ts) PROVE ContextHeld'
  <2>1. Cardinality(Holding') = Cardinality(Holding)
    BY <1>1, HoldingSame DEF Submit
  <2>2. Cardinality(InUse') = Cardinality(InUse)
    BY <1>1, InUseSame DEF Submit
  <2> QED
    BY <1>1, <2>1, <2>2, HeldSum, CountedSets DEF Submit, OtherRefs, Unit, Put, life,
       Detached
<1>2. ASSUME GpuRetire PROVE ContextHeld'
  <2>1. Cardinality(Holding') = Cardinality(Holding)
    BY <1>2, HoldingSame DEF GpuRetire
  <2>2. Cardinality(InUse') = Cardinality(InUse)
    BY <1>2, PlusOne, RetireEffect, InUseSame DEF GpuRetire, SameButNeed, TypeOK
  <2> QED
    BY <1>2, <2>1, <2>2, HeldSum, CountedSets DEF GpuRetire, OtherRefs, Unit, Put,
       life, Detached
<1>3. ASSUME ProcessGroup PROVE ContextHeld'
  <2>1. Cardinality(Holding') = Cardinality(Holding)
    BY <1>3, HoldingSame DEF ProcessGroup
  <2>2. Cardinality(InUse') = Cardinality(InUse)
    <3>1. ev' = Signal({e \in Listed : Due(e)},
       "retired") /\ {e \in Listed : Due(e)} \in SUBSET Events
      BY <1>3 DEF ProcessGroup, Listed
    <3>2. \A e \in Events : e \in {x \in Listed : Due(x)} => ev[e].st = "listed"
      BY DEF Listed
    <3> HIDE DEF Listed
    <3> QED
      BY <3>1, <3>2, SignalEffect, InUseSame
  <2> QED
    BY <1>3, <2>1, <2>2, HeldSum, CountedSets DEF ProcessGroup, OtherRefs, Unit, Put,
       life, Detached
<1>4. ASSUME CreateContext PROVE ContextHeld'
  <2>1. Cardinality(Holding') = Cardinality(Holding)
    BY <1>4, HoldingSame DEF CreateContext
  <2>2. Cardinality(InUse') = Cardinality(InUse)
    BY <1>4, InUseSame DEF CreateContext
  <2>3. ref = 0 /\ det = "done" /\ inv # "marked"
    BY <1>4, RefZero DEF CreateContext
  <2> QED
    BY <1>4, <2>1, <2>2, <2>3, HeldSum, CountedSets DEF CreateContext, OtherRefs, Unit
<1>5. ASSUME InvalidateMark PROVE ContextHeld'
  <2>1. Cardinality(Holding') = Cardinality(Holding)
    BY <1>5, HoldingSame DEF InvalidateMark
  <2>2. Cardinality(InUse') = Cardinality(InUse)
    BY <1>5, RetireEffect, InUseSame DEF InvalidateMark, SameButNeed, TypeOK
  <2> QED
    BY <1>5, <2>1, <2>2, HeldSum, CountedSets DEF InvalidateMark, Invalid, OtherRefs,
       Unit, Put, life, Detached
<1>6. ASSUME InvalidateFlush PROVE ContextHeld'
  <2>1. Cardinality(Holding') = Cardinality(Holding)
    BY <1>6, WakeAllEffect, HoldingSame DEF InvalidateFlush
  <2>2. Cardinality(InUse') = Cardinality(InUse)
    <3>1. \A e \in Events : e \in Listed => ev[e].st = "listed"
      BY DEF Listed
    <3> QED
      BY <1>6, <3>1, FlushEffect, InUseSame
  <2> QED
    BY <1>6, <2>1, <2>2, HeldSum, CountedSets DEF InvalidateFlush, OtherRefs, Unit,
       Put, life, Detached
<1>7. ASSUME DetachMark PROVE ContextHeld'
  <2>1. Cardinality(Holding') = Cardinality(Holding)
    BY <1>7, HoldingSame DEF DetachMark
  <2>2. Cardinality(InUse') = Cardinality(InUse)
    BY <1>7, InUseSame DEF DetachMark
  <2> QED
    BY <1>7, <2>1, <2>2, HeldSum, CountedSets DEF DetachMark, OtherRefs, Unit, Put,
       life, Detached
<1>8. ASSUME DetachContext PROVE ContextHeld'
  <2>1. Cardinality(Holding') = Cardinality(Holding)
    BY <1>8, WakeAllEffect, HoldingSame DEF DetachContext
  <2>2. Cardinality(InUse') = Cardinality(InUse)
    BY <1>8, DetachEffect, RetireEffect, InUseSame DEF SameButNeed
  <2> QED
    BY <1>8, <2>1, <2>2, HeldSum, CountedSets DEF DetachContext, OtherRefs, Unit, Put,
       life, Detached
<1>9. ASSUME DetachCancel PROVE ContextHeld'
  <2>1. Cardinality(Holding') = Cardinality(Holding)
    BY <1>9, HoldingSame DEF DetachCancel
  <2>2. Cardinality(InUse') = Cardinality(InUse)
    <3>1. ev' = Signal(Listed, "cancelled") /\ Listed \in SUBSET Events
      BY <1>9 DEF DetachCancel, Listed
    <3>2. \A e \in Events : e \in Listed => ev[e].st = "listed"
      BY DEF Listed
    <3> QED
      BY <3>1, <3>2, SignalEffect, InUseSame
  <2> QED
    BY <1>9, <2>1, <2>2, HeldSum, CountedSets DEF DetachCancel, OtherRefs, Unit, Put,
       life, Detached
<1>10. ASSUME DetachUnlink PROVE ContextHeld'
  <2>1. Cardinality(Holding') = Cardinality(Holding)
    BY <1>10, HoldingSame DEF DetachUnlink
  <2>2. Cardinality(InUse') = Cardinality(InUse)
    BY <1>10, InUseSame DEF DetachUnlink
  <2> QED
    BY <1>10, <2>1, <2>2, HeldSum, CountedSets DEF DetachUnlink, OtherRefs, Unit, Put,
       life, Detached
<1>11. ASSUME DetachPut PROVE ContextHeld'
  <2>1. Cardinality(Holding') = Cardinality(Holding)
    BY <1>11, HoldingSame DEF DetachPut
  <2>2. Cardinality(InUse') = Cardinality(InUse)
    BY <1>11, InUseSame DEF DetachPut
  <2> QED
    BY <1>11, <2>1, <2>2, HeldSum, CountedSets DEF DetachPut, OtherRefs, Unit, Put,
       life, Detached
<1>12. ASSUME NEW e \in Events, Worker(e) PROVE ContextHeld'
  <2>1. Cardinality(Holding') = Cardinality(Holding)
    BY <1>12, WorkerEffect, HoldingSame
  <2>2. Cardinality(InUse') = Cardinality(InUse) - 1
    BY <1>12, WorkerEffect, InUseMove, CountedSets DEF Unit
  <2> QED
    BY <1>12, <2>1, <2>2, HeldSum, CountedSets DEF Worker, OtherRefs, Unit, Put, life,
       Detached
<1>13. ASSUME NEW t \in Threads, GetContext(t) PROVE ContextHeld'
  <2>1. Cardinality(Holding') = Cardinality(Holding) + 1
    BY <1>13, GotoEffect, HoldingMove, CountedSets DEF GetContext, Unit
  <2>2. Cardinality(InUse') = Cardinality(InUse)
    BY <1>13, InUseSame DEF GetContext
  <2> QED
    BY <1>13, <2>1, <2>2, HeldSum, CountedSets DEF GetContext, OtherRefs, Unit, Put,
       life, Detached
<1>14. ASSUME NEW t \in Threads, NEW e \in Events, NEW ts \in Stamps,
   NEW kind \in Kinds, AddCheck(t, e, ts, kind) PROVE ContextHeld'
  <2>1. Cardinality(Holding') = Cardinality(Holding)
    BY <1>14, AddCheckEffect, HoldingMove, CountedSets DEF Unit
  <2>2. Cardinality(InUse') = Cardinality(InUse) + 1
    BY <1>14, AddCheckEffect, InUseMove, CountedSets DEF Unit
  <2> QED
    BY <1>14, <2>1, <2>2, HeldSum, CountedSets DEF AddCheck, OtherRefs, Unit, Put,
       life, Detached
<1>15. ASSUME NEW t \in Threads, AddReject(t) PROVE ContextHeld'
  <2>1. Cardinality(Holding') = Cardinality(Holding)
    BY <1>15, LeaveEffect, HoldingMove, CountedSets DEF AddReject, Unit
  <2>2. Cardinality(InUse') = Cardinality(InUse)
    BY <1>15, InUseSame DEF AddReject
  <2> QED
    BY <1>15, <2>1, <2>2, HeldSum, CountedSets DEF AddReject, OtherRefs, Unit, Put,
       life, Detached
<1>16. ASSUME NEW t \in Threads, AddEvent(t) PROVE ContextHeld'
  <2>1. Cardinality(Holding') = Cardinality(Holding)
    BY <1>16, AddEventEffect, HoldingMove, CountedSets DEF Unit
  <2>2. Cardinality(InUse') = Cardinality(InUse)
    BY <1>16, AddEventEffect, InUseMove, CountedSets DEF Unit
  <2> QED
    BY <1>16, <2>1, <2>2, HeldSum, CountedSets DEF AddEvent, OtherRefs, Unit, Put,
       life, Detached
<1>17. ASSUME NEW t \in Threads, WaitCheck(t) PROVE ContextHeld'
  <2>1. Cardinality(Holding') = Cardinality(Holding)
    BY <1>17, LeaveEffect, GotoEffect, HoldingMove, CountedSets DEF WaitCheck, Unit
  <2>2. Cardinality(InUse') = Cardinality(InUse)
    BY <1>17, InUseSame DEF WaitCheck
  <2> QED
    BY <1>17, <2>1, <2>2, HeldSum, CountedSets DEF WaitCheck, OtherRefs, Unit, Put,
       life, Detached
<1>18. ASSUME NEW t \in Threads, WaitTimeout(t) PROVE ContextHeld'
  <2>1. Cardinality(Holding') = Cardinality(Holding)
    BY <1>18, TimeoutEffect, HoldingMove, CountedSets DEF Unit
  <2>2. Cardinality(InUse') = Cardinality(InUse)
    BY <1>18, TimeoutEffect, InUseSame
  <2> QED
    BY <1>18, <2>1, <2>2, HeldSum, CountedSets DEF WaitTimeout, OtherRefs, Unit, Put,
       life, Detached
<1>19. ASSUME NEW t \in Threads, PutContext(t) PROVE ContextHeld'
  <2>1. Cardinality(Holding') = Cardinality(Holding) - 1
    BY <1>19, PutEffect, HoldingMove, CountedSets DEF Unit
  <2>2. Cardinality(InUse') = Cardinality(InUse)
    BY <1>19, InUseSame DEF PutContext
  <2> QED
    BY <1>19, <2>1, <2>2, HeldSum, CountedSets DEF PutContext, OtherRefs, Unit, Put,
       life, Detached
<1>20. CASE UNCHANGED vars
  BY <1>20, HoldingSame, InUseSame, HeldSum, CountedSets DEF vars, clock, life
<1> QED
  BY <1>1, <1>2, <1>3, <1>4, <1>5, <1>6, <1>7, <1>8, <1>9, <1>10, <1>11, <1>12, <1>13,
     <1>14, <1>15, <1>16, <1>17, <1>18, <1>19, <1>20
     DEF Next, Detach

-----------------------------------------------------------------------------
(* Types.                                                                  *)

\* Every step leaves events and threads.
LEMMA RecordStep ==
    ASSUME TypeOK, ContextHeld, ClockInv, AddInv, [Next]_vars
    PROVE  ev' \in [Events -> EventRec] /\ th' \in [Threads -> ThreadRec]
<1>1. ASSUME NEW ts \in Stamps,
   Submit(ts) PROVE ev' \in [Events -> EventRec] /\ th' \in [Threads -> ThreadRec]
  BY <1>1, Types DEF Submit
<1>2. ASSUME GpuRetire PROVE ev' \in [Events -> EventRec] /\ th' \in [Threads -> ThreadRec]
  <2>1. Plus(retired, 1) \in Stamps /\ RetireTo(Plus(retired, 1)) /\ th' = th
    BY <1>2, PlusOne DEF GpuRetire, TypeOK
  <2> QED
    BY <2>1, Types, RetireEffect
<1>3. ASSUME ProcessGroup PROVE ev' \in [Events -> EventRec] /\ th' \in [Threads -> ThreadRec]
  <2>1. ev' = Signal({e \in Listed : Due(e)},
     "retired") /\ {e \in Listed : Due(e)} \in SUBSET Events
    BY <1>3 DEF ProcessGroup, Listed
  <2>2. th' = th
    BY <1>3 DEF ProcessGroup
  <2> QED
    BY <2>1, <2>2, Types, SignalEffect
<1>4. ASSUME CreateContext PROVE ev' \in [Events -> EventRec] /\ th' \in [Threads -> ThreadRec]
  BY <1>4, Types DEF CreateContext
<1>5. ASSUME InvalidateMark PROVE ev' \in [Events -> EventRec] /\ th' \in [Threads -> ThreadRec]
  <2>1. queued \in Stamps /\ RetireTo(queued) /\ th' = th
    BY <1>5 DEF InvalidateMark, TypeOK
  <2> QED
    BY <2>1, Types, RetireEffect
<1>6. ASSUME InvalidateFlush PROVE ev' \in [Events -> EventRec] /\ th' \in [Threads -> ThreadRec]
  BY <1>6, FlushEffect, WakeAllEffect DEF InvalidateFlush
<1>7. ASSUME DetachMark PROVE ev' \in [Events -> EventRec] /\ th' \in [Threads -> ThreadRec]
  BY <1>7, Types DEF DetachMark
<1>8. ASSUME DetachContext PROVE ev' \in [Events -> EventRec] /\ th' \in [Threads -> ThreadRec]
  BY <1>8, DetachEffect, RetireEffect, WakeAllEffect DEF DetachContext
<1>9. ASSUME DetachCancel PROVE ev' \in [Events -> EventRec] /\ th' \in [Threads -> ThreadRec]
  <2>1. ev' = Signal(Listed, "cancelled") /\ Listed \in SUBSET Events
    BY <1>9 DEF DetachCancel, Listed
  <2>2. th' = th
    BY <1>9 DEF DetachCancel
  <2> QED
    BY <2>1, <2>2, Types, SignalEffect
<1>10. ASSUME DetachUnlink PROVE ev' \in [Events -> EventRec] /\ th' \in [Threads -> ThreadRec]
  BY <1>10, Types DEF DetachUnlink
<1>11. ASSUME DetachPut PROVE ev' \in [Events -> EventRec] /\ th' \in [Threads -> ThreadRec]
  BY <1>11, Types DEF DetachPut
<1>12. ASSUME NEW e \in Events,
   Worker(e) PROVE ev' \in [Events -> EventRec] /\ th' \in [Threads -> ThreadRec]
  BY <1>12, WorkerEffect
<1>13. ASSUME NEW t \in Threads,
   GetContext(t) PROVE ev' \in [Events -> EventRec] /\ th' \in [Threads -> ThreadRec]
  BY <1>13, Types, GotoEffect DEF GetContext
<1>14. ASSUME NEW t \in Threads, NEW e \in Events, NEW ts \in Stamps,
   NEW kind \in Kinds, AddCheck(t, e, ts,
      kind) PROVE ev' \in [Events -> EventRec] /\ th' \in [Threads -> ThreadRec]
  BY <1>14, AddCheckEffect
<1>15. ASSUME NEW t \in Threads,
   AddReject(t) PROVE ev' \in [Events -> EventRec] /\ th' \in [Threads -> ThreadRec]
  BY <1>15, Types, LeaveEffect DEF AddReject
<1>16. ASSUME NEW t \in Threads,
   AddEvent(t) PROVE ev' \in [Events -> EventRec] /\ th' \in [Threads -> ThreadRec]
  BY <1>16, AddEventEffect
<1>17. ASSUME NEW t \in Threads,
   WaitCheck(t) PROVE ev' \in [Events -> EventRec] /\ th' \in [Threads -> ThreadRec]
  BY <1>17, Types, GotoEffect, LeaveEffect DEF WaitCheck
<1>18. ASSUME NEW t \in Threads,
   WaitTimeout(t) PROVE ev' \in [Events -> EventRec] /\ th' \in [Threads -> ThreadRec]
  BY <1>18, TimeoutEffect
<1>19. ASSUME NEW t \in Threads,
   PutContext(t) PROVE ev' \in [Events -> EventRec] /\ th' \in [Threads -> ThreadRec]
  BY <1>19, Types, PutEffect DEF PutContext
<1>20. CASE UNCHANGED vars
  BY <1>20, Types DEF vars
<1> QED
  BY <1>1, <1>2, <1>3, <1>4, <1>5, <1>6, <1>7, <1>8, <1>9, <1>10, <1>11, <1>12, <1>13,
     <1>14, <1>15, <1>16, <1>17, <1>18, <1>19, <1>20
     DEF Next, Detach

\* Every step leaves timestamps and phases.
LEMMA ScalarStep ==
    ASSUME TypeOK, [Next]_vars
    PROVE  /\ queued' \in Stamps /\ retired' \in Stamps /\ processed' \in Stamps
           /\ det' \in {"no", "marked", "drained", "cancelled", "unlinked", "done"}
           /\ inv' \in {"no", "marked", "done"} /\ linked' \in BOOLEAN
<1> DEFINE Goal == /\ queued' \in Stamps /\ retired' \in Stamps /\ processed' \in Stamps
                   /\ det' \in {"no", "marked", "drained", "cancelled", "unlinked", "done"}
                   /\ inv' \in {"no", "marked", "done"} /\ linked' \in BOOLEAN
<1>0. /\ queued \in Stamps /\ retired \in Stamps /\ processed \in Stamps /\ 0 \in Stamps
      /\ det \in {"no", "marked", "drained", "cancelled", "unlinked", "done"}
      /\ inv \in {"no", "marked", "done"} /\ linked \in BOOLEAN
  BY Types DEF TypeOK
<1>1. ASSUME NEW ts \in Stamps, Submit(ts) PROVE Goal
  BY <1>1, <1>0 DEF Submit, RetireTo, clock, life, Put, Cleared
<1>2. ASSUME GpuRetire PROVE Goal
  BY <1>2, <1>0, PlusOne DEF GpuRetire, RetireTo, clock, life
<1>3. ASSUME ProcessGroup PROVE Goal
  BY <1>3, <1>0 DEF ProcessGroup, RetireTo, clock, life, Put, Cleared
<1>4. ASSUME CreateContext PROVE Goal
  BY <1>4, <1>0 DEF CreateContext, RetireTo, clock, life, Put, Cleared
<1>5. ASSUME InvalidateMark PROVE Goal
  BY <1>5, <1>0 DEF InvalidateMark, RetireTo, clock, life, Put, Cleared
<1>6. ASSUME InvalidateFlush PROVE Goal
  BY <1>6, <1>0 DEF InvalidateFlush, RetireTo, clock, life, Put, Cleared
<1>7. ASSUME DetachMark PROVE Goal
  BY <1>7, <1>0 DEF DetachMark, RetireTo, clock, life, Put, Cleared
<1>8. ASSUME DetachContext PROVE Goal
  BY <1>8, <1>0, DetachEffect, RetireEffect DEF DetachContext, clock
<1>9. ASSUME DetachCancel PROVE Goal
  BY <1>9, <1>0 DEF DetachCancel, RetireTo, clock, life, Put, Cleared
<1>10. ASSUME DetachUnlink PROVE Goal
  BY <1>10, <1>0 DEF DetachUnlink, RetireTo, clock, life, Put, Cleared
<1>11. ASSUME DetachPut PROVE Goal
  BY <1>11, <1>0 DEF DetachPut, RetireTo, clock, life, Put, Cleared
<1>12. ASSUME NEW e \in Events, Worker(e) PROVE Goal
  BY <1>12, <1>0 DEF Worker, RetireTo, clock, life, Put, Cleared
<1>13. ASSUME NEW t \in Threads, GetContext(t) PROVE Goal
  BY <1>13, <1>0 DEF GetContext, RetireTo, clock, life, Put, Cleared
<1>14. ASSUME NEW t \in Threads, NEW e \in Events, NEW ts \in Stamps,
   NEW kind \in Kinds, AddCheck(t, e, ts, kind) PROVE Goal
  BY <1>14, <1>0 DEF AddCheck, RetireTo, clock, life, Put, Cleared
<1>15. ASSUME NEW t \in Threads, AddReject(t) PROVE Goal
  BY <1>15, <1>0 DEF AddReject, RetireTo, clock, life, Put, Cleared
<1>16. ASSUME NEW t \in Threads, AddEvent(t) PROVE Goal
  BY <1>16, <1>0 DEF AddEvent, RetireTo, clock, life, Put, Cleared
<1>17. ASSUME NEW t \in Threads, WaitCheck(t) PROVE Goal
  BY <1>17, <1>0 DEF WaitCheck, RetireTo, clock, life, Put, Cleared
<1>18. ASSUME NEW t \in Threads, WaitTimeout(t) PROVE Goal
  BY <1>18, <1>0 DEF WaitTimeout, RetireTo, clock, life, Put, Cleared
<1>19. ASSUME NEW t \in Threads, PutContext(t) PROVE Goal
  BY <1>19, <1>0 DEF PutContext, RetireTo, clock, life, Put, Cleared
<1>20. CASE UNCHANGED vars
  BY <1>20, <1>0 DEF vars, clock, life
<1> QED
  BY <1>1, <1>2, <1>3, <1>4, <1>5, <1>6, <1>7, <1>8, <1>9, <1>10, <1>11, <1>12, <1>13,
     <1>14, <1>15, <1>16, <1>17, <1>18, <1>19, <1>20
     DEF Next, Detach

\* Every step keeps the types.
LEMMA TypeStep ==
    ASSUME TypeOK, ContextHeld, ClockInv, AddInv, [Next]_vars
    PROVE  TypeOK'
<1>1. ContextHeld'
  BY HeldStep
<1>2. ref' \in Nat
  BY <1>1, HeldSum, CountedSets DEF OtherRefs, Unit
<1> QED
  BY <1>2, RecordStep, ScalarStep DEF TypeOK, EventRec, ThreadRec

-----------------------------------------------------------------------------
(* The timestamps of the context.                                          *)

\* Every step keeps retired between processed and queued.
LEMMA ClockStep ==
    ASSUME TypeOK, ContextHeld, ClockInv, AddInv, [Next]_vars
    PROVE  ClockInv'
<1> DEFINE Goal == ref' > 0 => /\ Minus(queued', retired') <= Minus(queued', processed')
                               /\ Minus(queued', processed') <= Depth
<1>0. /\ queued \in Stamps /\ retired \in Stamps /\ processed \in Stamps /\ ref \in Nat
      /\ Window \in Nat /\ Depth \in Nat /\ Depth < Window
      /\ Minus(queued, queued) = 0 /\ Minus(0, 0) = 0
      /\ Minus(queued, retired) \in Nat /\ Minus(queued, retired) < 2 * Window
      /\ Minus(queued, processed) \in Nat /\ Minus(queued, processed) < 2 * Window
      /\ queued = retired => Minus(queued, retired) = 0
      /\ ref > 0 => /\ Minus(queued, retired) <= Minus(queued, processed)
                    /\ Minus(queued, processed) <= Depth
  BY MinusStamp, Types, EventsAssumption DEF TypeOK, ClockInv, Outstanding, Since
<1> SUFFICES Goal
  BY DEF ClockInv, Outstanding, Since
<1>1. ASSUME NEW ts \in Stamps, Submit(ts) PROVE Goal
  <2>1. /\ ref' = ref /\ queued' = ts /\ retired' = retired /\ processed' = processed
        /\ Minus(ts, processed) \in 1 .. Depth
    BY <1>1 DEF Submit
  <2>2. CASE UserTs
    <3>1. Minus(queued, ts) >= Window
      BY <1>1, <1>0, <2>2, CmpAhead DEF Submit
    <3>2. /\ Minus(queued, processed) = IF Minus(ts, processed) >= Minus(ts, queued)
                                        THEN Minus(ts, processed) - Minus(ts, queued)
                                        ELSE Minus(ts, processed) - Minus(ts,
                                           queued) + 2 * Window
          /\ Minus(queued, retired) = IF Minus(ts, retired) >= Minus(ts, queued)
                                      THEN Minus(ts, retired) - Minus(ts, queued)
                                      ELSE Minus(ts, retired) - Minus(ts,
                                         queued) + 2 * Window
          /\ Minus(queued, ts) = IF Minus(ts, ts) >= Minus(ts, queued)
                                 THEN Minus(ts, ts) - Minus(ts, queued)
                                 ELSE Minus(ts, ts) - Minus(ts, queued) + 2 * Window
      BY <1>0, MinusSplit
    <3>3. /\ Minus(ts, ts) = 0
          /\ Minus(ts, queued) \in Nat /\ Minus(ts, queued) < 2 * Window
          /\ Minus(ts, processed) \in Nat /\ Minus(ts, processed) < 2 * Window
          /\ Minus(ts, retired) \in Nat /\ Minus(ts, retired) < 2 * Window
      BY <1>0, MinusStamp
    <3> QED
      BY <1>0, <2>1, <3>1, <3>2, <3>3
  <2>3. CASE ~UserTs
    <3>1. ts = Plus(queued, 1)
      BY <1>1, <2>3 DEF Submit
    <3>2. /\ Minus(ts, processed) = IF Minus(queued, processed) = 2 * Window - 1 THEN 0
                                    ELSE Minus(queued, processed) + 1
          /\ Minus(ts, retired) = IF Minus(queued, retired) = 2 * Window - 1 THEN 0
                                  ELSE Minus(queued, retired) + 1
      BY <1>0, <3>1, PlusOne
    <3> QED
      BY <1>0, <2>1, <3>2
  <2> QED
    BY <2>2, <2>3
<1>2. ASSUME GpuRetire PROVE Goal
  <2>1. /\ ref > 0 /\ Minus(queued, retired) > 0 /\ RetireTo(Plus(retired, 1))
        /\ queued' = queued /\ processed' = processed
    BY <1>2 DEF GpuRetire, Outstanding, clock
  <2>2. queued # retired
    BY <1>0, <2>1
  <2>3. retired' = Plus(retired, 1) /\ Minus(queued, Plus(retired, 1)) = Minus(queued,
     retired) - 1
    BY <1>0, <2>1, <2>2, PlusOne DEF RetireTo
  <2> QED
    BY <1>0, <2>1, <2>3
<1>3. ASSUME ProcessGroup PROVE Goal
  BY <1>3, <1>0 DEF ProcessGroup
<1>4. ASSUME CreateContext PROVE Goal
  BY <1>4, <1>0 DEF CreateContext
<1>5. ASSUME InvalidateMark PROVE Goal
  <2>1. /\ ref > 0 /\ retired' = queued /\ queued' = queued /\ processed' = processed
    BY <1>5, <1>0, RefZero DEF InvalidateMark, RetireTo, clock
  <2> QED
    BY <1>0, <2>1
<1>6. ASSUME InvalidateFlush PROVE Goal
  <2>1. ref > 0
    BY <1>6, <1>0, RefZero DEF InvalidateFlush
  <2> QED
    BY <1>6, <1>0, <2>1 DEF InvalidateFlush, Put, Cleared
<1>7. ASSUME DetachMark PROVE Goal
  BY <1>7, <1>0 DEF DetachMark, clock
<1>8. ASSUME DetachContext PROVE Goal
  <2>1. /\ ref' = ref /\ (retired' = queued \/ retired' = retired)
        /\ queued' = queued /\ processed' = processed
    BY <1>8, DetachEffect, RetireEffect DEF DetachContext, clock
  <2> QED
    BY <1>0, <2>1
<1>9. ASSUME DetachCancel PROVE Goal
  BY <1>9, <1>0 DEF DetachCancel, clock
<1>10. ASSUME DetachUnlink PROVE Goal
  BY <1>10, <1>0 DEF DetachUnlink, clock
<1>11. ASSUME DetachPut PROVE Goal
  BY <1>11, <1>0 DEF DetachPut, clock, Put, Cleared
<1>12. ASSUME NEW e \in Events, Worker(e) PROVE Goal
  BY <1>12, <1>0 DEF Worker, clock, Put, Cleared
<1>13. ASSUME NEW t \in Threads, GetContext(t) PROVE Goal
  BY <1>13, <1>0 DEF GetContext, clock
<1>14. ASSUME NEW t \in Threads, NEW e \in Events, NEW ts \in Stamps,
   NEW kind \in Kinds, AddCheck(t, e, ts, kind) PROVE Goal
  <2>1. ref > 0
    BY <1>14, <1>0, AddCheckEffect, RefZero
  <2> QED
    BY <1>14, <1>0, <2>1 DEF AddCheck, clock
<1>15. ASSUME NEW t \in Threads, AddReject(t) PROVE Goal
  BY <1>15, <1>0 DEF AddReject, clock
<1>16. ASSUME NEW t \in Threads, AddEvent(t) PROVE Goal
  BY <1>16, <1>0 DEF AddEvent, clock
<1>17. ASSUME NEW t \in Threads, WaitCheck(t) PROVE Goal
  BY <1>17, <1>0 DEF WaitCheck, clock
<1>18. ASSUME NEW t \in Threads, WaitTimeout(t) PROVE Goal
  BY <1>18, <1>0 DEF WaitTimeout, clock
<1>19. ASSUME NEW t \in Threads, PutContext(t) PROVE Goal
  BY <1>19, <1>0 DEF PutContext, clock, Put, Cleared
<1>20. CASE UNCHANGED vars
  BY <1>20, <1>0 DEF vars, clock
<1> QED
  BY <1>1, <1>2, <1>3, <1>4, <1>5, <1>6, <1>7, <1>8, <1>9, <1>10, <1>11, <1>12, <1>13,
     <1>14, <1>15, <1>16, <1>17, <1>18, <1>19, <1>20
     DEF Next, Detach

-----------------------------------------------------------------------------
(* What is left to retire.                                                 *)

\* Queueing one more command leaves as many before a timestamp as there were.
LEMMA LeftQueue ==
    ASSUME NEW q \in Stamps, NEW r \in Stamps, NEW a \in Stamps,
           Minus(q, r) < Window, Minus(q, a) < Window
    PROVE  /\ LeftOf(Plus(q, 1), r, a) = LeftOf(q, r, a)
           /\ Minus(Plus(q, 1), a) = Minus(q, a) + 1
<1>1. Window \in Nat /\ Window >= 2 /\ Minus(q, r) \in Nat /\ Minus(q, a) \in Nat
  BY MinusStamp, EventsAssumption
<1>2. Minus(Plus(q, 1), r) = Minus(q, r) + 1 /\ Minus(Plus(q, 1), a) = Minus(q, a) + 1
  BY <1>1, PlusOne
<1> QED
  BY <1>1, <1>2 DEF LeftOf

\* The need of an event follows what is left, when one command or all retire.
LEMMA LeftRetire ==
    ASSUME TypeOK, NEW to \in Stamps, RetireTo(to), NEW e \in Events, NEW a \in Stamps,
           \/ to = Plus(retired, 1) /\ queued # retired
           \/ to = queued
           \/ to = retired,
           ev[e].need = LeftOf(queued, retired, a)
    PROVE  ev'[e].need = LeftOf(queued, to, a)
<1>1. /\ queued \in Stamps /\ retired \in Stamps
      /\ Minus(queued, retired) \in Nat /\ Minus(queued, a) \in Nat /\ Minus(queued, queued) = 0
      /\ Minus(retired, retired) = 0
  BY MinusStamp DEF TypeOK
<1>2. ev'[e].need = IF ev[e].need > Minus(to, retired) THEN ev[e].need - Minus(to, retired) ELSE 0
  BY RetireEffect
<1>3. CASE to = Plus(retired, 1) /\ queued # retired
  <2>1. Minus(queued, to) = Minus(queued, retired) - 1 /\ Minus(to, retired) = 1
    BY <1>1, <1>3, PlusOne
  <2> QED
    BY <1>1, <1>2, <2>1 DEF LeftOf
<1>4. CASE to = queued
  BY <1>1, <1>2, <1>4 DEF LeftOf
<1>5. CASE to = retired
  BY <1>1, <1>2, <1>5 DEF LeftOf
<1> QED
  BY <1>3, <1>4, <1>5

\* Every step keeps that the need of an event on its way, or listed, is what is
\* left, if its timestamp is recent.
LEMMA NeedStep ==
    ASSUME TypeOK, ContextHeld, ClockInv, AddInv, ContextHeld', [Next]_vars, ~UserTs,
           NEW x \in Events, ev[x].st \in {"new", "listed"}, ev'[x].st # "free",
           NEW a \in Stamps, Since(a) < Window
    PROVE  /\ \/ queued' = queued
              \/ /\ Minus(queued', a) = Since(a) + 1
                 /\ processed' = processed /\ Minus(queued', processed) = Since(processed) + 1
                 /\ \A t \in Threads : th[t].at = "add" => Recent(th[t].ts)
           /\ ev[x].need = LeftOf(queued, retired, a) =>
                 ev'[x].need = LeftOf(queued', retired', a)
<1> DEFINE Goal == /\ \/ queued' = queued
                      \/ /\ Minus(queued', a) = Minus(queued, a) + 1
                         /\ processed' = processed
                         /\ Minus(queued', processed) = Minus(queued, processed) + 1
                         /\ \A t \in Threads : th[t].at = "add" => Recent(th[t].ts)
                   /\ ev[x].need = LeftOf(queued, retired, a) =>
                         ev'[x].need = LeftOf(queued', retired', a)
<1>0. /\ queued \in Stamps /\ retired \in Stamps /\ processed \in Stamps
      /\ Minus(queued, a) < Window /\ Minus(queued, retired) < Window
      /\ Minus(queued, processed) < Window
      /\ Minus(queued, retired) \in Nat /\ (queued = retired => Minus(queued, retired) = 0)
      /\ ref \in Nat /\ ref # 0 /\ ref' # 0
  <2>1. ref # 0 /\ ref' # 0
    BY RefZero, RefZeroNext
  <2>2. queued \in Stamps /\ retired \in Stamps /\ processed \in Stamps /\ ref \in Nat
    BY DEF TypeOK
  <2>3. /\ Minus(queued, retired) \in Nat /\ (queued = retired => Minus(queued, retired) = 0)
        /\ Minus(queued, processed) \in Nat
    BY <2>2, MinusStamp
  <2>4. /\ Minus(queued, retired) <= Minus(queued, processed)
        /\ Minus(queued, processed) <= Depth /\ Depth \in Nat /\ Window \in Nat /\ Depth < Window
    BY <2>1, <2>2, EventsAssumption DEF ClockInv, Outstanding, Since
  <2> QED
    BY <2>1, <2>2, <2>3, <2>4 DEF Since
<1> SUFFICES Goal
  BY DEF Since
<1>1. ASSUME NEW ts \in Stamps, Submit(ts) PROVE Goal
  <2>1. /\ queued' = Plus(queued, 1) /\ retired' = retired /\ ev' = ev
        /\ \A t \in Threads : th[t].at = "add" => Recent(th[t].ts)
    BY <1>1 DEF Submit
  <2>2. processed' = processed
    BY <1>1 DEF Submit
  <2> QED
    BY <1>0, <2>1, <2>2, LeftQueue
<1>2. ASSUME GpuRetire PROVE Goal
  <2>1. /\ Minus(queued, retired) > 0 /\ RetireTo(Plus(retired, 1)) /\ queued' = queued
    BY <1>2 DEF GpuRetire, Outstanding, clock
  <2>2. queued # retired /\ Plus(retired, 1) \in Stamps
    BY <1>0, <2>1, PlusOne
  <2>3. retired' = Plus(retired, 1)
    BY <2>1 DEF RetireTo
  <2> QED
    BY <1>0, <2>1, <2>2, <2>3, LeftRetire
<1>3. ASSUME ProcessGroup PROVE Goal
  <2>1. /\ {e \in Listed : Due(e)} \in SUBSET Events /\ queued' = queued /\ retired' = retired
        /\ ev' = Signal({e \in Listed : Due(e)}, "retired")
    BY <1>3 DEF ProcessGroup, Listed
  <2> QED
    BY <2>1, SignalEffect
<1>4. ASSUME CreateContext PROVE Goal
  BY <1>4, RefZero DEF CreateContext
<1>5. ASSUME InvalidateMark PROVE Goal
  <2>1. RetireTo(queued) /\ queued' = queued /\ retired' = queued
    BY <1>5 DEF InvalidateMark, RetireTo, clock
  <2> QED
    BY <1>0, <2>1, LeftRetire
<1>6. ASSUME InvalidateFlush PROVE Goal
  <2>1. queued' = queued /\ retired' = retired
    BY <1>6, <1>0 DEF InvalidateFlush, Put, Cleared
  <2> QED
    BY <1>6, <2>1, FlushEffect
<1>7. ASSUME DetachMark PROVE Goal
  BY <1>7 DEF DetachMark, clock
<1>8. ASSUME DetachContext PROVE Goal
  <2>1. PICK to \in {queued, retired} : to \in Stamps /\ RetireTo(to)
    BY <1>8, DetachEffect
  <2>2. queued' = queued /\ retired' = to
    BY <1>8, <2>1 DEF DetachContext, RetireTo, clock
  <2> QED
    BY <1>0, <2>1, <2>2, LeftRetire
<1>9. ASSUME DetachCancel PROVE Goal
  <2>1. /\ Listed \in SUBSET Events /\ queued' = queued /\ retired' = retired
        /\ ev' = Signal(Listed, "cancelled")
    BY <1>9 DEF DetachCancel, Listed, clock
  <2> QED
    BY <2>1, SignalEffect
<1>10. ASSUME DetachUnlink PROVE Goal
  BY <1>10 DEF DetachUnlink, clock
<1>11. ASSUME DetachPut PROVE Goal
  BY <1>11, <1>0 DEF DetachPut, clock, Put, Cleared
<1>12. ASSUME NEW e \in Events, Worker(e) PROVE Goal
  <2>1. queued' = queued /\ retired' = retired
    BY <1>12, <1>0 DEF Worker, clock, Put, Cleared
  <2> QED
    BY <1>12, <2>1, WorkerEffect DEF MovesEvent
<1>13. ASSUME NEW t \in Threads, GetContext(t) PROVE Goal
  BY <1>13 DEF GetContext, clock
<1>14. ASSUME NEW t \in Threads, NEW e \in Events, NEW ts \in Stamps,
   NEW kind \in Kinds, AddCheck(t, e, ts, kind) PROVE Goal
  <2>1. queued' = queued /\ retired' = retired
    BY <1>14 DEF AddCheck, clock
  <2> QED
    BY <1>14, <2>1, AddCheckEffect DEF MovesEvent
<1>15. ASSUME NEW t \in Threads, AddReject(t) PROVE Goal
  BY <1>15 DEF AddReject, clock
<1>16. ASSUME NEW t \in Threads, AddEvent(t) PROVE Goal
  <2>1. queued' = queued /\ retired' = retired
    BY <1>16 DEF AddEvent, clock
  <2> QED
    BY <1>16, <2>1, AddEventEffect DEF MovesEvent
<1>17. ASSUME NEW t \in Threads, WaitCheck(t) PROVE Goal
  BY <1>17 DEF WaitCheck, clock
<1>18. ASSUME NEW t \in Threads, WaitTimeout(t) PROVE Goal
  <2>1. queued' = queued /\ retired' = retired
    BY <1>18 DEF WaitTimeout, clock
  <2>2. ev'[x].need = ev[x].need
    BY <1>18, TimeoutEffect
  <2> QED
    BY <1>18, <2>1, <2>2
<1>19. ASSUME NEW t \in Threads, PutContext(t) PROVE Goal
  BY <1>19, <1>0 DEF PutContext, clock, Put, Cleared
<1>20. CASE UNCHANGED vars
  BY <1>20 DEF vars, clock
<1> QED
  BY <1>1, <1>2, <1>3, <1>4, <1>5, <1>6, <1>7, <1>8, <1>9, <1>10, <1>11, <1>12, <1>13,
     <1>14, <1>15, <1>16, <1>17, <1>18, <1>19, <1>20
     DEF Next, Detach

-----------------------------------------------------------------------------
(* Events on their way to the list.                                        *)

\* A thread that is about to list an event has just taken it, or it was already,
\* and nothing happens to its event meanwhile.
LEMMA AddFrame ==
    ASSUME TypeOK, ContextHeld, ClockInv, AddInv, [Next]_vars,
           NEW u \in Threads, th'[u].at = "add"
    PROVE  \/ /\ th[u].at = "add" /\ SameButAt(u)
              /\ ev'[th[u].ev].st = "new" /\ ev'[th[u].ev].ts = ev[th[u].ev].ts
           \/ \E e \in Events, ts \in Stamps, kind \in Kinds : AddCheck(u, e, ts, kind)
<1> DEFINE Goal == \/ /\ th[u].at = "add" /\ SameButAt(u)
                      /\ ev'[th[u].ev].st = "new" /\ ev'[th[u].ev].ts = ev[th[u].ev].ts
                   \/ \E e \in Events, ts \in Stamps, kind \in Kinds : AddCheck(u, e, ts, kind)
<1>0. /\ th'[u].at = "add"
      /\ th[u].at = "add" => th[u].ev \in Events /\ ev[th[u].ev].st = "new"
  BY DEF AddInv
<1> SUFFICES Goal
  OBVIOUS
<1>1. ASSUME NEW ts \in Stamps, Submit(ts) PROVE Goal
  BY <1>1, <1>0 DEF Submit, SameButAt
<1>2. ASSUME GpuRetire PROVE Goal
  <2>1. th[u].at = "add" /\ SameButAt(u)
    BY <1>2, <1>0 DEF GpuRetire, SameButAt
  <2>2. \A x \in Events : ev[x].st = "new" => ev'[x].st = "new" /\ ev'[x].ts = ev[x].ts
    BY <1>2, PlusOne, RetireEffect DEF GpuRetire, SameButNeed, TypeOK
  <2> QED
    BY <1>0, <2>1, <2>2
<1>3. ASSUME ProcessGroup PROVE Goal
  <2>1. th[u].at = "add" /\ SameButAt(u)
    BY <1>3, <1>0 DEF ProcessGroup, SameButAt
  <2>2. \A x \in Events : ev[x].st = "new" => ev'[x].st = "new" /\ ev'[x].ts = ev[x].ts
    <3> DEFINE S == {y \in Listed : Due(y)}
    <3>1. ev' = Signal(S, "retired") /\ S \in SUBSET Events
      BY <1>3 DEF ProcessGroup, Listed
    <3>2. \A x \in Events : ev[x].st = "new" => x \notin S
      BY DEF Listed
    <3> HIDE DEF S
    <3> QED
      BY <3>1, <3>2, SignalEffect
  <2> QED
    BY <1>0, <2>1, <2>2
<1>4. ASSUME CreateContext PROVE Goal
  BY <1>4, <1>0, RefZero DEF CreateContext
<1>5. ASSUME InvalidateMark PROVE Goal
  <2>1. th[u].at = "add" /\ SameButAt(u)
    BY <1>5, <1>0 DEF InvalidateMark, SameButAt
  <2>2. \A x \in Events : ev[x].st = "new" => ev'[x].st = "new" /\ ev'[x].ts = ev[x].ts
    BY <1>5, RetireEffect DEF InvalidateMark, SameButNeed, TypeOK
  <2> QED
    BY <1>0, <2>1, <2>2
<1>6. ASSUME InvalidateFlush PROVE Goal
  <2>1. th[u].at = "add" /\ SameButAt(u)
    BY <1>6, <1>0, WakeAllEffect DEF InvalidateFlush
  <2>2. \A x \in Events : ev[x].st = "new" => ev'[x].st = "new" /\ ev'[x].ts = ev[x].ts
    BY <1>6, FlushEffect DEF Listed
  <2> QED
    BY <1>0, <2>1, <2>2
<1>7. ASSUME DetachMark PROVE Goal
  BY <1>7, <1>0 DEF DetachMark, SameButAt
<1>8. ASSUME DetachContext PROVE Goal
  <2>1. th[u].at = "add" /\ SameButAt(u)
    BY <1>8, <1>0, WakeAllEffect DEF DetachContext
  <2>2. \A x \in Events : ev[x].st = "new" => ev'[x].st = "new" /\ ev'[x].ts = ev[x].ts
    BY <1>8, DetachEffect, RetireEffect DEF SameButNeed
  <2> QED
    BY <1>0, <2>1, <2>2
<1>9. ASSUME DetachCancel PROVE Goal
  <2>1. th[u].at = "add" /\ SameButAt(u)
    BY <1>9, <1>0 DEF DetachCancel, SameButAt
  <2>2. \A x \in Events : ev[x].st = "new" => ev'[x].st = "new" /\ ev'[x].ts = ev[x].ts
    <3> DEFINE S == Listed
    <3>1. ev' = Signal(S, "cancelled") /\ S \in SUBSET Events
      BY <1>9 DEF DetachCancel, Listed
    <3>2. \A x \in Events : ev[x].st = "new" => x \notin S
      BY DEF Listed
    <3> HIDE DEF S
    <3> QED
      BY <3>1, <3>2, SignalEffect
  <2> QED
    BY <1>0, <2>1, <2>2
<1>10. ASSUME DetachUnlink PROVE Goal
  BY <1>10, <1>0 DEF DetachUnlink, SameButAt
<1>11. ASSUME DetachPut PROVE Goal
  BY <1>11, <1>0 DEF DetachPut, SameButAt
<1>12. ASSUME NEW e \in Events, Worker(e) PROVE Goal
  <2>1. th[u].at = "add" /\ SameButAt(u)
    BY <1>12, <1>0, WorkerEffect
  <2>2. \A x \in Events : ev[x].st = "new" => ev'[x].st = "new" /\ ev'[x].ts = ev[x].ts
    BY <1>12, WorkerEffect DEF MovesEvent
  <2> QED
    BY <1>0, <2>1, <2>2
<1>13. ASSUME NEW t \in Threads, GetContext(t) PROVE Goal
  <2>1. th[u].at = "add" /\ SameButAt(u)
    BY <1>13, <1>0, GotoEffect DEF GetContext, MovesThread, SameButAt
  <2>2. \A x \in Events : ev[x].st = "new" => ev'[x].st = "new" /\ ev'[x].ts = ev[x].ts
    BY <1>13 DEF GetContext
  <2> QED
    BY <1>0, <2>1, <2>2
<1>14. ASSUME NEW t \in Threads, NEW e \in Events, NEW ts \in Stamps,
   NEW kind \in Kinds, AddCheck(t, e, ts, kind) PROVE Goal
  <2>1. CASE u = t
    BY <1>14, <2>1
  <2>2. CASE u # t
    <3>1. th[u].at = "add" /\ SameButAt(u)
      BY <1>14, <1>0, <2>2, AddCheckEffect DEF MovesThread, SameButAt
    <3>2. \A x \in Events : ev[x].st = "new" => ev'[x] = ev[x]
      BY <1>14, AddCheckEffect DEF MovesEvent
    <3> QED
      BY <1>0, <3>1, <3>2
  <2> QED
    BY <2>1, <2>2
<1>15. ASSUME NEW t \in Threads, AddReject(t) PROVE Goal
  <2>1. th[u].at = "add" /\ SameButAt(u)
    BY <1>15, <1>0, LeaveEffect DEF AddReject, MovesThread, SameButAt
  <2>2. \A x \in Events : ev[x].st = "new" => ev'[x].st = "new" /\ ev'[x].ts = ev[x].ts
    BY <1>15 DEF AddReject
  <2> QED
    BY <1>0, <2>1, <2>2
<1>16. ASSUME NEW t \in Threads, AddEvent(t) PROVE Goal
  <2>1. u # t
    BY <1>16, <1>0, AddEventEffect
  <2>2. th[u].at = "add" /\ SameButAt(u)
    BY <1>16, <1>0, <2>1, AddEventEffect DEF MovesThread, SameButAt
  <2>3. th[u].ev # th[t].ev
    BY <1>16, <2>1, <2>2, AddEventEffect DEF AddInv
  <2>4. ev'[th[u].ev] = ev[th[u].ev]
    BY <1>16, <1>0, <2>2, <2>3, AddEventEffect DEF MovesEvent
  <2> QED
    BY <1>0, <2>2, <2>4
<1>17. ASSUME NEW t \in Threads, WaitCheck(t) PROVE Goal
  <2>1. th[u].at = "add" /\ SameButAt(u)
    BY <1>17, <1>0, LeaveEffect, GotoEffect DEF WaitCheck, MovesThread, SameButAt
  <2>2. \A x \in Events : ev[x].st = "new" => ev'[x].st = "new" /\ ev'[x].ts = ev[x].ts
    BY <1>17 DEF WaitCheck
  <2> QED
    BY <1>0, <2>1, <2>2
<1>18. ASSUME NEW t \in Threads, WaitTimeout(t) PROVE Goal
  <2>1. th[u].at = "add" /\ SameButAt(u)
    BY <1>18, <1>0, TimeoutEffect DEF MovesThread, SameButAt
  <2>2. \A x \in Events : ev[x].st = "new" => ev'[x].st = "new" /\ ev'[x].ts = ev[x].ts
    BY <1>18, TimeoutEffect
  <2> QED
    BY <1>0, <2>1, <2>2
<1>19. ASSUME NEW t \in Threads, PutContext(t) PROVE Goal
  <2>1. th[u].at = "add" /\ SameButAt(u)
    BY <1>19, <1>0, PutEffect DEF MovesThread, SameButAt
  <2>2. \A x \in Events : ev[x].st = "new" => ev'[x].st = "new" /\ ev'[x].ts = ev[x].ts
    BY <1>19 DEF PutContext
  <2> QED
    BY <1>0, <2>1, <2>2
<1>20. CASE UNCHANGED vars
  BY <1>20, <1>0 DEF vars, SameButAt
<1> QED
  BY <1>1, <1>2, <1>3, <1>4, <1>5, <1>6, <1>7, <1>8, <1>9, <1>10, <1>11, <1>12, <1>13,
     <1>14, <1>15, <1>16, <1>17, <1>18, <1>19, <1>20
     DEF Next, Detach

\* Every step keeps what is known of the events that threads are about to list.
LEMMA AddStep ==
    ASSUME TypeOK, ContextHeld, ClockInv, AddInv, TypeOK', ContextHeld', [Next]_vars
    PROVE  AddInv'
<1> DEFINE Fine(u) ==
       /\ th'[u].ev \in Events
       /\ ev'[th'[u].ev].st = "new" /\ ev'[th'[u].ev].ts = th'[u].ts
       /\ ~UserTs => /\ Minus(queued', th'[u].ts) < Window
                     /\ ev'[th'[u].ev].need = LeftOf(queued', retired', th'[u].ts)
<1>1. ASSUME NEW u \in Threads, th'[u].at = "add" PROVE Fine(u)
  <2>1. CASE /\ th[u].at = "add" /\ SameButAt(u)
             /\ ev'[th[u].ev].st = "new" /\ ev'[th[u].ev].ts = ev[th[u].ev].ts
    <3>1. /\ th'[u].ev = th[u].ev /\ th'[u].ts = th[u].ts
          /\ th[u].ev \in Events /\ ev[th[u].ev].st = "new" /\ ev[th[u].ev].ts = th[u].ts
          /\ ~UserTs => Since(th[u].ts) < Window /\ ev[th[u].ev].need = Left(th[u].ts)
      BY <2>1 DEF SameButAt, AddInv
    <3>2. th[u].ts \in Stamps
      BY Types DEF ThreadRec
    <3>3. ASSUME ~UserTs
          PROVE  /\ Minus(queued', th[u].ts) < Window
                 /\ ev'[th[u].ev].need = LeftOf(queued', retired', th[u].ts)
      <4>1. /\ \/ queued' = queued
               \/ /\ Minus(queued', th[u].ts) = Since(th[u].ts) + 1
                  /\ Recent(th[u].ts)
            /\ ev'[th[u].ev].need = LeftOf(queued', retired', th[u].ts)
        BY <2>1, <3>1, <3>2, <3>3, NeedStep DEF Left
      <4>2. Recent(th[u].ts) => Since(th[u].ts) < Window - 1
        <5>1. Minus(queued, th[u].ts) # Window /\ queued \in Stamps
          BY <3>1, <3>3, EventsAssumption DEF Since, TypeOK
        <5>2. Cmp(th[u].ts, queued) <= 0
          BY <3>1, <3>2, <3>3, <5>1, CmpOrder DEF Since
        <5> QED
          BY <5>2 DEF Recent, Since
      <4>3. Since(th[u].ts) \in Nat /\ Window \in Nat
        BY <3>2, MinusStamp, EventsAssumption DEF Since, TypeOK
      <4> QED
        BY <3>1, <3>3, <4>1, <4>2, <4>3 DEF Since
    <3> QED
      BY <2>1, <3>1, <3>3
  <2>2. ASSUME NEW e \in Events, NEW ts \in Stamps, NEW kind \in Kinds, AddCheck(u, e, ts, kind)
        PROVE  Fine(u)
    <3>1. /\ th'[u].ev = e /\ th'[u].ts = ts /\ ev'[e].st = "new" /\ ev'[e].ts = ts
          /\ ev'[e].need = Need(ts)
      BY <2>2, AddCheckEffect
    <3>2. queued' = queued /\ retired' = retired
      BY <2>2 DEF AddCheck, clock
    <3>3. ASSUME ~UserTs PROVE Since(ts) < Window /\ Need(ts) = LeftOf(queued, retired, ts)
      <4>1. Cmp(ts, queued) <= 0 /\ Minus(queued, ts) # Window
        BY <2>2, <3>3 DEF AddCheck
      <4>2. Since(ts) < Window
        BY <4>1, CmpOrder DEF Since, TypeOK
      <4> QED
        BY <4>2, NeedLeft DEF Left
    <3> QED
      BY <3>1, <3>2, <3>3 DEF Since
  <2> QED
    BY <1>1, <2>1, <2>2, AddFrame
<1>2. ASSUME NEW u \in Threads, NEW v \in Threads,
             th'[u].at = "add", th'[v].at = "add", th'[u].ev = th'[v].ev
      PROVE  u = v
  <2>1. CASE th[u].at = "add" /\ SameButAt(u) /\ th[v].at = "add" /\ SameButAt(v)
    BY <1>2, <2>1 DEF SameButAt, AddInv
  <2>2. ASSUME NEW y \in Threads, NEW z \in Threads, y # z, th'[z].at = "add",
               NEW e \in Events, NEW ts \in Stamps, NEW kind \in Kinds, AddCheck(y, e, ts, kind)
        PROVE  th'[y].ev # th'[z].ev
    <3>1. th'[y].ev = e /\ th'[z] = th[z] /\ ev[e].st = "free"
      BY <2>2, AddCheckEffect DEF MovesThread
    <3> QED
      BY <2>2, <3>1 DEF AddInv
  <2>3. CASE \E e \in Events, ts \in Stamps, kind \in Kinds : AddCheck(u, e, ts, kind)
    BY <1>2, <2>2, <2>3
  <2>4. CASE \E e \in Events, ts \in Stamps, kind \in Kinds : AddCheck(v, e, ts, kind)
    BY <1>2, <2>2, <2>4
  <2> QED
    BY <1>2, <2>1, <2>3, <2>4, AddFrame
<1> QED
  BY <1>1, <1>2 DEF AddInv, Since, Left

-----------------------------------------------------------------------------
(* Listed events.                                                          *)

\* A listed event has just been added, or it was listed already; the group was
\* processed only if the event is not due.
LEMMA ListFrame ==
    ASSUME TypeOK, ContextHeld, ClockInv, AddInv, [Next]_vars,
           NEW x \in Events, ev'[x].st = "listed"
    PROVE  \/ /\ ev[x].st = "listed" /\ ev'[x].ts = ev[x].ts
              /\ \/ processed' = processed
                 \/ processed' = retired /\ queued' = queued /\ ~Due(x)
           \/ \E t \in Threads : AddEvent(t) /\ x = th[t].ev
<1> DEFINE Goal == \/ /\ ev[x].st = "listed" /\ ev'[x].ts = ev[x].ts
                      /\ \/ processed' = processed
                         \/ processed' = retired /\ queued' = queued /\ ~Due(x)
                   \/ \E t \in Threads : AddEvent(t) /\ x = th[t].ev
<1>0. ev'[x].st = "listed"
  OBVIOUS
<1> SUFFICES Goal
  OBVIOUS
<1>1. ASSUME NEW ts \in Stamps, Submit(ts) PROVE Goal
  BY <1>1, <1>0 DEF Submit, clock
<1>2. ASSUME GpuRetire PROVE Goal
  <2>1. processed' = processed
    BY <1>2 DEF GpuRetire, clock
  <2> QED
    BY <1>2, <1>0, <2>1, PlusOne, RetireEffect DEF GpuRetire, SameButNeed, TypeOK
<1>3. ASSUME ProcessGroup PROVE Goal
  <2> DEFINE S == {y \in Listed : Due(y)}
  <2>1. ev' = Signal(S, "retired") /\ S \in SUBSET Events
        /\ processed' = retired /\ queued' = queued
    BY <1>3 DEF ProcessGroup, Listed
  <2>2. ev[x].st = "listed" /\ x \notin S => ~Due(x)
    BY DEF Listed
  <2> HIDE DEF S
  <2>3. x \notin S /\ ev'[x] = ev[x]
    BY <1>0, <2>1, SignalEffect
  <2> QED
    BY <1>0, <2>1, <2>2, <2>3
<1>4. ASSUME CreateContext PROVE Goal
  BY <1>4, <1>0, RefZero DEF CreateContext
<1>5. ASSUME InvalidateMark PROVE Goal
  <2>1. processed' = processed
    BY <1>5 DEF InvalidateMark, clock
  <2> QED
    BY <1>5, <1>0, <2>1, RetireEffect DEF InvalidateMark, SameButNeed, TypeOK
<1>6. ASSUME InvalidateFlush PROVE Goal
  BY <1>6, <1>0, FlushEffect DEF Listed
<1>7. ASSUME DetachMark PROVE Goal
  BY <1>7, <1>0 DEF DetachMark, clock
<1>8. ASSUME DetachContext PROVE Goal
  <2>1. processed' = processed
    BY <1>8 DEF DetachContext, clock
  <2> QED
    BY <1>8, <1>0, <2>1, DetachEffect, RetireEffect DEF SameButNeed
<1>9. ASSUME DetachCancel PROVE Goal
  <2>1. ev' = Signal(Listed, "cancelled") /\ Listed \in SUBSET Events
    BY <1>9 DEF DetachCancel, Listed
  <2>2. ev[x].st = "listed" <=> x \in Listed
    BY DEF Listed
  <2>3. x \notin Listed => ev[x].st # "listed"
    BY <2>2
  <2> QED
    BY <1>0, <2>1, <2>3, SignalEffect
<1>10. ASSUME DetachUnlink PROVE Goal
  BY <1>10, <1>0 DEF DetachUnlink, clock
<1>11. ASSUME DetachPut PROVE Goal
  BY <1>11, <1>0 DEF DetachPut, clock
<1>12. ASSUME NEW e \in Events, Worker(e) PROVE Goal
  <2>1. processed' = processed
    BY <1>12 DEF Worker, clock
  <2> QED
    BY <1>12, <1>0, <2>1, WorkerEffect DEF MovesEvent
<1>13. ASSUME NEW t \in Threads, GetContext(t) PROVE Goal
  BY <1>13, <1>0 DEF GetContext, clock
<1>14. ASSUME NEW t \in Threads, NEW e \in Events, NEW ts \in Stamps,
   NEW kind \in Kinds, AddCheck(t, e, ts, kind) PROVE Goal
  <2>1. processed' = processed
    BY <1>14 DEF AddCheck, clock
  <2> QED
    BY <1>14, <1>0, <2>1, AddCheckEffect DEF MovesEvent
<1>15. ASSUME NEW t \in Threads, AddReject(t) PROVE Goal
  BY <1>15, <1>0 DEF AddReject, clock
<1>16. ASSUME NEW t \in Threads, AddEvent(t) PROVE Goal
  <2>1. processed' = processed
    BY <1>16 DEF AddEvent, clock
  <2>2. CASE x = th[t].ev
    BY <1>16, <2>2
  <2>3. CASE x # th[t].ev
    BY <1>16, <1>0, <2>1, <2>3, AddEventEffect DEF MovesEvent
  <2> QED
    BY <2>2, <2>3
<1>17. ASSUME NEW t \in Threads, WaitCheck(t) PROVE Goal
  BY <1>17, <1>0 DEF WaitCheck, clock
<1>18. ASSUME NEW t \in Threads, WaitTimeout(t) PROVE Goal
  <2>1. processed' = processed
    BY <1>18 DEF WaitTimeout, clock
  <2> QED
    BY <1>18, <1>0, <2>1, TimeoutEffect
<1>19. ASSUME NEW t \in Threads, PutContext(t) PROVE Goal
  BY <1>19, <1>0 DEF PutContext, clock
<1>20. CASE UNCHANGED vars
  BY <1>20, <1>0 DEF vars, clock
<1> QED
  BY <1>1, <1>2, <1>3, <1>4, <1>5, <1>6, <1>7, <1>8, <1>9, <1>10, <1>11, <1>12, <1>13,
     <1>14, <1>15, <1>16, <1>17, <1>18, <1>19, <1>20
     DEF Next, Detach

\* The timestamps of listed events and of those about to be listed, with the ones
\* of the context, lie less than the window behind the one queued last.
LEMMA ListNear ==
    ASSUME TypeOK, ContextHeld, ClockInv, ~UserTs, NEW x \in Events, ev[x].st # "free"
    PROVE  /\ Outstanding \in Nat /\ Since(processed) \in Nat /\ Window \in Nat
           /\ Outstanding <= Since(processed) /\ Since(processed) < Window
           /\ \A a \in Stamps : Since(a) \in Nat
<1>1. ref > 0
  BY RefZero DEF TypeOK
<1>2. Outstanding \in Nat /\ Since(processed) \in Nat /\ \A a \in Stamps : Since(a) \in Nat
  BY MinusStamp DEF TypeOK, Outstanding, Since
<1>3. Window \in Nat /\ Depth \in Nat /\ Depth < Window
  BY EventsAssumption
<1>4. Outstanding <= Since(processed) /\ Since(processed) <= Depth
  BY <1>1 DEF ClockInv
<1> QED
  BY <1>2, <1>3, <1>4

\* Every step keeps that listed events come after what was processed.
LEMMA ListStep ==
    ASSUME TypeOK, ContextHeld, ClockInv, AddInv, ListInv, ContextHeld', [Next]_vars
    PROVE  ListInv'
<1> DEFINE Fine(x) ==
       /\ Minus(queued', ev'[x].ts) < Minus(queued', processed')
       /\ ev'[x].need = LeftOf(queued', retired', ev'[x].ts)
<1>1. ASSUME ~UserTs, NEW x \in Events, ev'[x].st = "listed" PROVE Fine(x)
  <2>1. ASSUME ev[x].st = "listed", ev'[x].ts = ev[x].ts,
               \/ processed' = processed
               \/ processed' = retired /\ queued' = queued /\ ~Due(x)
        PROVE  Fine(x)
    <3>1. Since(ev[x].ts) < Since(processed) /\ ev[x].need = LeftOf(queued, retired, ev[x].ts)
      BY <1>1, <2>1 DEF ListInv, Listed, Left
    <3>2. ev[x].ts \in Stamps
      BY Types DEF EventRec
    <3>3. /\ Outstanding \in Nat /\ Since(processed) \in Nat /\ Window \in Nat
          /\ Outstanding <= Since(processed) /\ Since(processed) < Window
          /\ Since(ev[x].ts) \in Nat
      BY <1>1, <2>1, <3>2, ListNear
    <3>4. Since(ev[x].ts) < Window
      BY <3>1, <3>3
    <3>5. /\ \/ queued' = queued
             \/ /\ Minus(queued', ev[x].ts) = Since(ev[x].ts) + 1
                /\ processed' = processed /\ Minus(queued', processed) = Since(processed) + 1
          /\ ev'[x].need = LeftOf(queued', retired', ev[x].ts)
      BY <1>1, <2>1, <3>1, <3>2, <3>4, NeedStep
    <3>6. CASE processed' = processed
      BY <2>1, <3>1, <3>3, <3>5, <3>6 DEF Since
    <3>7. CASE processed' = retired /\ queued' = queued /\ ~Due(x)
      <4>1. Since(ev[x].ts) < Outstanding
        BY <3>2, <3>3, <3>4, <3>7, DueOrder DEF Due
      <4> QED
        BY <2>1, <3>5, <3>7, <4>1 DEF Since, Outstanding
    <3> QED
      BY <2>1, <3>6, <3>7
  <2>2. ASSUME NEW t \in Threads, AddEvent(t), x = th[t].ev PROVE Fine(x)
    <3>1. /\ ev[x].st = "new" /\ ev'[x].ts = th[t].ts /\ ~(Cmp(retired, th[t].ts) >= 0)
          /\ th[t].at = "add" /\ ev'[x].need = ev[x].need
      BY <1>1, <2>2, AddEventEffect
    <3>2. /\ queued' = queued /\ retired' = retired /\ processed' = processed
      BY <2>2 DEF AddEvent, clock
    <3>3. /\ Since(th[t].ts) < Window /\ ev[x].need = LeftOf(queued, retired, th[t].ts)
          /\ th[t].ts \in Stamps
      BY <1>1, <2>2, <3>1, Types DEF AddInv, Left, ThreadRec
    <3>4. /\ Outstanding \in Nat /\ Since(processed) \in Nat /\ Window \in Nat
          /\ Outstanding <= Since(processed) /\ Since(processed) < Window
          /\ Since(th[t].ts) \in Nat
      BY <1>1, <3>1, <3>3, ListNear
    <3>5. Since(th[t].ts) < Outstanding
      BY <3>1, <3>3, <3>4, DueOrder
    <3>6. Since(th[t].ts) < Since(processed)
      BY <3>4, <3>5
    <3> QED
      BY <3>1, <3>2, <3>3, <3>6 DEF Since
  <2> QED
    BY <1>1, <2>1, <2>2, ListFrame
<1> QED
  BY <1>1 DEF ListInv, Listed, Since, Left

-----------------------------------------------------------------------------
(* Callbacks.                                                              *)

\* A callback that is told its timestamp retired was told so before, or its event
\* was listed and due, or is just added.
LEMMA DoneFrame ==
    ASSUME TypeOK, ContextHeld, ClockInv, AddInv, [Next]_vars,
           NEW x \in Events, ev'[x].st = "work", ev'[x].res = "retired"
    PROVE  \/ /\ ev[x].st = "work" /\ ev[x].res = "retired"
              /\ ev[x].need = 0 => ev'[x].need = 0
           \/ ev[x].st = "listed" /\ Due(x) /\ ev'[x].need = ev[x].need
           \/ \E t \in Threads : AddEvent(t) /\ x = th[t].ev
<1> DEFINE Goal == \/ /\ ev[x].st = "work" /\ ev[x].res = "retired"
                      /\ ev[x].need = 0 => ev'[x].need = 0
                   \/ ev[x].st = "listed" /\ Due(x) /\ ev'[x].need = ev[x].need
                   \/ \E t \in Threads : AddEvent(t) /\ x = th[t].ev
<1>0. ev'[x].st = "work" /\ ev'[x].res = "retired"
  OBVIOUS
<1> SUFFICES Goal
  OBVIOUS
<1>1. ASSUME NEW ts \in Stamps, Submit(ts) PROVE Goal
  BY <1>1, <1>0 DEF Submit
<1>2. ASSUME GpuRetire PROVE Goal
  <2>1. PICK to \in Stamps : RetireTo(to)
    BY <1>2, PlusOne DEF GpuRetire, TypeOK
  <2>2. Minus(to, retired) \in Nat
    BY <2>1, MinusStamp DEF TypeOK
  <2> QED
    BY <1>0, <2>1, <2>2, RetireEffect DEF SameButNeed
<1>3. ASSUME ProcessGroup PROVE Goal
  <2> DEFINE S == {y \in Listed : Due(y)}
  <2>1. ev' = Signal(S, "retired") /\ S \in SUBSET Events
    BY <1>3 DEF ProcessGroup, Listed
  <2>2. x \in S => ev[x].st = "listed" /\ Due(x)
    BY DEF Listed
  <2> HIDE DEF S
  <2> QED
    BY <1>0, <2>1, <2>2, SignalEffect
<1>4. ASSUME CreateContext PROVE Goal
  BY <1>4, <1>0, RefZero DEF CreateContext
<1>5. ASSUME InvalidateMark PROVE Goal
  <2>1. PICK to \in Stamps : RetireTo(to)
    BY <1>5 DEF InvalidateMark, TypeOK
  <2>2. Minus(to, retired) \in Nat
    BY <2>1, MinusStamp DEF TypeOK
  <2> QED
    BY <1>0, <2>1, <2>2, RetireEffect DEF SameButNeed
<1>6. ASSUME InvalidateFlush PROVE Goal
  BY <1>6, <1>0, FlushEffect DEF Listed
<1>7. ASSUME DetachMark PROVE Goal
  BY <1>7, <1>0 DEF DetachMark
<1>8. ASSUME DetachContext PROVE Goal
  <2>1. PICK to \in Stamps : RetireTo(to)
    BY <1>8, DetachEffect
  <2>2. Minus(to, retired) \in Nat
    BY <2>1, MinusStamp DEF TypeOK
  <2> QED
    BY <1>0, <2>1, <2>2, RetireEffect DEF SameButNeed
<1>9. ASSUME DetachCancel PROVE Goal
  <2>1. ev' = Signal(Listed, "cancelled") /\ Listed \in SUBSET Events
    BY <1>9 DEF DetachCancel, Listed
  <2> QED
    BY <1>0, <2>1, SignalEffect
<1>10. ASSUME DetachUnlink PROVE Goal
  BY <1>10, <1>0 DEF DetachUnlink
<1>11. ASSUME DetachPut PROVE Goal
  BY <1>11, <1>0 DEF DetachPut
<1>12. ASSUME NEW e \in Events, Worker(e) PROVE Goal
  BY <1>12, <1>0, WorkerEffect DEF MovesEvent
<1>13. ASSUME NEW t \in Threads, GetContext(t) PROVE Goal
  BY <1>13, <1>0 DEF GetContext
<1>14. ASSUME NEW t \in Threads, NEW e \in Events, NEW ts \in Stamps,
   NEW kind \in Kinds, AddCheck(t, e, ts, kind) PROVE Goal
  BY <1>14, <1>0, AddCheckEffect DEF MovesEvent
<1>15. ASSUME NEW t \in Threads, AddReject(t) PROVE Goal
  BY <1>15, <1>0 DEF AddReject
<1>16. ASSUME NEW t \in Threads, AddEvent(t) PROVE Goal
  <2>1. CASE x = th[t].ev
    BY <1>16, <2>1
  <2>2. CASE x # th[t].ev
    BY <1>16, <1>0, <2>2, AddEventEffect DEF MovesEvent
  <2> QED
    BY <2>1, <2>2
<1>17. ASSUME NEW t \in Threads, WaitCheck(t) PROVE Goal
  BY <1>17, <1>0 DEF WaitCheck
<1>18. ASSUME NEW t \in Threads, WaitTimeout(t) PROVE Goal
  BY <1>18, <1>0, TimeoutEffect
<1>19. ASSUME NEW t \in Threads, PutContext(t) PROVE Goal
  BY <1>19, <1>0 DEF PutContext
<1>20. CASE UNCHANGED vars
  BY <1>20, <1>0 DEF vars
<1> QED
  BY <1>1, <1>2, <1>3, <1>4, <1>5, <1>6, <1>7, <1>8, <1>9, <1>10, <1>11, <1>12, <1>13,
     <1>14, <1>15, <1>16, <1>17, <1>18, <1>19, <1>20
     DEF Next, Detach

\* Every step keeps that such a callback is right.
LEMMA DoneStep ==
    ASSUME TypeOK, ContextHeld, ClockInv, AddInv, ListInv, DoneInv, [Next]_vars
    PROVE  DoneInv'
<1>1. ASSUME ~UserTs, NEW x \in Events, ev'[x].st = "work", ev'[x].res = "retired"
      PROVE  ev'[x].need = 0
  <2>1. CASE ev[x].st = "work" /\ ev[x].res = "retired" /\ (ev[x].need = 0 => ev'[x].need = 0)
    BY <1>1, <2>1 DEF DoneInv, RetiredIsDone
  <2>2. CASE ev[x].st = "listed" /\ Due(x) /\ ev'[x].need = ev[x].need
    <3>1. Since(ev[x].ts) < Since(processed) /\ ev[x].need = LeftOf(queued, retired, ev[x].ts)
      BY <1>1, <2>2 DEF ListInv, Listed, Left
    <3>2. ev[x].ts \in Stamps
      BY Types DEF EventRec
    <3>3. /\ Outstanding \in Nat /\ Since(processed) \in Nat /\ Window \in Nat
          /\ Outstanding <= Since(processed) /\ Since(processed) < Window
          /\ Since(ev[x].ts) \in Nat
      BY <1>1, <2>2, <3>2, ListNear
    <3>4. Since(ev[x].ts) >= Outstanding
      BY <2>2, <3>1, <3>2, <3>3, DueOrder DEF Due
    <3> QED
      BY <2>2, <3>1, <3>3, <3>4 DEF LeftOf, Since, Outstanding
  <2>3. ASSUME NEW t \in Threads, AddEvent(t), x = th[t].ev PROVE ev'[x].need = 0
    <3>1. /\ ev[x].st = "new" /\ Cmp(retired, th[t].ts) >= 0
          /\ th[t].at = "add" /\ ev'[x].need = ev[x].need
      BY <1>1, <2>3, AddEventEffect
    <3>2. /\ Since(th[t].ts) < Window /\ ev[x].need = LeftOf(queued, retired, th[t].ts)
          /\ th[t].ts \in Stamps
      BY <1>1, <2>3, <3>1, Types DEF AddInv, Left, ThreadRec
    <3>3. /\ Outstanding \in Nat /\ Since(processed) \in Nat /\ Window \in Nat
          /\ Outstanding <= Since(processed) /\ Since(processed) < Window
          /\ Since(th[t].ts) \in Nat
      BY <1>1, <3>1, <3>2, ListNear
    <3>4. Since(th[t].ts) >= Outstanding
      BY <3>1, <3>2, <3>3, DueOrder
    <3> QED
      BY <3>1, <3>2, <3>3, <3>4 DEF LeftOf, Since, Outstanding
  <2> QED
    BY <1>1, <2>1, <2>2, <2>3, DoneFrame
<1> QED
  BY <1>1 DEF DoneInv, RetiredIsDone

-----------------------------------------------------------------------------
(* The end of a context.                                                   *)

\* After a wait that did not fail, the last timestamp has retired.
LEMMA DrainStep ==
    ASSUME TypeOK, ContextHeld, DetachInv, ContextHeld', [Next]_vars, WaitEnds \subseteq {"idle"},
           det' \in {"drained", "cancelled", "unlinked"}
    PROVE  retired' = queued'
<1>0. /\ det' # "done" /\ det' # "no" /\ det' # "marked" /\ ref' # 0 /\ ref \in Nat
      /\ det \in {"drained", "cancelled", "unlinked"} => retired = queued
      /\ retired \in Stamps /\ queued \in Stamps
      /\ det \in {"no", "marked", "drained", "cancelled", "unlinked", "done"}
      /\ det' \in {"drained", "cancelled", "unlinked"}
  BY RefZeroNext DEF DetachInv, TypeOK
<1> SUFFICES retired' = queued'
  OBVIOUS
<1>1. ASSUME NEW ts \in Stamps, Submit(ts) PROVE retired' = queued'
  BY <1>1, <1>0 DEF Submit, life, Detached
<1>2. ASSUME GpuRetire PROVE retired' = queued'
  BY <1>2, <1>0, MinusStamp DEF GpuRetire, clock, life, Outstanding
<1>3. ASSUME ProcessGroup PROVE retired' = queued'
  BY <1>3, <1>0 DEF ProcessGroup, life
<1>4. ASSUME CreateContext PROVE retired' = queued'
  BY <1>4 DEF CreateContext
<1>5. ASSUME InvalidateMark PROVE retired' = queued'
  BY <1>5, <1>0 DEF InvalidateMark, clock, life, Cleared, Put
<1>6. ASSUME InvalidateFlush PROVE retired' = queued'
  BY <1>6, <1>0 DEF InvalidateFlush, Cleared, Put
<1>7. ASSUME DetachMark PROVE retired' = queued'
  BY <1>7, <1>0 DEF DetachMark, clock, life
<1>8. ASSUME DetachContext PROVE retired' = queued'
  <2>1. retired' = queued /\ queued' = queued
    BY <1>8, DetachEffect, RetireEffect DEF DetachContext, clock
  <2> QED
    BY <2>1
<1>9. ASSUME DetachCancel PROVE retired' = queued'
  BY <1>9, <1>0 DEF DetachCancel, clock, life
<1>10. ASSUME DetachUnlink PROVE retired' = queued'
  BY <1>10, <1>0 DEF DetachUnlink, clock, life
<1>11. ASSUME DetachPut PROVE retired' = queued'
  BY <1>11, <1>0 DEF DetachPut, clock, life, Cleared, Put
<1>12. ASSUME NEW e \in Events, Worker(e) PROVE retired' = queued'
  BY <1>12, <1>0 DEF Worker, clock, life, Cleared, Put
<1>13. ASSUME NEW t \in Threads, GetContext(t) PROVE retired' = queued'
  BY <1>13, <1>0 DEF GetContext, clock, life
<1>14. ASSUME NEW t \in Threads, NEW e \in Events, NEW ts \in Stamps,
   NEW kind \in Kinds, AddCheck(t, e, ts, kind) PROVE retired' = queued'
  BY <1>14, <1>0 DEF AddCheck, clock, life
<1>15. ASSUME NEW t \in Threads, AddReject(t) PROVE retired' = queued'
  BY <1>15, <1>0 DEF AddReject, clock, life
<1>16. ASSUME NEW t \in Threads, AddEvent(t) PROVE retired' = queued'
  BY <1>16, <1>0 DEF AddEvent, clock, life
<1>17. ASSUME NEW t \in Threads, WaitCheck(t) PROVE retired' = queued'
  BY <1>17, <1>0 DEF WaitCheck, clock, life
<1>18. ASSUME NEW t \in Threads, WaitTimeout(t) PROVE retired' = queued'
  BY <1>18, <1>0 DEF WaitTimeout, clock, life
<1>19. ASSUME NEW t \in Threads, PutContext(t) PROVE retired' = queued'
  BY <1>19, <1>0 DEF PutContext, clock, life, Cleared, Put
<1>20. CASE UNCHANGED vars
  BY <1>20, <1>0 DEF vars, clock, life
<1> QED
  BY <1>1, <1>2, <1>3, <1>4, <1>5, <1>6, <1>7, <1>8, <1>9, <1>10, <1>11, <1>12, <1>13,
     <1>14, <1>15, <1>16, <1>17, <1>18, <1>19, <1>20
     DEF Next, Detach

\* kgsl_cancel_events is what makes a detach reach "cancelled".
LEMMA CancelledFrame ==
    ASSUME [Next]_vars, det' = "cancelled"
    PROVE  det = "cancelled" \/ (det = "drained" /\ DetachCancel)
<1>0. det' = "cancelled"
  OBVIOUS
<1>1. ASSUME NEW ts \in Stamps,
   Submit(ts) PROVE det = "cancelled" \/ (det = "drained" /\ DetachCancel)
  BY <1>1, <1>0 DEF Submit, life
<1>2. ASSUME GpuRetire PROVE det = "cancelled" \/ (det = "drained" /\ DetachCancel)
  BY <1>2, <1>0 DEF GpuRetire, life
<1>3. ASSUME ProcessGroup PROVE det = "cancelled" \/ (det = "drained" /\ DetachCancel)
  BY <1>3, <1>0 DEF ProcessGroup, life
<1>4. ASSUME CreateContext PROVE det = "cancelled" \/ (det = "drained" /\ DetachCancel)
  BY <1>4, <1>0 DEF CreateContext, life
<1>5. ASSUME InvalidateMark PROVE det = "cancelled" \/ (det = "drained" /\ DetachCancel)
  BY <1>5, <1>0 DEF InvalidateMark, life
<1>6. ASSUME InvalidateFlush PROVE det = "cancelled" \/ (det = "drained" /\ DetachCancel)
  BY <1>6, <1>0 DEF InvalidateFlush, life
<1>7. ASSUME DetachMark PROVE det = "cancelled" \/ (det = "drained" /\ DetachCancel)
  BY <1>7, <1>0 DEF DetachMark, life
<1>8. ASSUME DetachContext PROVE det = "cancelled" \/ (det = "drained" /\ DetachCancel)
  BY <1>8, <1>0 DEF DetachContext, life
<1>9. ASSUME DetachCancel PROVE det = "cancelled" \/ (det = "drained" /\ DetachCancel)
  BY <1>9, <1>0 DEF DetachCancel, life
<1>10. ASSUME DetachUnlink PROVE det = "cancelled" \/ (det = "drained" /\ DetachCancel)
  BY <1>10, <1>0 DEF DetachUnlink, life
<1>11. ASSUME DetachPut PROVE det = "cancelled" \/ (det = "drained" /\ DetachCancel)
  BY <1>11, <1>0 DEF DetachPut, life
<1>12. ASSUME NEW e \in Events,
   Worker(e) PROVE det = "cancelled" \/ (det = "drained" /\ DetachCancel)
  BY <1>12, <1>0 DEF Worker, life
<1>13. ASSUME NEW t \in Threads,
   GetContext(t) PROVE det = "cancelled" \/ (det = "drained" /\ DetachCancel)
  BY <1>13, <1>0 DEF GetContext, life
<1>14. ASSUME NEW t \in Threads, NEW e \in Events, NEW ts \in Stamps,
   NEW kind \in Kinds, AddCheck(t, e, ts,
      kind) PROVE det = "cancelled" \/ (det = "drained" /\ DetachCancel)
  BY <1>14, <1>0 DEF AddCheck, life
<1>15. ASSUME NEW t \in Threads,
   AddReject(t) PROVE det = "cancelled" \/ (det = "drained" /\ DetachCancel)
  BY <1>15, <1>0 DEF AddReject, life
<1>16. ASSUME NEW t \in Threads,
   AddEvent(t) PROVE det = "cancelled" \/ (det = "drained" /\ DetachCancel)
  BY <1>16, <1>0 DEF AddEvent, life
<1>17. ASSUME NEW t \in Threads,
   WaitCheck(t) PROVE det = "cancelled" \/ (det = "drained" /\ DetachCancel)
  BY <1>17, <1>0 DEF WaitCheck, life
<1>18. ASSUME NEW t \in Threads,
   WaitTimeout(t) PROVE det = "cancelled" \/ (det = "drained" /\ DetachCancel)
  BY <1>18, <1>0 DEF WaitTimeout, life
<1>19. ASSUME NEW t \in Threads,
   PutContext(t) PROVE det = "cancelled" \/ (det = "drained" /\ DetachCancel)
  BY <1>19, <1>0 DEF PutContext, life
<1>20. CASE UNCHANGED vars
  BY <1>20, <1>0 DEF vars, life
<1> QED
  BY <1>1, <1>2, <1>3, <1>4, <1>5, <1>6, <1>7, <1>8, <1>9, <1>10, <1>11, <1>12, <1>13,
     <1>14, <1>15, <1>16, <1>17, <1>18, <1>19, <1>20
     DEF Next, Detach

\* Every step keeps what a detach has reached.
LEMMA DetachStep ==
    ASSUME TypeOK, ContextHeld, ClockInv, AddInv, DetachInv, ContextHeld', [Next]_vars
    PROVE  DetachInv'
<1>1. ASSUME WaitEnds \subseteq {"idle"}, det' \in {"drained", "cancelled", "unlinked"}
      PROVE  retired' = queued'
  BY <1>1, DrainStep
<1>2. ASSUME WaitEnds \subseteq {"idle"}, ~UserTs, det' = "cancelled",
             NEW x \in Events, ev'[x].st = "listed"
      PROVE  FALSE
  <2>1. det = "cancelled" \/ (det = "drained" /\ DetachCancel)
    BY <1>2, CancelledFrame
  <2>2. CASE det = "drained" /\ DetachCancel
    <3>1. ev' = Signal(Listed, "cancelled") /\ Listed \in SUBSET Events
      BY <2>2 DEF DetachCancel, Listed
    <3>2. x \notin Listed => ev[x].st # "listed"
      BY DEF Listed
    <3> QED
      BY <1>2, <3>1, <3>2, SignalEffect
  <2>3. CASE det = "cancelled"
    <3>1. ev[x].st # "listed" /\ retired = queued
      BY <1>2, <2>3 DEF DetachInv, Listed
    <3>2. PICK t \in Threads : AddEvent(t) /\ x = th[t].ev
      BY <1>2, <3>1, ListFrame
    <3>3. th[t].at = "add" /\ ~(Cmp(retired, th[t].ts) >= 0)
      BY <1>2, <3>2, AddEventEffect
    <3>4. Since(th[t].ts) < Window /\ th[t].ts \in Stamps
      BY <1>2, <3>3, Types DEF AddInv, ThreadRec
    <3>5. Outstanding = 0 /\ Window \in Nat /\ Window > 0 /\ Since(th[t].ts) \in Nat
      BY <3>1, <3>4, MinusStamp, EventsAssumption DEF Outstanding, Since, TypeOK
    <3> QED
      BY <3>3, <3>4, <3>5, DueOrder
  <2> QED
    BY <2>1, <2>2, <2>3
<1> QED
  BY <1>1, <1>2 DEF DetachInv, Listed

\* Every step keeps that the group is on the list of groups until it is deleted.
LEMMA LinkStep ==
    ASSUME TypeOK, ContextHeld, LinkInv, [Next]_vars
    PROVE  LinkInv'
<1>0. linked <=> det \notin {"unlinked", "done"}
  BY DEF LinkInv
<1> SUFFICES linked' <=> det' \notin {"unlinked", "done"}
  BY DEF LinkInv
<1>1. ASSUME NEW ts \in Stamps, Submit(ts) PROVE (linked' <=> det' \notin {"unlinked",
   "done"})
  BY <1>1, <1>0 DEF Submit, life, Detached
<1>2. ASSUME GpuRetire PROVE (linked' <=> det' \notin {"unlinked", "done"})
  BY <1>2, <1>0 DEF GpuRetire, life, Detached
<1>3. ASSUME ProcessGroup PROVE (linked' <=> det' \notin {"unlinked", "done"})
  BY <1>3, <1>0 DEF ProcessGroup, life, Detached
<1>4. ASSUME CreateContext PROVE (linked' <=> det' \notin {"unlinked", "done"})
  BY <1>4, <1>0 DEF CreateContext, life, Detached
<1>5. ASSUME InvalidateMark PROVE (linked' <=> det' \notin {"unlinked", "done"})
  BY <1>5, <1>0 DEF InvalidateMark, life, Detached
<1>6. ASSUME InvalidateFlush PROVE (linked' <=> det' \notin {"unlinked", "done"})
  BY <1>6, <1>0 DEF InvalidateFlush, life, Detached
<1>7. ASSUME DetachMark PROVE (linked' <=> det' \notin {"unlinked", "done"})
  BY <1>7, <1>0 DEF DetachMark, life, Detached
<1>8. ASSUME DetachContext PROVE (linked' <=> det' \notin {"unlinked", "done"})
  BY <1>8, <1>0 DEF DetachContext, life, Detached
<1>9. ASSUME DetachCancel PROVE (linked' <=> det' \notin {"unlinked", "done"})
  BY <1>9, <1>0 DEF DetachCancel, life, Detached
<1>10. ASSUME DetachUnlink PROVE (linked' <=> det' \notin {"unlinked", "done"})
  BY <1>10, <1>0 DEF DetachUnlink, life, Detached
<1>11. ASSUME DetachPut PROVE (linked' <=> det' \notin {"unlinked", "done"})
  BY <1>11, <1>0 DEF DetachPut, life, Detached
<1>12. ASSUME NEW e \in Events, Worker(e) PROVE (linked' <=> det' \notin {"unlinked",
   "done"})
  BY <1>12, <1>0 DEF Worker, life, Detached
<1>13. ASSUME NEW t \in Threads,
   GetContext(t) PROVE (linked' <=> det' \notin {"unlinked", "done"})
  BY <1>13, <1>0 DEF GetContext, life, Detached
<1>14. ASSUME NEW t \in Threads, NEW e \in Events, NEW ts \in Stamps,
   NEW kind \in Kinds, AddCheck(t, e, ts,
      kind) PROVE (linked' <=> det' \notin {"unlinked", "done"})
  BY <1>14, <1>0 DEF AddCheck, life, Detached
<1>15. ASSUME NEW t \in Threads,
   AddReject(t) PROVE (linked' <=> det' \notin {"unlinked", "done"})
  BY <1>15, <1>0 DEF AddReject, life, Detached
<1>16. ASSUME NEW t \in Threads,
   AddEvent(t) PROVE (linked' <=> det' \notin {"unlinked", "done"})
  BY <1>16, <1>0 DEF AddEvent, life, Detached
<1>17. ASSUME NEW t \in Threads,
   WaitCheck(t) PROVE (linked' <=> det' \notin {"unlinked", "done"})
  BY <1>17, <1>0 DEF WaitCheck, life, Detached
<1>18. ASSUME NEW t \in Threads,
   WaitTimeout(t) PROVE (linked' <=> det' \notin {"unlinked", "done"})
  BY <1>18, <1>0 DEF WaitTimeout, life, Detached
<1>19. ASSUME NEW t \in Threads,
   PutContext(t) PROVE (linked' <=> det' \notin {"unlinked", "done"})
  BY <1>19, <1>0 DEF PutContext, life, Detached
<1>20. CASE UNCHANGED vars
  BY <1>20, <1>0 DEF vars, life
<1> QED
  BY <1>1, <1>2, <1>3, <1>4, <1>5, <1>6, <1>7, <1>8, <1>9, <1>10, <1>11, <1>12, <1>13,
     <1>14, <1>15, <1>16, <1>17, <1>18, <1>19, <1>20
     DEF Next, Detach

\* Only kgsl_del_event_group takes the group from the list of groups.
LEMMA UnlinkFrame ==
    ASSUME [Next]_vars, linked, ~linked'
    PROVE  det = "cancelled"
<1>1. ASSUME NEW ts \in Stamps, Submit(ts) PROVE det = "cancelled"
  BY <1>1 DEF Submit, life
<1>2. ASSUME GpuRetire PROVE det = "cancelled"
  BY <1>2 DEF GpuRetire, life
<1>3. ASSUME ProcessGroup PROVE det = "cancelled"
  BY <1>3 DEF ProcessGroup, life
<1>4. ASSUME CreateContext PROVE det = "cancelled"
  BY <1>4 DEF CreateContext, life
<1>5. ASSUME InvalidateMark PROVE det = "cancelled"
  BY <1>5 DEF InvalidateMark, life
<1>6. ASSUME InvalidateFlush PROVE det = "cancelled"
  BY <1>6 DEF InvalidateFlush, life
<1>7. ASSUME DetachMark PROVE det = "cancelled"
  BY <1>7 DEF DetachMark, life
<1>8. ASSUME DetachContext PROVE det = "cancelled"
  BY <1>8 DEF DetachContext, life
<1>9. ASSUME DetachCancel PROVE det = "cancelled"
  BY <1>9 DEF DetachCancel, life
<1>10. ASSUME DetachUnlink PROVE det = "cancelled"
  BY <1>10 DEF DetachUnlink, life
<1>11. ASSUME DetachPut PROVE det = "cancelled"
  BY <1>11 DEF DetachPut, life
<1>12. ASSUME NEW e \in Events, Worker(e) PROVE det = "cancelled"
  BY <1>12 DEF Worker, life
<1>13. ASSUME NEW t \in Threads, GetContext(t) PROVE det = "cancelled"
  BY <1>13 DEF GetContext, life
<1>14. ASSUME NEW t \in Threads, NEW e \in Events, NEW ts \in Stamps,
   NEW kind \in Kinds, AddCheck(t, e, ts, kind) PROVE det = "cancelled"
  BY <1>14 DEF AddCheck, life
<1>15. ASSUME NEW t \in Threads, AddReject(t) PROVE det = "cancelled"
  BY <1>15 DEF AddReject, life
<1>16. ASSUME NEW t \in Threads, AddEvent(t) PROVE det = "cancelled"
  BY <1>16 DEF AddEvent, life
<1>17. ASSUME NEW t \in Threads, WaitCheck(t) PROVE det = "cancelled"
  BY <1>17 DEF WaitCheck, life
<1>18. ASSUME NEW t \in Threads, WaitTimeout(t) PROVE det = "cancelled"
  BY <1>18 DEF WaitTimeout, life
<1>19. ASSUME NEW t \in Threads, PutContext(t) PROVE det = "cancelled"
  BY <1>19 DEF PutContext, life
<1>20. CASE UNCHANGED vars
  BY <1>20 DEF vars, life
<1> QED
  BY <1>1, <1>2, <1>3, <1>4, <1>5, <1>6, <1>7, <1>8, <1>9, <1>10, <1>11, <1>12, <1>13,
     <1>14, <1>15, <1>16, <1>17, <1>18, <1>19, <1>20
     DEF Next, Detach

-----------------------------------------------------------------------------
(* Theorems.                                                               *)

\* The inductive invariant holds in every reachable state.
THEOREM EventsInvariant == Spec => []EventsInv
<1>1. Init => EventsInv
  <2> SUFFICES ASSUME Init PROVE EventsInv
    OBVIOUS
  <2>1. 0 \in Stamps /\ Window \in Nat /\ Depth \in Nat /\ Minus(0, 0) = 0
    BY EventsAssumption DEF Stamps, Minus
  <2>2. FreeEvent \in EventRec /\ FreeEvent.st = "free"
    BY <2>1 DEF FreeEvent, EventRec
  <2>3. IdleThread \in ThreadRec /\ IdleThread.at = "idle"
    BY <2>1 DEF IdleThread, ThreadRec
  <2>4. ev \in [Events -> EventRec] /\ th \in [Threads -> ThreadRec]
    BY <2>2, <2>3 DEF Init
  <2>5. /\ \A e \in Events : ev[e].st = "free"
        /\ \A t \in Threads : th[t].at = "idle"
    BY <2>2, <2>3 DEF Init
  <2>6. TypeOK
    BY <2>1, <2>4 DEF Init, TypeOK, EventRec, ThreadRec
  <2>7. ContextHeld
    <3>1. Holding = {} /\ InUse = {}
      BY <2>5 DEF Holding, InUse
    <3>2. Cardinality(Holding) = 0 /\ Cardinality(InUse) = 0
      BY <3>1, FS_EmptySet
    <3> QED
      BY <3>2, HeldSum DEF Init, OtherRefs, Unit
  <2>8. ClockInv
    BY <2>1 DEF Init, ClockInv, Outstanding, Since
  <2>9. AddInv
    BY <2>5 DEF AddInv
  <2>10. Listed = {}
    BY <2>5 DEF Listed
  <2>11. ListInv /\ DoneInv
    BY <2>5, <2>10 DEF ListInv, DoneInv, RetiredIsDone
  <2>12. DetachInv /\ LinkInv
    BY DEF Init, DetachInv, LinkInv
  <2> QED
    BY <2>6, <2>7, <2>8, <2>9, <2>11, <2>12 DEF EventsInv
<1>2. EventsInv /\ [Next]_vars => EventsInv'
  <2> SUFFICES ASSUME EventsInv, [Next]_vars PROVE EventsInv'
    OBVIOUS
  <2>1. TypeOK /\ ContextHeld /\ ClockInv /\ AddInv /\ ListInv /\ DoneInv /\ DetachInv /\ LinkInv
    BY DEF EventsInv
  <2>2. ContextHeld'
    BY <2>1, HeldStep
  <2>3. TypeOK'
    BY <2>1, TypeStep
  <2>4. ClockInv' /\ LinkInv'
    BY <2>1, ClockStep, LinkStep
  <2>5. AddInv'
    BY <2>1, <2>2, <2>3, AddStep
  <2>6. ListInv' /\ DoneInv' /\ DetachInv'
    BY <2>1, <2>2, ListStep, DoneStep, DetachStep
  <2> QED
    BY <2>2, <2>3, <2>4, <2>5, <2>6 DEF EventsInv
<1> QED
  BY <1>1, <1>2, PTL DEF Spec

\* The types are kept.
THEOREM TypeCorrect == Spec => []TypeOK
<1>1. EventsInv => TypeOK
  BY DEF EventsInv
<1> QED
  BY <1>1, EventsInvariant, PTL

\* A context has exactly the references of its threads, its events in use and
\* the calls in progress: it outlives its listed events and queued callbacks
\* (kgsl_events.c:84).
THEOREM ContextAlwaysHeld == Spec => []ContextHeld
<1>1. EventsInv => ContextHeld
  BY DEF EventsInv
<1> QED
  BY <1>1, EventsInvariant, PTL

\* If the timestamps are the driver's own, a callback is told that its timestamp
\* retired only if every command up to it has, however the timestamps wrap
\* around (kgsl_events.c:98).
THEOREM RetiredAlwaysDone ==
    ASSUME ~UserTs
    PROVE  Spec => []RetiredIsDone
<1>1. EventsInv => RetiredIsDone
  BY DEF EventsInv, DoneInv
<1> QED
  BY <1>1, EventsInvariant, PTL

\* If the timestamps are the driver's own, no listed event is overlooked: when it
\* may fire, the group counts as unprocessed and its processing takes the event
\* (kgsl_events.c:293).
THEOREM NoEventMissed ==
    ASSUME ~UserTs
    PROVE  Spec => []NoMissedEvent
<1>1. EventsInv => NoMissedEvent
  <2> SUFFICES ASSUME EventsInv, NEW e \in Listed, ev[e].need = 0
               PROVE  DoProcess(processed, retired) /\ Due(e)
    BY DEF NoMissedEvent
  <2>1. TypeOK /\ ContextHeld /\ ClockInv /\ ListInv /\ e \in Events /\ ev[e].st = "listed"
    BY DEF EventsInv, Listed
  <2>2. /\ Since(ev[e].ts) < Since(processed) /\ LeftOf(queued, retired, ev[e].ts) = 0
        /\ ev[e].ts \in Stamps
    BY <2>1, Types DEF ListInv, Left, EventRec
  <2>3. /\ Outstanding \in Nat /\ Since(processed) \in Nat /\ Window \in Nat
        /\ Outstanding <= Since(processed) /\ Since(processed) < Window
        /\ Since(ev[e].ts) \in Nat
    BY <2>1, <2>2, ListNear
  <2>4. Outstanding <= Since(ev[e].ts)
    BY <2>2, <2>3 DEF LeftOf, Since, Outstanding
  <2>5. Due(e)
    BY <2>1, <2>2, <2>3, <2>4, DueOrder DEF Due
  <2>6. retired \in Stamps /\ processed \in Stamps /\ queued \in Stamps
    BY <2>1 DEF TypeOK
  <2>7. Minus(retired, processed) = Since(processed) - Outstanding
    BY <2>3, <2>6, MinusSplit DEF Since, Outstanding
  <2>8. Minus(retired, processed) \in 1 .. Window - 1
    BY <2>2, <2>3, <2>4, <2>7
  <2> QED
    BY <2>5, <2>6, <2>8, DoProcessAhead
<1> QED
  BY <1>1, EventsInvariant, PTL

\* If also the waits of a detach for the GPU do not fail, a group is deleted only
\* when its list is empty (kgsl_events.c:323).
THEOREM GroupsDeletedEmpty ==
    ASSUME ~UserTs, WaitEnds \subseteq {"idle"}
    PROVE  Spec => DeletedEmpty
<1>1. EventsInv /\ [Next]_vars => [linked /\ ~linked' => Listed = {}]_vars
  <2> SUFFICES ASSUME EventsInv, [Next]_vars, linked, ~linked' PROVE Listed = {}
    OBVIOUS
  <2>1. det = "cancelled"
    BY UnlinkFrame
  <2> QED
    BY <2>1 DEF EventsInv, DetachInv
<1> QED
  BY <1>1, EventsInvariant, PTL DEF Spec, DeletedEmpty
=============================================================================

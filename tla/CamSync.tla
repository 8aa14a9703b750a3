------------------------------ MODULE CamSync ------------------------------
(***************************************************************************)
(* The sync objects of the camera driver, cam_sync.c and cam_sync_util.c:  *)
(* the table of objects with a spinlock for each row, objects merged into  *)
(* groups, references, callbacks, and the close of the device.             *)
(*                                                                         *)
(* What is done under the lock of one row is one step; a merge keeps the   *)
(* lock of the group while it takes those of the children in turn.         *)
(*                                                                         *)
(* A definition marked "slip" is the next one with a plausible mistake in  *)
(* it.  Next uses none of them: they show that each property can fail.     *)
(***************************************************************************)
EXTENDS Integers, FiniteSets

CONSTANTS Rows,        \* indices of sync_table but 0, which is never used
          Singles,     \* bound: those where individual objects are created
          Threads,     \* callers in drivers and in ioctls
          Closer,      \* the thread that closes the device
          NoRow, Free, \* no row; an unlocked row
          Kinds,       \* "kernel": callback_list, "user": user_payload_list
          Statuses,    \* with which objects are signaled
          MaxNotes,    \* bound on the callbacks registered and under way
          Drivers,     \* who takes references, one each at a time
          Closable,    \* whether the device is closed
          Wrap         \* 2^32: remaining is a uint32_t

ASSUME SyncAssumption ==
    /\ IsFiniteSet(Rows) /\ Singles \subseteq Rows /\ IsFiniteSet(Threads)
    /\ Closer \notin Threads /\ NoRow \notin Rows
    /\ Free \notin Threads \union {Closer}
    /\ Kinds \subseteq {"kernel", "user"}
    /\ Statuses \subseteq {"success", "error", "cancel"}
    /\ MaxNotes \in Nat /\ Closable \in BOOLEAN
    /\ Wrap \in Nat /\ Wrap > Cardinality(Threads \union {Closer})

Actors == Threads \union {Closer}
Failed == {"error", "cancel"}
Signaled == Failed \union {"success"}

VARIABLES row,    \* sync_table; "done" is the completion "signaled"
          bits,   \* the rows set in the bitmap
          lock,   \* row_spinlocks, where one is kept over several steps
          th,     \* what each actor does
          held,   \* the row on which each driver holds a reference
          out,    \* callbacks queued for the worker
          close,  \* progress of cam_sync_close, with the rows still to visit
          stale,  \* history: who is to tell an earlier object of the row
          spoilt  \* history: the objects told what was meant for an earlier one

past == <<stale, spoilt>>
vars == <<row, bits, lock, th, held, out, close, past>>

NewRow(type) == [state |-> "active", type |-> type, remaining |-> 0, ref |-> 0,
                 children |-> {}, parents |-> {}, cbs |-> {}, done |-> FALSE]

\* A row without object: cam_sync_deinit_row, and the completion of whoever
\* waits.  Only the state of such a row is read, so a row is cleared as soon as
\* its state is invalid, and nothing else is written to it.
ClearRow == [NewRow("indv") EXCEPT !.state = "invalid", !.done = TRUE]

IdleThread == [at |-> "idle", obj |-> NoRow, todo |-> {}, objs |-> {},
               status |-> "success"]

TypeOK ==
    /\ row \in [Rows -> [state : Signaled \union {"invalid", "active"},
                         type : {"indv", "group"}, remaining : Nat, ref : Int,
                         children : SUBSET Rows, parents : SUBSET Rows,
                         cbs : SUBSET Kinds, done : BOOLEAN]]
    /\ bits \subseteq Rows
    /\ lock \in [Rows -> Actors \union {Free}]
    /\ th \in [Actors -> [at : {"idle", "create", "check", "bit", "lock", "link",
                                "undo", "parents", "unlink"},
                          obj : Rows \union {NoRow}, todo : SUBSET Rows,
                          objs : SUBSET Rows, status : Signaled]]
    /\ held \in [Drivers -> Rows \union {NoRow}]
    /\ out \subseteq [obj : Rows, status : Signaled]
    /\ close \in [phase : {"open", "signal", "sweep", "closed"}, rest : SUBSET Rows]
    /\ stale \in [Rows -> SUBSET Actors] /\ spoilt \subseteq Rows

Init ==
    /\ row = [o \in Rows |-> ClearRow]
    /\ bits = {} /\ lock = [o \in Rows |-> Free]
    /\ th = [a \in Actors |-> IdleThread]
    /\ held = [d \in Drivers |-> NoRow] /\ out = {}
    /\ close = [phase |-> "open", rest |-> {}]
    /\ stale = [o \in Rows |-> {}] /\ spoilt = {}

Unlocked(o) == lock[o] = Free
Valid(o) == row[o].state # "invalid"
Idle(a) == th[a].at = "idle"
Return(a) == th' = [th EXCEPT ![a] = IdleThread]

\* Complete: signaled, and every child too.
Ended(o) == row[o].state \in Signaled /\ row[o].remaining = 0

\* Who has taken the row off the parents of a signaled child and is to tell it.
\* An index is used again as soon as its bit is clear, so what they were to tell
\* may reach another object, or its driver's reference be another object's.
Telling(o) == {a \in Actors : th[a].at = "parents" /\ o \in th[a].todo}
Coming(o) == Telling(o) \ stale[o]
Reused(o) == stale' = [stale EXCEPT ![o] = Telling(o)] /\ spoilt' = spoilt \ {o}

-----------------------------------------------------------------------------
(* cam_sync_create: the bit, then the row.                                 *)

CreateBit(t, o) ==
    /\ Idle(t) /\ o \in Singles \ bits
    /\ bits' = bits \union {o}
    /\ th' = [th EXCEPT ![t] = [IdleThread EXCEPT !.at = "create", !.obj = o]]
    /\ UNCHANGED <<row, lock, held, out, close, past>>

\* cam_sync_init_row.
CreateInit(t) ==
    LET o == th[t].obj
    IN  /\ th[t].at = "create" /\ Unlocked(o)
        /\ row' = [row EXCEPT ![o] = NewRow("indv")]
        /\ Reused(o) /\ Return(t)
        /\ UNCHANGED <<bits, lock, held, out, close>>

-----------------------------------------------------------------------------
(* Callbacks.                                                              *)

\* cam_sync_util_dispatch_signaled_cb: every callback is taken off the list and
\* queued, unless the worker has no task left or refuses it; every payload is sent
\* to user space unless the device is closed; and the waiters are woken.
Served(o) == IF close.phase = "closed" THEN row[o].cbs \ {"user"} ELSE row[o].cbs
Dispatch(r, o) == [r EXCEPT !.cbs = @ \ Served(o), !.done = TRUE]
Enqueue(o, kinds, status) ==
    \/ "kernel" \in kinds /\ out' = out \union {[obj |-> o, status |-> status]}
    \/ UNCHANGED out

Room == Cardinality(out) + Cardinality({x \in Rows \X Kinds : x[2] \in row[x[1]].cbs}) < MaxNotes

RegisterCallbackEarly(o) ==             \* slip: the children are not waited for
    /\ "kernel" \in Kinds /\ Room /\ Unlocked(o) /\ Valid(o)
    /\ IF row[o].state \in Signaled
       THEN Enqueue(o, {"kernel"}, row[o].state) /\ UNCHANGED row
       ELSE row' = [row EXCEPT ![o].cbs = @ \union {"kernel"}] /\ UNCHANGED out
    /\ UNCHANGED <<bits, lock, th, held, close, past>>

\* cam_sync_register_callback: at once if the object is complete.
RegisterCallback(o) ==
    /\ "kernel" \in Kinds /\ Room /\ Unlocked(o) /\ Valid(o)
    /\ IF Ended(o)
       THEN Enqueue(o, {"kernel"}, row[o].state) /\ UNCHANGED row
       ELSE row' = [row EXCEPT ![o].cbs = @ \union {"kernel"}] /\ UNCHANGED out
    /\ UNCHANGED <<bits, lock, th, held, close, past>>

\* cam_sync_handle_register_user_payload: at once if the state is a final one.
RegisterPayload(o) ==
    /\ "user" \in Kinds /\ Room /\ close.phase = "open" /\ Unlocked(o) /\ Valid(o)
    /\ row' = IF row[o].state \in Signaled THEN row
              ELSE [row EXCEPT ![o].cbs = @ \union {"user"}]
    /\ UNCHANGED <<bits, lock, th, held, out, close, past>>

\* cam_sync_deregister_callback.
DeregisterCallback(o) ==
    /\ Unlocked(o) /\ Valid(o) /\ "kernel" \in row[o].cbs
    /\ row' = [row EXCEPT ![o].cbs = @ \ {"kernel"}]
    /\ UNCHANGED <<bits, lock, th, held, out, close, past>>

\* cam_sync_handle_deregister_user_payload, an ioctl of the open device.
DeregisterPayload(o) ==
    /\ Unlocked(o) /\ Valid(o) /\ "user" \in row[o].cbs /\ close.phase = "open"
    /\ row' = [row EXCEPT ![o].cbs = @ \ {"user"}]
    /\ UNCHANGED <<bits, lock, th, held, out, close, past>>

\* The worker calls back: cam_sync_util_cb_dispatch.
Deliver(n) ==
    /\ out' = out \ {n}
    /\ UNCHANGED <<row, bits, lock, th, held, close, past>>

-----------------------------------------------------------------------------
(* References and signals.                                                 *)

\* cam_sync_get_obj_ref, by a driver or for the signal of an ioctl.  References
\* on groups, which nobody can signal, are not modelled.
GetRef(d, o) ==
    /\ held[d] = NoRow
    /\ Unlocked(o) /\ row[o].state = "active" /\ row[o].type = "indv"
    /\ row' = [row EXCEPT ![o].ref = @ + 1]
    /\ held' = [held EXCEPT ![d] = o]
    /\ UNCHANGED <<bits, lock, th, out, close, past>>

\* cam_sync_put_obj_ref, without the lock, of whatever object has the row now.
PutRef(d) ==
    LET o == held[d]
    IN  /\ o # NoRow
        /\ held' = [held EXCEPT ![d] = NoRow]
        /\ row' = IF Valid(o) THEN [row EXCEPT ![o].ref = @ - 1] ELSE row
        /\ UNCHANGED <<bits, lock, th, out, close, past>>

\* cam_sync_signal: the last reference sets the state and calls back, and the
\* parents are taken off the object to be served after its lock.
Signal(a, o, s) ==
    /\ Unlocked(o)
    /\ IF row[o].state # "active" \/ row[o].type = "group"
       THEN UNCHANGED <<row, th, out>>
       ELSE IF row[o].ref # 1
       THEN row' = [row EXCEPT ![o].ref = @ - 1] /\ UNCHANGED <<th, out>>
       ELSE /\ row' = [row EXCEPT ![o] = [Dispatch(row[o], o) EXCEPT
                                            !.ref = 0, !.state = s, !.parents = {}]]
            /\ Enqueue(o, row[o].cbs, s)
            /\ th' = IF row[o].parents = {} THEN th
                     ELSE [th EXCEPT ![a] = [IdleThread EXCEPT !.at = "parents",
                                               !.todo = row[o].parents, !.status = s]]

\* The holder of a reference signals, maybe after the object was destroyed and
\* the row given to another one.
SignalObj(t, d, s) ==
    /\ Idle(t) /\ held[d] # NoRow
    /\ held' = [held EXCEPT ![d] = NoRow]
    /\ Signal(t, held[d], s)
    /\ UNCHANGED <<bits, lock, close, past>>

UpdateLast(old, new) == new             \* slip: the last child decides

\* cam_sync_util_update_parent_state, for a state that is not invalid.
UpdateParentState(old, new) == IF old \in Failed THEN old ELSE new

Done(a, o) == IF th[a].todo = {o} THEN Return(a) ELSE th' = [th EXCEPT ![a].todo = @ \ {o}]

\* The message for an earlier object of the row is taken for one to this object.
Told(a, p) ==
    /\ stale' = [stale EXCEPT ![p] = @ \ {a}]
    /\ spoilt' = IF a \in stale[p] /\ Valid(p) THEN spoilt \union {p} ELSE spoilt

Decrement(n) == IF n = 0 THEN Wrap - 1 ELSE n - 1

SignalParentFirst(a, p) ==              \* slip: only the first child counts
    /\ th[a].at = "parents" /\ p \in th[a].todo /\ Unlocked(p)
    /\ row' = IF row[p].state # "active" THEN row
              ELSE [row EXCEPT ![p].remaining = Decrement(@), ![p].state = th[a].status]
    /\ Done(a, p) /\ Told(a, p)
    /\ UNCHANGED <<bits, lock, held, out, close>>

SignalParentSkip(a, p) ==               \* slip: the last child does not call back
    /\ th[a].at = "parents" /\ p \in th[a].todo /\ Unlocked(p)
    /\ row' = IF ~Valid(p) THEN row
              ELSE [row EXCEPT ![p].remaining = Decrement(@),
                               ![p].state = UpdateParentState(@, th[a].status)]
    /\ Done(a, p) /\ Told(a, p)
    /\ UNCHANGED <<bits, lock, held, out, close>>

\* cam_sync_signal_parent_util, for one parent: the last child calls back.  What
\* it subtracts from an invalid row is lost when the row is used again.
SignalParent(a, p) ==
    /\ th[a].at = "parents" /\ p \in th[a].todo /\ Unlocked(p)
    /\ LET s == UpdateParentState(row[p].state, th[a].status)
           last == row[p].remaining = 1
       IN  IF ~Valid(p)
           THEN UNCHANGED <<row, out>>
           ELSE /\ row' = [row EXCEPT ![p] = [(IF last THEN Dispatch(row[p], p) ELSE row[p])
                                EXCEPT !.state = s, !.remaining = Decrement(@)]]
                /\ IF last THEN Enqueue(p, row[p].cbs, s) ELSE UNCHANGED out
    /\ Done(a, p) /\ Told(a, p)
    /\ UNCHANGED <<bits, lock, held, close>>

-----------------------------------------------------------------------------
(* cam_sync_merge.                                                         *)

Merging(t) == th[t].at \in {"check", "bit", "lock", "link", "undo"}

\* Two objects; the loops treat more of them alike.
MergeStart(t, S) ==
    /\ Idle(t) /\ Cardinality(S) = 2
    /\ th' = [th EXCEPT ![t] = [IdleThread EXCEPT !.at = "check", !.todo = S, !.objs = S]]
    /\ UNCHANGED <<row, bits, lock, held, out, close, past>>

\* cam_sync_check_valid, for one object.
MergeCheck(t, o) ==
    /\ th[t].at = "check" /\ o \in th[t].todo /\ Unlocked(o)
    /\ IF o \in bits /\ Valid(o)
       THEN th' = [th EXCEPT ![t].todo = @ \ {o},
                             ![t].at = IF th[t].todo = {o} THEN "bit" ELSE @]
       ELSE Return(t)
    /\ UNCHANGED <<row, bits, lock, held, out, close, past>>

MergeBit(t, g) ==
    /\ th[t].at = "bit"
    /\ g \notin bits
    /\ bits' = bits \union {g}
    /\ th' = [th EXCEPT ![t].at = "lock", ![t].obj = g, ![t].todo = th[t].objs]
    /\ UNCHANGED <<row, lock, held, out, close, past>>

\* The table is full.
MergeFull(t) ==
    /\ th[t].at = "bit" /\ bits = Rows
    /\ Return(t)
    /\ UNCHANGED <<row, bits, lock, held, out, close, past>>

MergeLock(t) ==
    LET g == th[t].obj
    IN  /\ th[t].at = "lock" /\ Unlocked(g)
        /\ lock' = [lock EXCEPT ![g] = t]
        /\ row' = [row EXCEPT ![g] = NewRow("group")]
        /\ th' = [th EXCEPT ![t].at = "link"]
        /\ Reused(g)
        /\ UNCHANGED <<bits, held, out, close>>

\* The loop of cam_sync_init_group_object: a failed child gives the group its
\* state, an active one is linked, under its lock.
MergeLink(t, o) ==
    LET g == th[t].obj
    IN  /\ th[t].at = "link" /\ o \in th[t].todo /\ Unlocked(o)
        /\ Valid(o) /\ row[o].type = "indv"
        /\ row' = IF row[o].state \in Failed
                  THEN [row EXCEPT ![g].state = row[o].state]
                  ELSE IF row[o].state = "success" THEN row
                  ELSE [row EXCEPT ![g].remaining = @ + 1,
                                   ![g].children = @ \union {o},
                                   ![o].parents = @ \union {g}]
        /\ th' = [th EXCEPT ![t].todo = @ \ {o}]
        /\ UNCHANGED <<bits, lock, held, out, close, past>>

\* A child that is invalid or a group, or no memory for the links.
MergeFail(t, o) ==
    /\ th[t].at = "link" /\ o \in th[t].todo /\ Unlocked(o)
    /\ ~Valid(o) \/ row[o].type = "group" \/ row[o].state = "active"
    /\ row' = [row EXCEPT ![th[t].obj] = ClearRow]
    /\ th' = [th EXCEPT ![t].at = "undo", ![t].todo = th[t].objs \ th[t].todo]
    /\ UNCHANGED <<bits, lock, held, out, close, past>>

\* clean_children_info, for one child.
MergeUndo(t, o) ==
    /\ th[t].at = "undo" /\ o \in th[t].todo /\ Unlocked(o)
    /\ row' = IF Valid(o) THEN [row EXCEPT ![o].parents = @ \ {th[t].obj}] ELSE row
    /\ th' = [th EXCEPT ![t].todo = @ \ {o}]
    /\ UNCHANGED <<bits, lock, held, out, close, past>>

\* The bit is cleared; the lock of the row is not released.
MergeError(t) ==
    /\ th[t].at = "undo" /\ th[t].todo = {}
    /\ bits' = bits \ {th[t].obj}
    /\ Return(t)
    /\ UNCHANGED <<row, lock, held, out, close, past>>

MergeDoneLocked(t) ==                   \* slip: no unlock on the short way out
    LET g == th[t].obj
    IN  /\ th[t].at = "link" /\ th[t].todo = {}
        /\ row' = IF row[g].remaining > 0 THEN row
                  ELSE [row EXCEPT ![g].done = TRUE,
                                   ![g].state = IF @ \in Failed THEN @ ELSE "success"]
        /\ lock' = IF row[g].remaining > 0 THEN [lock EXCEPT ![g] = Free] ELSE lock
        /\ Return(t)
        /\ UNCHANGED <<bits, held, out, close, past>>

\* Without an active child the group is complete.
MergeDone(t) ==
    LET g == th[t].obj
    IN  /\ th[t].at = "link" /\ th[t].todo = {}
        /\ row' = IF row[g].remaining > 0 THEN row
                  ELSE [row EXCEPT ![g].done = TRUE,
                                   ![g].state = IF @ \in Failed THEN @ ELSE "success"]
        /\ lock' = [lock EXCEPT ![g] = Free]
        /\ Return(t)
        /\ UNCHANGED <<bits, held, out, close, past>>

Merge(t) ==
    \/ MergeFull(t) \/ MergeLock(t) \/ MergeError(t) \/ MergeDone(t)
    \/ \E o \in Rows : \/ MergeCheck(t, o) \/ MergeBit(t, o) \/ MergeLink(t, o)
                       \/ MergeFail(t, o) \/ MergeUndo(t, o)

-----------------------------------------------------------------------------
(* cam_sync_destroy, that is cam_sync_deinit_object.                       *)

\* The object is invalid from now on; its links are kept aside.
Destroy(a, o) ==
    /\ Unlocked(o) /\ Valid(o)
    /\ row' = [row EXCEPT ![o] = ClearRow]
    /\ th' = [th EXCEPT ![a] = [IdleThread EXCEPT !.at = "unlink", !.obj = o,
                                  !.todo = row[o].children, !.objs = row[o].parents]]

DestroyObj(t, o) ==
    /\ Idle(t) /\ Destroy(t, o)
    /\ UNCHANGED <<bits, lock, held, out, close, past>>

DestroyChildKeep(a, c) ==               \* slip: the link to the group stays
    /\ th[a].at = "unlink" /\ c \in th[a].todo /\ Unlocked(c)
    /\ th' = [th EXCEPT ![a].todo = @ \ {c}]
    /\ UNCHANGED <<row, bits, lock, held, out, close, past>>

\* The children first, then the parents.
DestroyChild(a, c) ==
    /\ th[a].at = "unlink" /\ c \in th[a].todo /\ Unlocked(c)
    /\ row' = IF Valid(c) THEN [row EXCEPT ![c].parents = @ \ {th[a].obj}] ELSE row
    /\ th' = [th EXCEPT ![a].todo = @ \ {c}]
    /\ UNCHANGED <<bits, lock, held, out, close, past>>

DestroyParent(a, p) ==
    /\ th[a].at = "unlink" /\ th[a].todo = {} /\ p \in th[a].objs /\ Unlocked(p)
    /\ row' = IF Valid(p) THEN [row EXCEPT ![p].children = @ \ {th[a].obj}] ELSE row
    /\ th' = [th EXCEPT ![a].objs = @ \ {p}]
    /\ UNCHANGED <<bits, lock, held, out, close, past>>

DestroyFree(a) ==
    LET o == th[a].obj
    IN  /\ th[a].at = "unlink" /\ th[a].todo \union th[a].objs = {} /\ Unlocked(o)
        /\ bits' = bits \ {o}
        /\ Return(a)
        /\ UNCHANGED <<row, lock, held, out, close, past>>

DestroySteps(a) ==
    \/ DestroyFree(a)
    \/ \E o \in Rows : DestroyChild(a, o) \/ DestroyParent(a, o)

-----------------------------------------------------------------------------
(* cam_sync_close, with drivers still at work, and cam_sync_open.          *)

CloseStart ==
    /\ Closable /\ close.phase = "open"
    /\ close' = [phase |-> "signal", rest |-> Rows]
    /\ UNCHANGED <<row, bits, lock, th, held, out, past>>

CloseSignal(o) ==
    /\ close.phase = "signal" /\ o \in close.rest /\ Idle(Closer)
    /\ IF row[o].state = "active" THEN Signal(Closer, o, "error") ELSE UNCHANGED <<row, th, out>>
    /\ close' = [close EXCEPT !.rest = @ \ {o}]
    /\ UNCHANGED <<bits, lock, held, past>>

\* The worker is flushed.
CloseFlush ==
    /\ close.phase = "signal" /\ close.rest = {} /\ Idle(Closer)
    /\ out = {}
    /\ close' = [phase |-> "sweep", rest |-> Rows]
    /\ UNCHANGED <<row, bits, lock, th, held, out, past>>

CloseDestroy(o) ==
    /\ close.phase = "sweep" /\ o \in close.rest /\ Idle(Closer)
    /\ IF Valid(o) THEN Destroy(Closer, o) ELSE UNCHANGED <<row, th>>
    /\ close' = [close EXCEPT !.rest = @ \ {o}]
    /\ UNCHANGED <<bits, lock, held, out, past>>

\* The event queue goes away.
CloseEnd ==
    /\ close.phase = "sweep" /\ close.rest = {} /\ Idle(Closer)
    /\ close' = [close EXCEPT !.phase = "closed"]
    /\ UNCHANGED <<row, bits, lock, th, held, out, past>>

Open ==
    /\ close.phase = "closed"
    /\ close' = [close EXCEPT !.phase = "open"]
    /\ UNCHANGED <<row, bits, lock, th, held, out, past>>

-----------------------------------------------------------------------------
\* The rest of a call, of whatever kind.
GoOn(a) == (\E p \in Rows : SignalParent(a, p)) \/ DestroySteps(a)

\* The rest of the close.
Closing ==
    \/ CloseFlush \/ CloseEnd \/ GoOn(Closer)
    \/ \E o \in Rows : CloseSignal(o) \/ CloseDestroy(o)

Next ==
    \/ \E t \in Threads :
          \/ CreateInit(t) \/ Merge(t) \/ GoOn(t)
          \/ \E S \in SUBSET Rows : MergeStart(t, S)
          \/ \E o \in Rows : CreateBit(t, o) \/ DestroyObj(t, o)
          \/ \E d \in Drivers, s \in Statuses : SignalObj(t, d, s)
    \/ \E d \in Drivers : PutRef(d) \/ \E o \in Rows : GetRef(d, o)
    \/ \E o \in Rows : \/ RegisterCallback(o) \/ RegisterPayload(o)
                       \/ DeregisterCallback(o) \/ DeregisterPayload(o)
    \/ \E n \in out : Deliver(n)
    \/ CloseStart \/ Closing \/ Open

Spec == Init /\ [][Next]_vars

\* A thread inside a call goes on; the spinlocks are granted in the order of
\* arrival.  Nobody has to call, and no callback has to run.
Fairness == \A t \in Threads : SF_vars(CreateInit(t) \/ Merge(t) \/ GoOn(t))
FairSpec == Spec /\ Fairness

\* Callers that take care, to which nothing in the code obliges them: nobody
\* destroys an object that is being merged, has a driver or is still to be told,
\* groups are not merged, and there is memory for the links.  No merge fails then,
\* and no message or reference meets another object.
InUse(o) ==
    \/ Telling(o) # {} \/ \E d \in Drivers : held[d] = o
    \/ \E t \in Threads : Merging(t) /\ o \in th[t].objs
Careful ==
    /\ \A o \in Rows : InUse(o) => Valid(o)
    /\ \A t \in Threads : /\ th[t].at # "undo"
                          /\ Merging(t) => \A o \in th[t].objs : row[o].type = "indv"
CarefulSpec == Init /\ [][Next /\ Careful']_vars /\ Fairness

-----------------------------------------------------------------------------
(* Correctness.                                                            *)

Linked(g) == {c \in Rows : g \in row[c].parents}

\* A group counts every child that has still to signal and every signal that
\* is still on its way to the group, so that it cannot complete before them
\* (cam_sync_util.c:403), through failing merges, destructions and the close;
\* unless a signal meant for an earlier object of the row was taken for one of
\* its own (cam_sync.c:345), from which on nothing is claimed (README, 7).
GroupWaits ==
    \A g \in Rows \ spoilt :
        Valid(g) => row[g].remaining >= Cardinality(Linked(g)) + Cardinality(Coming(g))

\* The same of every group.  It does not hold (README, 7).
GroupAlwaysWaits ==
    \A g \in Rows :
        Valid(g) => row[g].remaining >= Cardinality(Linked(g)) + Cardinality(Coming(g))

\* Whoever registers or waits is served, however the registration races with
\* the signal: a complete object has no callback left, its completion is set
\* and no group still waits for it (cam_sync.c:173).
NobodyForgotten ==
    \A o \in Rows :
        Ended(o) /\ Unlocked(o) => row[o].done /\ "kernel" \notin row[o].cbs /\ row[o].parents = {}

\* Callbacks are queued when the object and all its children have signaled,
\* with the status of the object (cam_sync.c:359).
CallbackAtEnd ==
    [][\A n \in out' \ out : row'[n.obj].remaining = 0 /\ row'[n.obj].state = n.status]_vars

\* A payload is kept until the object has signaled (uapi cam_sync.h:24, "opaque
\* payload sent to kernel for safekeeping until signal time"): it is sent at once
\* if the state is a final one, which should mean that the object is complete.  It
\* does not hold: a group has the state of its first child (README, 7).
PayloadAtEnd ==
    \A o \in Rows : Unlocked(o) /\ row[o].state \in Signaled => row[o].remaining = 0

\* A failure is final: no later child, signal or merge turns it into a success
\* (cam_sync_util.c:814).
FailureSticks ==
    [][\A o \in Rows : row[o].state \in Failed => row'[o].state \in Failed \union {"invalid"}]_vars

\* The close signals every object before it destroys them (cam_sync.c:2484,
\* "Signal all ACTIVE objects as ERR").  It does not hold: a signal with other
\* references left changes nothing (README, 7).
CloseSignalsAll ==
    close.phase = "signal" /\ close.rest = {} /\ Idle(Closer)
        => \A o \in Rows : row[o].state # "active"

\* Every call returns and leaves no row locked, so that who waits for a row gets
\* it, when callers take care: merges that hold the rows of their groups and take
\* those of the same children in any order do not wait for each other, nor for those
\* who destroy (cam_sync_util.c:377; cam_sync_api.h:100, "@return Status of operation").
Outside(t) == Idle(t) /\ \A o \in Rows : lock[o] # t
CallsReturn == \A t \in Threads : ~Outside(t) ~> Outside(t)

\* When callers take care, a group all of whose missing signals are on their way
\* completes, also when its children belong to a second group, which is merged or
\* destroyed meanwhile.
GroupsEnd ==
    \A g \in Rows :
        (Unlocked(g) /\ Telling(g) # {} /\ row[g].remaining = Cardinality(Telling(g)))
            ~> (Ended(g) \/ ~Valid(g))
=============================================================================

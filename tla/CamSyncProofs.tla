--------------------------- MODULE CamSyncProofs ---------------------------
(***************************************************************************)
(* Proofs about the sync objects of the camera driver, for any finite      *)
(* numbers of rows and threads, merges that fail and a device that is      *)
(* closed and opened again included.                                       *)
(***************************************************************************)
EXTENDS CamSync, FiniteSetTheorems, TLAPS

RowRec == [state : Signaled \union {"invalid", "active"},
           type : {"indv", "group"}, remaining : Nat, ref : Int,
           children : SUBSET Rows, parents : SUBSET Rows,
           cbs : SUBSET Kinds, done : BOOLEAN]
ThreadRec == [at : {"idle", "create", "check", "bit", "lock", "link",
                    "undo", "parents", "unlink"},
              obj : Rows \union {NoRow}, todo : SUBSET Rows,
              objs : SUBSET Rows, status : Signaled]

\* The types.
BaseType ==
    /\ row \in [Rows -> RowRec] /\ bits \subseteq Rows
    /\ lock \in [Rows -> Actors \union {Free}]
    /\ th \in [Actors -> ThreadRec]
    /\ held \in [Drivers -> Rows \union {NoRow}]
    /\ out \subseteq [obj : Rows, status : Signaled]
    /\ close \in [phase : {"open", "signal", "sweep", "closed"}, rest : SUBSET Rows]
    /\ stale \in [Rows -> SUBSET Actors] /\ spoilt \subseteq Rows

\* An actor that creates, merges or destroys the object of its row.
Owner(a) == th[a].at \in {"create", "lock", "link", "undo", "unlink"}

\* A row has one owner at a time, and its bit is set as long.  The object is valid
\* for others after the creation and before the destruction, and for the owner of
\* a group while it links the children, under the lock of the row.
OwnInv ==
    /\ \A a \in Actors : Owner(a) =>
          /\ th[a].obj \in bits
          /\ IF th[a].at = "link"
             THEN /\ Valid(th[a].obj) /\ row[th[a].obj].type = "group"
                  /\ row[th[a].obj].cbs = {} /\ lock[th[a].obj] = a
             ELSE ~Valid(th[a].obj)
    /\ \A a, b \in Actors : Owner(a) /\ Owner(b) /\ th[a].obj = th[b].obj => a = b
    /\ \A o \in Rows : Valid(o) =>
          /\ o \in bits
          /\ lock[o] # Free => th[lock[o]].at = "link" /\ th[lock[o]].obj = o

\* A row without object is clear, only groups have children, and an object with
\* parents can still signal, unless a signal for an earlier object of its row
\* changed its state.  Such signals make the count of an individual object wrap
\* around, and there are too few of them to bring it back to zero.
RowInv ==
    \A o \in Rows :
        /\ ~Valid(o) => row[o] = ClearRow
        /\ row[o].children # {} => row[o].type = "group"
        /\ row[o].parents # {} =>
              row[o].type = "indv" /\ (row[o].state = "active" \/ row[o].remaining # 0)
        /\ row[o].type = "indv" =>
              \/ row[o].remaining = 0
              \/ /\ row[o].state # "active"
                 /\ row[o].remaining + Cardinality(Actors) >= Wrap + Cardinality(stale[o])

\* Signals on their way are for groups, but for those for earlier objects.
TellInv ==
    \A p \in Rows : /\ stale[p] \subseteq Telling(p)
                    /\ Valid(p) /\ Coming(p) # {} => row[p].type = "group"

\* The links between groups and children: a group knows its children, and one that
\* is destroyed, or not completed by its merge, still has to be taken off theirs.
LinkInv ==
    /\ \A g, c \in Rows : g \in row[c].parents =>
          IF Valid(g) THEN c \in row[g].children
          ELSE \E a \in Actors : /\ th[a].at \in {"undo", "unlink"} /\ th[a].obj = g
                                 /\ c \in th[a].todo
    /\ \A a \in Actors : th[a].at \in {"lock", "link"} => th[a].todo \subseteq th[a].objs
    /\ \A a \in Actors : th[a].at = "link" =>
          Linked(th[a].obj) \subseteq th[a].objs \ th[a].todo

\* A complete object has called back.
ServedInv ==
    \A o \in Rows : Ended(o) /\ Unlocked(o) => row[o].done /\ "kernel" \notin row[o].cbs

\* The inductive invariant.
SyncInv == BaseType /\ OwnInv /\ RowInv /\ LinkInv /\ TellInv /\ GroupWaits /\ ServedInv

-----------------------------------------------------------------------------
(* The kinds of steps, by what they do to rows, bits, locks and actors.    *)

SameLinks(o) ==
    /\ row'[o].state = row[o].state /\ row'[o].type = row[o].type
    /\ row'[o].remaining = row[o].remaining
    /\ row'[o].children = row[o].children /\ row'[o].parents = row[o].parents
OtherRows(S) == \A o \in Rows : o \notin S => row'[o] = row[o]
OtherActors(a) == \A b \in Actors : b # a => th'[b] = th[b]
SameTable == UNCHANGED <<bits, lock, past>>
Bystander(x) == x.at \in {"idle", "check", "bit"}

\* References, registrations, threads outside the critical parts, the close.
Quiet ==
    /\ SameTable
    /\ \A o \in Rows : /\ SameLinks(o)
                       /\ ~Valid(o) => row'[o] = row[o]
                       /\ lock[o] # Free => row'[o].cbs = row[o].cbs
                       /\ Ended(o) => /\ row'[o].done = row[o].done
                                      /\ row'[o].cbs \subseteq row[o].cbs
    /\ \A a \in Actors : th'[a] = th[a] \/ (Bystander(th[a]) /\ Bystander(th'[a]))

\* An actor takes a bit: CreateBit, MergeBit.
TakeBit(a, o) ==
    /\ o \notin bits /\ bits' = bits \union {o} /\ UNCHANGED <<row, lock, past>>
    /\ Bystander(th[a]) /\ OtherActors(a)
    /\ th'[a].at \in {"create", "lock"} /\ th'[a].obj = o
    /\ th'[a].at = "lock" => th'[a].todo = th'[a].objs

\* An actor fills its row: CreateInit, MergeLock.
Fill(a) ==
    LET o == th[a].obj
    IN  /\ th[a].at \in {"create", "lock"} /\ Unlocked(o)
        /\ OtherRows({o}) /\ UNCHANGED bits /\ OtherActors(a)
        /\ stale' = [stale EXCEPT ![o] = Telling(o)] /\ spoilt' = spoilt \ {o}
        /\ \/ row'[o] = NewRow("indv") /\ th'[a].at = "idle" /\ UNCHANGED lock
           \/ /\ row'[o] = NewRow("group") /\ lock' = [lock EXCEPT ![o] = a]
              /\ th[a].at = "lock" /\ th'[a].at = "link" /\ th'[a].obj = o
              /\ th'[a].todo = th[a].todo /\ th'[a].objs = th[a].objs

\* A merge links a child, or takes its status.
LinkChild(a, c) ==
    LET g == th[a].obj
    IN  /\ th[a].at = "link" /\ c \in th[a].todo /\ Unlocked(c)
        /\ Valid(c) /\ row[c].type = "indv"
        /\ SameTable /\ OtherActors(a)
        /\ th'[a].at = "link" /\ th'[a].obj = g /\ th'[a].objs = th[a].objs
        /\ th'[a].todo = th[a].todo \ {c}
        /\ \/ row[c].state = "success" /\ row' = row
           \/ /\ row[c].state \in Failed /\ OtherRows({g})
              /\ row'[g] = [row[g] EXCEPT !.state = row[c].state]
           \/ /\ row[c].state = "active" /\ OtherRows({g, c})
              /\ row'[g] = [row[g] EXCEPT !.remaining = row[g].remaining + 1,
                                          !.children = row[g].children \union {c}]
              /\ row'[c] = [row[c] EXCEPT !.parents = row[c].parents \union {g}]

\* A merge fails.
FailMerge(a) ==
    LET g == th[a].obj
    IN  /\ th[a].at = "link" /\ SameTable /\ OtherActors(a)
        /\ OtherRows({g}) /\ row'[g] = ClearRow
        /\ th'[a].at = "undo" /\ th'[a].obj = g /\ th'[a].todo = th[a].objs \ th[a].todo

\* A merge is done.
EndMerge(a) ==
    LET g == th[a].obj
    IN  /\ th[a].at = "link" /\ OtherActors(a) /\ th'[a].at = "idle"
        /\ lock' = [lock EXCEPT ![g] = Free] /\ UNCHANGED <<bits, past>> /\ OtherRows({g})
        /\ row'[g] = IF row[g].remaining > 0 THEN row[g]
                     ELSE [row[g] EXCEPT !.done = TRUE,
                                         !.state = IF row[g].state \in Failed
                                                   THEN row[g].state ELSE "success"]

\* A group is taken off a child: MergeUndo, DestroyChild.
UnlinkChild(a, c) ==
    /\ th[a].at \in {"undo", "unlink"} /\ c \in th[a].todo /\ SameTable /\ OtherActors(a)
    /\ th'[a].at = th[a].at /\ th'[a].obj = th[a].obj
    /\ th'[a].todo = th[a].todo \ {c}
    /\ OtherRows({c})
    /\ row'[c] = IF Valid(c) THEN [row[c] EXCEPT !.parents = row[c].parents \ {th[a].obj}]
                 ELSE row[c]

\* A child is taken off a group.
UnlinkParent(a, p) ==
    /\ th[a].at = "unlink" /\ SameTable /\ OtherActors(a)
    /\ th'[a].at = th[a].at /\ th'[a].obj = th[a].obj /\ th'[a].todo = th[a].todo
    /\ OtherRows({p})
    /\ row'[p] = IF Valid(p) THEN [row[p] EXCEPT !.children = row[p].children \ {th[a].obj}]
                 ELSE row[p]

\* A bit is cleared: MergeError, DestroyFree.
DropBit(a) ==
    /\ th[a].at \in {"undo", "unlink"} /\ th[a].todo = {}
    /\ bits' = bits \ {th[a].obj} /\ UNCHANGED <<row, lock, past>>
    /\ OtherActors(a) /\ th'[a].at = "idle"

\* The last reference signals an object.
Finish(a, o) ==
    /\ Idle(a) /\ Unlocked(o) /\ row[o].state = "active" /\ row[o].type = "indv"
    /\ SameTable /\ OtherRows({o}) /\ OtherActors(a)
    /\ row'[o].state \in Signaled /\ row'[o].type = "indv"
    /\ row'[o].remaining = row[o].remaining /\ row'[o].children = row[o].children
    /\ row'[o].parents = {} /\ row'[o].done = TRUE /\ "kernel" \notin row'[o].cbs
    /\ IF row[o].parents = {} THEN th'[a] = th[a]
       ELSE th'[a].at = "parents" /\ th'[a].todo = row[o].parents

\* A parent is told.
TellParent(a, p) ==
    /\ th[a].at = "parents" /\ p \in th[a].todo /\ Unlocked(p)
    /\ UNCHANGED <<bits, lock>> /\ OtherRows({p}) /\ OtherActors(a)
    /\ stale' = [stale EXCEPT ![p] = stale[p] \ {a}]
    /\ spoilt' = IF a \in stale[p] /\ Valid(p) THEN spoilt \union {p} ELSE spoilt
    /\ \/ th'[a].at = "parents" /\ th'[a].todo = th[a].todo \ {p}
       \/ th[a].todo = {p} /\ th'[a].at = "idle"
    /\ IF Valid(p)
       THEN /\ row'[p].state = UpdateParentState(row[p].state, th[a].status)
            /\ row'[p].type = row[p].type /\ row'[p].remaining = Decrement(row[p].remaining)
            /\ row'[p].children = row[p].children /\ row'[p].parents = row[p].parents
            /\ row[p].remaining = 1 => row'[p].done = TRUE /\ "kernel" \notin row'[p].cbs
       ELSE row'[p] = row[p]

\* An object becomes invalid.
Destroyed(a, o) ==
    /\ Idle(a) /\ Unlocked(o) /\ Valid(o)
    /\ SameTable /\ OtherRows({o}) /\ row'[o] = ClearRow /\ OtherActors(a)
    /\ th'[a].at = "unlink" /\ th'[a].obj = o /\ th'[a].todo = row[o].children

StepKind ==
    \/ Quiet
    \/ \E a \in Actors : \/ Fill(a) \/ FailMerge(a) \/ EndMerge(a) \/ DropBit(a)
                         \/ \E o \in Rows : \/ TakeBit(a, o) \/ LinkChild(a, o)
                                            \/ UnlinkChild(a, o) \/ UnlinkParent(a, o)
                                            \/ Finish(a, o) \/ TellParent(a, o)
                                            \/ Destroyed(a, o)

\* The fields of clear and new rows and of idle actors.
LEMMA Constants ==
    /\ ClearRow.state = "invalid" /\ ClearRow.parents = {} /\ ClearRow.remaining = 0
    /\ ClearRow.type = "indv" /\ ClearRow.children = {} /\ ClearRow \in RowRec
    /\ \A ty \in {"indv", "group"} :
          /\ NewRow(ty).state = "active" /\ NewRow(ty).parents = {}
          /\ NewRow(ty).remaining = 0 /\ NewRow(ty).type = ty /\ NewRow(ty).children = {}
          /\ NewRow(ty).cbs = {} /\ NewRow(ty) \in RowRec
    /\ IdleThread.at = "idle" /\ IdleThread.todo = {} /\ IdleThread.objs = {}
    /\ IdleThread \in ThreadRec
<1>1. \A ty \in {"indv", "group"} :
          /\ NewRow(ty).state = "active" /\ NewRow(ty).parents = {}
          /\ NewRow(ty).remaining = 0 /\ NewRow(ty).type = ty /\ NewRow(ty).children = {}
          /\ NewRow(ty).cbs = {} /\ NewRow(ty) \in RowRec
  BY DEF NewRow, RowRec
<1>2. /\ ClearRow.state = "invalid" /\ ClearRow.parents = {} /\ ClearRow.remaining = 0
      /\ ClearRow.type = "indv" /\ ClearRow.children = {}
  BY DEF ClearRow, NewRow
<1>3. ClearRow \in RowRec
  <2>1. \A r \in RowRec : [r EXCEPT !.state = "invalid", !.done = TRUE] \in RowRec
    BY DEF RowRec
  <2> QED
    BY <1>1, <2>1 DEF ClearRow
<1>4. /\ IdleThread.at = "idle" /\ IdleThread.todo = {} /\ IdleThread.objs = {}
      /\ IdleThread \in ThreadRec
  BY DEF IdleThread, ThreadRec, Signaled
<1> QED
  BY <1>1, <1>2, <1>3, <1>4

\* Threads are actors.
LEMMA ThreadActor == Threads \subseteq Actors /\ Closer \in Actors
BY DEF Actors

\* A signal finishes the object or only takes a reference.
LEMMA SignalKind ==
    ASSUME BaseType, NEW a \in Actors, NEW o \in Rows, NEW s \in Signaled,
           Signal(a, o, s), Idle(a), SameTable
    PROVE  Quiet \/ Finish(a, o)
<1>1. CASE row[o].state # "active" \/ row[o].type = "group"
  <2>1. row' = row /\ th' = th
    BY <1>1 DEF Signal
  <2> QED
    BY <2>1 DEF Quiet, SameLinks
<1>2. CASE row[o].state = "active" /\ row[o].type # "group" /\ row[o].ref # 1
  <2>1. row' = [row EXCEPT ![o].ref = @ - 1] /\ th' = th
    BY <1>2 DEF Signal
  <2> QED
    BY <1>2, <2>1 DEF Quiet, SameLinks, BaseType, RowRec, Valid, Ended
<1>3. CASE row[o].state = "active" /\ row[o].type # "group" /\ row[o].ref = 1
  <2>1. /\ row' = [row EXCEPT ![o] = [Dispatch(row[o], o) EXCEPT
                                            !.ref = 0, !.state = s, !.parents = {}]]
        /\ th' = IF row[o].parents = {} THEN th
                     ELSE [th EXCEPT ![a] = [IdleThread EXCEPT !.at = "parents",
                                               !.todo = row[o].parents, !.status = s]]
        /\ Unlocked(o)
    BY <1>3 DEF Signal
  <2>2. row[o].type = "indv" /\ row[o] \in RowRec
    BY <1>3 DEF BaseType, RowRec
  <2>3. Finish(a, o)
    BY <1>3, <2>1, <2>2 DEF Finish, Dispatch, Served, BaseType, RowRec, ThreadRec, IdleThread,
       OtherRows, OtherActors
  <2> QED
    BY <2>3
<1> QED
  BY <1>1, <1>2, <1>3

\* Every step is of one of these kinds.
LEMMA StepKinds ==
    ASSUME BaseType, OwnInv, [Next]_vars
    PROVE  StepKind
<1>0. \A a \in Actors : Owner(a) => th[a].obj \in Rows
  BY DEF BaseType, OwnInv
<1>1. ASSUME NEW t \in Threads, CreateInit(t) PROVE StepKind
  <2>1. Fill(t)
    BY <1>1, <1>0, ThreadActor, Constants DEF CreateInit, Reused, Fill, Return, Owner,
       BaseType, RowRec, ThreadRec, OtherActors, OtherRows, SameTable
  <2> QED
    BY <2>1, ThreadActor DEF StepKind
<1>2. ASSUME NEW t \in Threads, MergeFull(t) PROVE StepKind
  <2>1. Quiet
    BY <1>2, <1>0, ThreadActor, Constants DEF MergeFull, Return, Quiet, Bystander,
       SameLinks, Owner, BaseType, RowRec, ThreadRec, OtherActors, OtherRows, SameTable
  <2> QED
    BY <2>1, ThreadActor DEF StepKind
<1>3. ASSUME NEW t \in Threads, MergeLock(t) PROVE StepKind
  <2>1. Fill(t)
    BY <1>3, <1>0, ThreadActor, Constants DEF MergeLock, Reused, Fill, Owner, BaseType, RowRec,
       ThreadRec, OtherActors, OtherRows, SameTable
  <2> QED
    BY <2>1, ThreadActor DEF StepKind
<1>4. ASSUME NEW t \in Threads, MergeError(t) PROVE StepKind
  <2>1. DropBit(t)
    BY <1>4, <1>0, ThreadActor, Constants DEF MergeError, DropBit, Return, Owner,
       BaseType, RowRec, ThreadRec, OtherActors, OtherRows, SameTable
  <2> QED
    BY <2>1, ThreadActor DEF StepKind
<1>5. ASSUME NEW t \in Threads, MergeDone(t) PROVE StepKind
  <2>1. EndMerge(t)
    <3>1. t \in Actors /\ th[t].at = "link" /\ th[t].obj \in Rows
      BY <1>5, <1>0, ThreadActor DEF MergeDone, Owner
    <3>2. OtherActors(t) /\ th'[t].at = "idle"
      BY <1>5, <3>1, Constants DEF MergeDone, Return, BaseType, OtherActors
    <3>3. /\ OtherRows({th[t].obj})
          /\ row'[th[t].obj] = IF row[th[t].obj].remaining > 0 THEN row[th[t].obj]
                               ELSE [row[th[t].obj] EXCEPT
                                        !.done = TRUE,
                                        !.state = IF row[th[t].obj].state \in Failed
                                                  THEN row[th[t].obj].state ELSE "success"]
      BY <1>5, <3>1 DEF MergeDone, BaseType, RowRec, OtherRows
    <3> QED
      BY <1>5, <3>1, <3>2, <3>3 DEF MergeDone, EndMerge
  <2> QED
    BY <2>1, ThreadActor DEF StepKind
<1>6. ASSUME NEW t \in Threads, NEW o \in Rows, MergeCheck(t, o) PROVE StepKind
  <2>1. Quiet
    BY <1>6, <1>0, ThreadActor, Constants DEF MergeCheck, Return, Quiet, Bystander,
       SameLinks, Owner, BaseType, RowRec, ThreadRec, OtherActors, OtherRows, SameTable
  <2> QED
    BY <2>1, ThreadActor DEF StepKind
<1>7. ASSUME NEW t \in Threads, NEW o \in Rows, MergeBit(t, o) PROVE StepKind
  <2>1. TakeBit(t, o)
    BY <1>7, <1>0, ThreadActor, Constants DEF MergeBit, TakeBit, Bystander, Owner,
       BaseType, RowRec, ThreadRec, OtherActors, OtherRows, SameTable
  <2> QED
    BY <2>1, ThreadActor DEF StepKind
<1>8. ASSUME NEW t \in Threads, NEW o \in Rows, MergeLink(t, o) PROVE StepKind
  <2> DEFINE g == th[t].obj
  <2>1. /\ th[t].at = "link" /\ g \in Rows /\ lock[g] = t /\ t # Free /\ t \in Actors
    <3>1. t \in Actors /\ t # Free
      BY ThreadActor, SyncAssumption DEF Actors
    <3>2. th[t].at = "link" /\ Owner(t)
      BY <1>8 DEF MergeLink, Owner
    <3> QED
      BY <1>0, <3>1, <3>2 DEF OwnInv
  <2>2. o # g
    BY <1>8, <2>1 DEF MergeLink, Unlocked
  <2>3. /\ o \in th[t].todo /\ Unlocked(o) /\ Valid(o) /\ row[o].type = "indv"
        /\ bits' = bits /\ lock' = lock /\ past' = past
        /\ row' = IF row[o].state \in Failed
                  THEN [row EXCEPT ![g].state = row[o].state]
                  ELSE IF row[o].state = "success" THEN row
                  ELSE [row EXCEPT ![g].remaining = @ + 1,
                                   ![g].children = @ \union {o},
                                   ![o].parents = @ \union {g}]
        /\ th' = [th EXCEPT ![t].todo = @ \ {o}]
    BY <1>8 DEF MergeLink
  <2>4. /\ OtherActors(t) /\ th'[t].at = "link" /\ th'[t].obj = g
        /\ th'[t].objs = th[t].objs /\ th'[t].todo = th[t].todo \ {o}
    BY <2>1, <2>3 DEF BaseType, ThreadRec, OtherActors
  <2>5. row[o].state \in {"active", "success"} \union Failed
    BY <2>3 DEF BaseType, RowRec, Valid, Signaled
  <2> HIDE DEF g
  <2>6. CASE row[o].state \in Failed
    <3>1. OtherRows({g}) /\ row'[g] = [row[g] EXCEPT !.state = row[o].state]
      BY <2>1, <2>3, <2>6 DEF BaseType, OtherRows
    <3> QED
      BY <2>1, <2>3, <2>4, <2>6, <3>1 DEF LinkChild, StepKind, SameTable, g
  <2>7. CASE row[o].state = "success"
    <3>1. row' = row
      BY <2>3, <2>7 DEF Failed
    <3> QED
      BY <2>1, <2>3, <2>4, <2>7, <3>1 DEF LinkChild, StepKind, SameTable, g
  <2>8. CASE row[o].state = "active"
    <3>1. /\ OtherRows({g, o})
          /\ row'[g] = [row[g] EXCEPT !.remaining = row[g].remaining + 1,
                                      !.children = row[g].children \union {o}]
          /\ row'[o] = [row[o] EXCEPT !.parents = row[o].parents \union {g}]
      BY <2>1, <2>2, <2>3, <2>8 DEF BaseType, OtherRows, Failed
    <3> QED
      BY <2>1, <2>3, <2>4, <2>8, <3>1 DEF LinkChild, StepKind, SameTable, g
  <2> QED
    BY <2>5, <2>6, <2>7, <2>8
<1>9. ASSUME NEW t \in Threads, NEW o \in Rows, MergeFail(t, o) PROVE StepKind
  <2>1. FailMerge(t)
    BY <1>9, <1>0, ThreadActor, Constants DEF MergeFail, FailMerge, Owner, BaseType,
       RowRec, ThreadRec, OtherActors, OtherRows, SameTable
  <2> QED
    BY <2>1, ThreadActor DEF StepKind
<1>10. ASSUME NEW t \in Threads, NEW o \in Rows, MergeUndo(t, o) PROVE StepKind
  <2>1. UnlinkChild(t, o)
    BY <1>10, <1>0, ThreadActor, Constants DEF MergeUndo, UnlinkChild, Owner, BaseType,
       RowRec, ThreadRec, OtherActors, OtherRows, SameTable
  <2> QED
    BY <2>1, ThreadActor DEF StepKind
<1>11. ASSUME NEW t \in Threads, NEW S \in SUBSET Rows, MergeStart(t, S) PROVE StepKind
  <2>1. Quiet
    BY <1>11, <1>0, ThreadActor, Constants DEF MergeStart, Idle, Quiet, Bystander,
       SameLinks, IdleThread, Owner, BaseType, RowRec, ThreadRec, OtherActors,
          OtherRows, SameTable
  <2> QED
    BY <2>1, ThreadActor DEF StepKind
<1>12. ASSUME NEW t \in Threads, NEW o \in Rows, CreateBit(t, o) PROVE StepKind
  <2>1. TakeBit(t, o)
    BY <1>12, <1>0, ThreadActor, Constants DEF CreateBit, TakeBit, Idle, Bystander,
       IdleThread, Owner, BaseType, RowRec, ThreadRec, OtherActors, OtherRows, SameTable
  <2> QED
    BY <2>1, ThreadActor DEF StepKind
<1>13. ASSUME NEW t \in Threads, NEW o \in Rows, DestroyObj(t, o) PROVE StepKind
  <2>1. Destroyed(t, o)
    BY <1>13, <1>0, ThreadActor, Constants DEF DestroyObj, Destroy, Destroyed,
       IdleThread, Owner, BaseType, RowRec, ThreadRec, OtherActors, OtherRows, SameTable
  <2> QED
    BY <2>1, ThreadActor DEF StepKind
<1>14. ASSUME NEW t \in Threads, NEW d \in Drivers, NEW s \in Statuses, SignalObj(t, d, s)
       PROVE  StepKind
  <2>1. Signal(t, held[d], s) /\ Idle(t) /\ SameTable /\ held[d] \in Rows
    BY <1>14 DEF SignalObj, SameTable, BaseType
  <2>2. s \in Signaled
    BY SyncAssumption DEF Signaled, Failed
  <2> QED
    BY <2>1, <2>2, ThreadActor, SignalKind DEF StepKind
<1>15. ASSUME NEW a \in Actors, NEW o \in Rows, SignalParent(a, o) PROVE StepKind
  <2>1. /\ th[a].at = "parents" /\ o \in th[a].todo /\ Unlocked(o) /\ UNCHANGED <<bits, lock>>
        /\ stale' = [stale EXCEPT ![o] = stale[o] \ {a}]
        /\ spoilt' = IF a \in stale[o] /\ Valid(o) THEN spoilt \union {o} ELSE spoilt
    BY <1>15 DEF SignalParent, Told
  <2>2. /\ OtherActors(a)
        /\ \/ th'[a].at = "parents" /\ th'[a].todo = th[a].todo \ {o}
           \/ th[a].todo = {o} /\ th'[a].at = "idle"
    <3>1. CASE th[a].todo = {o}
      BY <1>15, <3>1, Constants DEF SignalParent, Done, Return, BaseType, OtherActors
    <3>2. CASE th[a].todo # {o}
      BY <1>15, <2>1, <3>2 DEF SignalParent, Done, BaseType, ThreadRec, OtherActors
    <3> QED
      BY <3>1, <3>2
  <2>3. CASE ~Valid(o)
    BY <1>15, <2>1, <2>2, <2>3 DEF SignalParent, TellParent, OtherRows, StepKind
  <2>4. CASE Valid(o)
    <3> DEFINE u == UpdateParentState(row[o].state, th[a].status)
               r == [(IF row[o].remaining = 1 THEN Dispatch(row[o], o) ELSE row[o])
                        EXCEPT !.state = u, !.remaining = Decrement(@)]
    <3>1. row' = [row EXCEPT ![o] = r]
      BY <1>15, <2>4 DEF SignalParent
    <3>2. row[o] \in RowRec
      BY DEF BaseType
    <3>3. /\ r.state = u /\ r.type = row[o].type /\ r.remaining = Decrement(row[o].remaining)
          /\ r.children = row[o].children /\ r.parents = row[o].parents
          /\ row[o].remaining = 1 => r.done = TRUE /\ "kernel" \notin r.cbs
      <4>1. CASE row[o].remaining = 1
        BY <3>2, <4>1 DEF Dispatch, Served, RowRec
      <4>2. CASE row[o].remaining # 1
        BY <3>2, <4>2 DEF RowRec
      <4> QED
        BY <4>1, <4>2
    <3> HIDE DEF r
    <3>4. row'[o] = r /\ OtherRows({o})
      BY <3>1 DEF BaseType, OtherRows
    <3> QED
      BY <2>1, <2>2, <2>4, <3>3, <3>4 DEF TellParent, StepKind
  <2> QED
    BY <2>3, <2>4
<1>16. ASSUME NEW a \in Actors, DestroyFree(a) PROVE StepKind
  <2>1. DropBit(a)
    BY <1>16, <1>0, ThreadActor, Constants DEF DestroyFree, DropBit, Return, Owner,
       BaseType, RowRec, ThreadRec, OtherActors, OtherRows, SameTable
  <2> QED
    BY <2>1, ThreadActor DEF StepKind
<1>17. ASSUME NEW a \in Actors, NEW o \in Rows, DestroyChild(a, o) PROVE StepKind
  <2>1. UnlinkChild(a, o)
    BY <1>17, <1>0, ThreadActor, Constants DEF DestroyChild, UnlinkChild, Owner,
       BaseType, RowRec, ThreadRec, OtherActors, OtherRows, SameTable
  <2> QED
    BY <2>1, ThreadActor DEF StepKind
<1>18. ASSUME NEW a \in Actors, NEW o \in Rows, DestroyParent(a, o) PROVE StepKind
  <2>1. UnlinkParent(a, o)
    BY <1>18, <1>0, ThreadActor, Constants DEF DestroyParent, UnlinkParent, Owner,
       BaseType, RowRec, ThreadRec, OtherActors, OtherRows, SameTable
  <2> QED
    BY <2>1, ThreadActor DEF StepKind
<1>19. ASSUME NEW d \in Drivers, NEW o \in Rows, GetRef(d, o) PROVE StepKind
  <2>1. Quiet
    BY <1>19, <1>0, ThreadActor, Constants DEF GetRef, Quiet, SameLinks, Valid,
       Unlocked, Ended, Owner, BaseType, RowRec, ThreadRec, OtherActors, OtherRows,
          SameTable, Signaled, Failed
  <2> QED
    BY <2>1, ThreadActor DEF StepKind
<1>20. ASSUME NEW d \in Drivers, PutRef(d) PROVE StepKind
  <2>0. held[d] \in Rows
    BY <1>20 DEF PutRef, BaseType
  <2>1. Quiet
    BY <1>20, <1>0, <2>0, ThreadActor, Constants DEF PutRef, Quiet, SameLinks, Valid,
       Unlocked, Ended, Owner, BaseType, RowRec, ThreadRec, OtherActors, OtherRows,
          SameTable, Signaled, Failed
  <2> QED
    BY <2>1, ThreadActor DEF StepKind
<1>21. ASSUME NEW o \in Rows, RegisterCallback(o) PROVE StepKind
  <2>1. SameTable /\ th' = th
    BY <1>21 DEF RegisterCallback, SameTable
  <2>2. CASE Ended(o)
    BY <1>21, <2>1, <2>2 DEF RegisterCallback, StepKind, Quiet, SameLinks
  <2>3. CASE ~Ended(o)
    <3>1. row' = [row EXCEPT ![o].cbs = @ \union {"kernel"}] /\ Valid(o) /\ Unlocked(o)
      BY <1>21, <2>3 DEF RegisterCallback
    <3>2. \A x \in Rows : x # o => row'[x] = row[x]
      BY <3>1 DEF BaseType
    <3>3. SameLinks(o)
      BY <3>1 DEF BaseType, RowRec, SameLinks
    <3>4. \A x \in Rows : SameLinks(x)
      BY <3>2, <3>3 DEF SameLinks
    <3> QED
      BY <2>1, <2>3, <3>1, <3>2, <3>4 DEF StepKind, Quiet, Unlocked
  <2> QED
    BY <2>2, <2>3
<1>22. ASSUME NEW o \in Rows, RegisterPayload(o) PROVE StepKind
  <2>1. Quiet
    BY <1>22, <1>0, ThreadActor, Constants, SMTT(30) DEF RegisterPayload, Quiet, SameLinks,
       Valid, Unlocked, Ended, Owner, BaseType, RowRec, ThreadRec, OtherActors,
          OtherRows, SameTable, Signaled, Failed
  <2> QED
    BY <2>1, ThreadActor DEF StepKind
<1>23. ASSUME NEW o \in Rows, DeregisterCallback(o) \/ DeregisterPayload(o) PROVE StepKind
  <2>1. PICK k : /\ row' = [row EXCEPT ![o].cbs = @ \ {k}] /\ Valid(o) /\ Unlocked(o)
                 /\ SameTable /\ th' = th
    BY <1>23 DEF DeregisterCallback, DeregisterPayload, SameTable
  <2>2. Quiet
    BY <2>1 DEF Quiet, SameLinks, Valid, Unlocked, BaseType, RowRec
  <2> QED
    BY <2>2 DEF StepKind
<1>24. ASSUME NEW n \in out, Deliver(n) PROVE StepKind
  <2>1. Quiet
    BY <1>24, <1>0, ThreadActor, Constants DEF Deliver, Quiet, SameLinks, Valid,
       Unlocked, Ended, Owner, BaseType, RowRec, ThreadRec, OtherActors, OtherRows,
          SameTable, Signaled, Failed
  <2> QED
    BY <2>1, ThreadActor DEF StepKind
<1>25. ASSUME CloseStart PROVE StepKind
  <2>1. Quiet
    BY <1>25, <1>0, ThreadActor, Constants DEF CloseStart, Quiet, SameLinks, Valid,
       Unlocked, Ended, Owner, BaseType, RowRec, ThreadRec, OtherActors, OtherRows,
          SameTable, Signaled, Failed
  <2> QED
    BY <2>1, ThreadActor DEF StepKind
<1>26. ASSUME CloseFlush PROVE StepKind
  <2>1. Quiet
    BY <1>26, <1>0, ThreadActor, Constants DEF CloseFlush, Quiet, SameLinks, Valid,
       Unlocked, Ended, Owner, BaseType, RowRec, ThreadRec, OtherActors, OtherRows,
          SameTable, Signaled, Failed
  <2> QED
    BY <2>1, ThreadActor DEF StepKind
<1>27. ASSUME CloseEnd PROVE StepKind
  <2>1. Quiet
    BY <1>27, <1>0, ThreadActor, Constants DEF CloseEnd, Quiet, SameLinks, Valid,
       Unlocked, Ended, Owner, BaseType, RowRec, ThreadRec, OtherActors, OtherRows,
          SameTable, Signaled, Failed
  <2> QED
    BY <2>1, ThreadActor DEF StepKind
<1>28. ASSUME NEW o \in Rows, CloseSignal(o) PROVE StepKind
  <2>1. Idle(Closer) /\ SameTable
    BY <1>28 DEF CloseSignal, SameTable
  <2>2. CASE row[o].state = "active"
    <3>1. Signal(Closer, o, "error") /\ "error" \in Signaled
      BY <1>28, <2>2 DEF CloseSignal, Signaled, Failed
    <3> QED
      BY <2>1, <3>1, ThreadActor, SignalKind DEF StepKind
  <2>3. CASE row[o].state # "active"
    <3>1. row' = row /\ th' = th
      BY <1>28, <2>3 DEF CloseSignal
    <3> QED
      BY <2>1, <3>1 DEF StepKind, Quiet, SameLinks
  <2> QED
    BY <2>2, <2>3
<1>29. ASSUME NEW o \in Rows, CloseDestroy(o) PROVE StepKind
  <2>1. Idle(Closer) /\ SameTable
    BY <1>29 DEF CloseDestroy, SameTable
  <2>2. CASE Valid(o)
    <3>0. Destroy(Closer, o)
      BY <1>29, <2>2 DEF CloseDestroy
    <3>1. Destroyed(Closer, o)
      BY <3>0, <2>1, <2>2, ThreadActor, Constants DEF Destroy, Destroyed, SameTable,
         IdleThread, BaseType, RowRec, ThreadRec, OtherActors, OtherRows
    <3> QED
      BY <3>1, ThreadActor DEF StepKind
  <2>3. CASE ~Valid(o)
    <3>1. row' = row /\ th' = th
      BY <1>29, <2>3 DEF CloseDestroy
    <3> QED
      BY <2>1, <3>1 DEF StepKind, Quiet, SameLinks
  <2> QED
    BY <2>2, <2>3
<1>30. ASSUME Open PROVE StepKind
  <2>1. Quiet
    BY <1>30, <1>0, ThreadActor, Constants DEF Open, Quiet, SameLinks, Valid, Unlocked,
       Ended, Owner, BaseType, RowRec, ThreadRec, OtherActors, OtherRows, SameTable,
          Signaled, Failed
  <2> QED
    BY <2>1, ThreadActor DEF StepKind
<1>31. CASE UNCHANGED vars
  BY <1>31 DEF vars, StepKind, Quiet, SameLinks, SameTable
<1> QED
  BY <1>1, <1>2, <1>3, <1>4, <1>5, <1>6, <1>7, <1>8, <1>9, <1>10, <1>11, <1>12, <1>13,
     <1>14, <1>15, <1>16, <1>17, <1>18, <1>19, <1>20, <1>21, <1>22, <1>23, <1>24,
        <1>25, <1>26, <1>27, <1>28, <1>29, <1>30, <1>31
     DEF Next, Merge, GoOn, DestroySteps, Closing, Actors

-----------------------------------------------------------------------------
(* Counts.                                                                 *)

\* There are finitely many actors, fewer than what the count of a row can hold.
LEMMA FiniteActors ==
    /\ IsFiniteSet(Actors) /\ Cardinality(Actors) \in Nat
    /\ Wrap \in Nat /\ Wrap > Cardinality(Actors)
<1>1. IsFiniteSet(Actors)
  BY SyncAssumption, FS_Union, FS_Singleton DEF Actors
<1>2. Wrap \in Nat /\ Wrap > Cardinality(Actors)
  BY SyncAssumption DEF Actors
<1> QED
  BY <1>1, <1>2, FS_CardinalityType

\* Whose signal for an earlier object is still to come.
LEMMA StaleSets ==
    ASSUME BaseType, NEW o \in Rows
    PROVE  /\ IsFiniteSet(stale[o]) /\ Cardinality(stale[o]) \in Nat
           /\ Cardinality(stale[o]) <= Cardinality(Actors)
<1>1. stale[o] \subseteq Actors
  BY DEF BaseType
<1> QED
  BY <1>1, FiniteActors, FS_Subset, FS_CardinalityType

\* The counted sets are finite, before and after a step.
LEMMA CountedSets ==
    ASSUME NEW g
    PROVE  /\ IsFiniteSet(Linked(g)) /\ Cardinality(Linked(g)) \in Nat
           /\ IsFiniteSet(Coming(g)) /\ Cardinality(Coming(g)) \in Nat
           /\ IsFiniteSet(Linked(g)') /\ Cardinality(Linked(g)') \in Nat
           /\ IsFiniteSet(Coming(g)') /\ Cardinality(Coming(g)') \in Nat
<1>1. IsFiniteSet(Rows) /\ IsFiniteSet(Actors)
  BY SyncAssumption, FiniteActors
<1>2. /\ Linked(g) \subseteq Rows /\ Coming(g) \subseteq Actors
      /\ Linked(g)' \subseteq Rows /\ Coming(g)' \subseteq Actors
  BY DEF Linked, Coming, Telling
<1>3. /\ IsFiniteSet(Linked(g)) /\ IsFiniteSet(Coming(g))
      /\ IsFiniteSet(Linked(g)') /\ IsFiniteSet(Coming(g)')
  BY <1>1, <1>2, FS_Subset
<1> QED
  BY <1>3, FS_CardinalityType

-----------------------------------------------------------------------------
(* Owners and rows.                                                        *)

\* What a merge does for one child.
LEMMA LinkEffect ==
    ASSUME BaseType, OwnInv, NEW a \in Actors, NEW c \in Rows, LinkChild(a, c)
    PROVE  LET g == th[a].obj
           IN  /\ g \in Rows /\ g # c /\ Valid(g) /\ row[g].type = "group" /\ lock[g] = a
               /\ Valid(c) /\ row[c].type = "indv" /\ OtherRows({g, c})
               /\ row'[g].state # "invalid" /\ row'[g].type = row[g].type
               /\ row'[g].cbs = row[g].cbs /\ row'[g].parents = row[g].parents
               /\ row[g].state \in Failed => row'[g].state \in Failed
               /\ row'[c].state = row[c].state /\ row'[c].type = row[c].type
               /\ row'[c].remaining = row[c].remaining /\ row'[c].children = row[c].children
               /\ row'[c].cbs = row[c].cbs /\ row'[c].done = row[c].done
               /\ \/ /\ row'[g].remaining = row[g].remaining
                     /\ row'[g].children = row[g].children
                     /\ row'[c].parents = row[c].parents
                  \/ /\ row[c].state = "active"
                     /\ row'[g].remaining = row[g].remaining + 1
                     /\ row'[g].children = row[g].children \union {c}
                     /\ row'[c].parents = row[c].parents \union {g}
<1> DEFINE g == th[a].obj
<1>1. /\ g \in Rows /\ lock[g] = a /\ a # Free /\ Valid(g) /\ row[g].type = "group"
  BY SyncAssumption DEF BaseType, LinkChild, OwnInv, Owner, Actors
<1>2. /\ Unlocked(c) /\ Valid(c) /\ row[c].type = "indv"
  BY DEF LinkChild
<1>3. g # c
  BY <1>1, <1>2 DEF Unlocked
<1>4. row[g] \in RowRec /\ row[c] \in RowRec
  BY <1>1 DEF BaseType
<1>5. CASE row' = row
  BY <1>1, <1>2, <1>3, <1>5 DEF OtherRows, Valid
<1>6. CASE /\ row[c].state \in Failed /\ OtherRows({g})
           /\ row'[g] = [row[g] EXCEPT !.state = row[c].state]
  <2>1. /\ row'[g].state \in Failed /\ row'[g].state # "invalid"
        /\ row'[g].type = row[g].type /\ row'[g].cbs = row[g].cbs
        /\ row'[g].parents = row[g].parents /\ row'[g].remaining = row[g].remaining
        /\ row'[g].children = row[g].children
    BY <1>4, <1>6 DEF RowRec, Failed
  <2>2. row'[c] = row[c] /\ OtherRows({g, c})
    BY <1>3, <1>6 DEF OtherRows
  <2> HIDE DEF g
  <2> QED
    BY <1>1, <1>2, <1>3, <2>1, <2>2 DEF g
<1>7. CASE /\ row[c].state = "active" /\ OtherRows({g, c})
           /\ row'[g] = [row[g] EXCEPT !.remaining = row[g].remaining + 1,
                                       !.children = row[g].children \union {c}]
           /\ row'[c] = [row[c] EXCEPT !.parents = row[c].parents \union {g}]
  <2>1. /\ row'[g].state = row[g].state
        /\ row'[g].type = row[g].type /\ row'[g].cbs = row[g].cbs
        /\ row'[g].parents = row[g].parents /\ row'[g].remaining = row[g].remaining + 1
        /\ row'[g].children = row[g].children \union {c}
    BY <1>4, <1>7 DEF RowRec
  <2>2. /\ row'[c].state = row[c].state /\ row'[c].type = row[c].type
        /\ row'[c].remaining = row[c].remaining /\ row'[c].children = row[c].children
        /\ row'[c].cbs = row[c].cbs /\ row'[c].done = row[c].done
        /\ row'[c].parents = row[c].parents \union {g}
    BY <1>4, <1>7 DEF RowRec
  <2>3. row'[g].state # "invalid"
    BY <1>1, <2>1 DEF Valid
  <2> HIDE DEF g
  <2> QED
    BY <1>1, <1>2, <1>3, <1>7, <2>1, <2>2, <2>3 DEF g
<1> QED
  BY <1>5, <1>6, <1>7 DEF LinkChild

\* Every step keeps that rows are owned by one actor at a time.
LEMMA OwnStep ==
    ASSUME BaseType, OwnInv, StepKind
    PROVE  OwnInv'
<1>0. /\ \A b \in Actors : Owner(b) => th[b].obj \in bits /\ th[b].obj \in Rows
      /\ Free \notin Actors /\ bits \subseteq Rows
      /\ \A x \in Rows : lock[x] \in Actors \union {Free}
  BY SyncAssumption DEF BaseType, OwnInv, Actors
<1>1. ASSUME Quiet PROVE OwnInv'
  <2> DEFINE Busy == {"create", "lock", "link", "undo", "unlink"}
  <2>1. bits' = bits /\ lock' = lock
    BY <1>1 DEF Quiet, SameTable
  <2>2. \A o \in Rows : /\ row'[o].state = row[o].state /\ row'[o].type = row[o].type
                        /\ lock[o] # Free => row'[o].cbs = row[o].cbs
    BY <1>1 DEF Quiet, SameLinks
  <2>3. \A a \in Actors : th'[a] = th[a] \/ (th[a].at \in {"idle", "check", "bit"}
                                             /\ th'[a].at \in {"idle", "check", "bit"})
    BY <1>1 DEF Quiet, Bystander
  <2>4. \A a \in Actors : th[a].at \in Busy \/ th'[a].at \in Busy => th'[a] = th[a]
    BY <2>3
  <2>5. ASSUME NEW a \in Actors, th'[a].at \in Busy
        PROVE  /\ th'[a].obj \in bits'
               /\ IF th'[a].at = "link"
                  THEN /\ row'[th'[a].obj].state # "invalid" /\ row'[th'[a].obj].type = "group"
                       /\ row'[th'[a].obj].cbs = {} /\ lock'[th'[a].obj] = a
                  ELSE row'[th'[a].obj].state = "invalid"
    <3>1. th'[a] = th[a] /\ th[a].at \in Busy /\ Owner(a)
      BY <2>4, <2>5 DEF Owner
    <3> QED
      BY <1>0, <2>1, <2>2, <3>1 DEF OwnInv, Valid
  <2>6. ASSUME NEW a \in Actors, NEW b \in Actors, th'[a].at \in Busy, th'[b].at \in Busy,
               th'[a].obj = th'[b].obj
        PROVE  a = b
    <3>1. th'[a] = th[a] /\ Owner(a) /\ th'[b] = th[b] /\ Owner(b)
      BY <2>4, <2>6 DEF Owner
    <3> QED
      BY <2>6, <3>1 DEF OwnInv
  <2>7. ASSUME NEW o \in Rows, row'[o].state # "invalid"
        PROVE  /\ o \in bits'
               /\ lock'[o] # Free => th'[lock'[o]].at = "link" /\ th'[lock'[o]].obj = o
    <3>1. o \in bits /\ (lock[o] # Free => th[lock[o]].at = "link" /\ th[lock[o]].obj = o)
      BY <2>2, <2>7 DEF OwnInv, Valid
    <3> QED
      BY <1>0, <2>1, <2>4, <3>1
  <2> QED
    BY <2>5, <2>6, <2>7 DEF OwnInv, Owner, Valid
<1>2. ASSUME NEW a \in Actors, Fill(a) PROVE OwnInv'
  BY <1>2, <1>0, Constants DEF Fill, OwnInv, Owner, Valid, OtherRows, OtherActors,
     SameTable, Unlocked, Idle, Bystander, BaseType, SameLinks
<1>3. ASSUME NEW a \in Actors, FailMerge(a) PROVE OwnInv'
  BY <1>3, <1>0, Constants DEF FailMerge, OwnInv, Owner, Valid, OtherRows, OtherActors,
     SameTable, Unlocked, Idle, Bystander, BaseType, SameLinks
<1>4. ASSUME NEW a \in Actors, EndMerge(a) PROVE OwnInv'
  BY <1>4, <1>0, Constants DEF EndMerge, OwnInv, Owner, Valid, OtherRows, OtherActors,
     SameTable, Unlocked, Idle, Bystander, BaseType, SameLinks
<1>5. ASSUME NEW a \in Actors, DropBit(a) PROVE OwnInv'
  BY <1>5, <1>0, Constants DEF DropBit, OwnInv, Owner, Valid, OtherRows, OtherActors,
     SameTable, Unlocked, Idle, Bystander, BaseType, SameLinks
<1>6. ASSUME NEW a \in Actors, NEW o \in Rows, TakeBit(a, o) PROVE OwnInv'
  BY <1>6, <1>0, Constants DEF TakeBit, OwnInv, Owner, Valid, OtherRows, OtherActors,
     SameTable, Unlocked, Idle, Bystander, BaseType, SameLinks
<1>7. ASSUME NEW a \in Actors, NEW o \in Rows, LinkChild(a, o) PROVE OwnInv'
  <2>1. \A x \in Rows : /\ row'[x].state = "invalid" <=> row[x].state = "invalid"
                        /\ row'[x].type = row[x].type /\ row'[x].cbs = row[x].cbs
    BY <1>7, LinkEffect DEF OtherRows, Valid
  <2>2. SameTable /\ \A b \in Actors : th'[b].at = th[b].at /\ th'[b].obj = th[b].obj
    BY <1>7 DEF LinkChild, OtherActors
  <2> QED
    BY <1>0, <2>1, <2>2 DEF OwnInv, Owner, Valid, SameTable
<1>8. ASSUME NEW a \in Actors, NEW o \in Rows, UnlinkChild(a, o) PROVE OwnInv'
  <2>1. \A x \in Rows : /\ row'[x].state = "invalid" <=> row[x].state = "invalid"
                        /\ row'[x].type = row[x].type /\ row'[x].cbs = row[x].cbs
    BY <1>8, <1>0 DEF UnlinkChild, OtherRows, BaseType, RowRec, Valid, Failed, Owner
  <2>2. SameTable /\ \A b \in Actors : th'[b].at = th[b].at /\ th'[b].obj = th[b].obj
    BY <1>8 DEF UnlinkChild, OtherActors
  <2> QED
    BY <1>0, <2>1, <2>2 DEF OwnInv, Owner, Valid, SameTable
<1>9. ASSUME NEW a \in Actors, NEW o \in Rows, UnlinkParent(a, o) PROVE OwnInv'
  <2>1. \A x \in Rows : /\ row'[x].state = "invalid" <=> row[x].state = "invalid"
                        /\ row'[x].type = row[x].type /\ row'[x].cbs = row[x].cbs
    BY <1>9, <1>0 DEF UnlinkParent, OtherRows, BaseType, RowRec, Valid, Failed, Owner
  <2>2. SameTable /\ \A b \in Actors : th'[b].at = th[b].at /\ th'[b].obj = th[b].obj
    BY <1>9 DEF UnlinkParent, OtherActors
  <2> QED
    BY <1>0, <2>1, <2>2 DEF OwnInv, Owner, Valid, SameTable
<1>10. ASSUME NEW a \in Actors, NEW o \in Rows, Finish(a, o) PROVE OwnInv'
  BY <1>10, <1>0, Constants DEF Finish, OwnInv, Owner, Valid, OtherRows, OtherActors,
     SameTable, Unlocked, Idle, Bystander, BaseType, SameLinks
<1>11. ASSUME NEW a \in Actors, NEW o \in Rows, TellParent(a, o) PROVE OwnInv'
  BY <1>11, <1>0, Constants DEF TellParent, OwnInv, Owner, Valid, OtherRows,
     OtherActors, SameTable, Unlocked, Idle, Bystander, BaseType, SameLinks
<1>12. ASSUME NEW a \in Actors, NEW o \in Rows, Destroyed(a, o) PROVE OwnInv'
  BY <1>12, <1>0, Constants DEF Destroyed, OwnInv, Owner, Valid, OtherRows,
     OtherActors, SameTable, Unlocked, Idle, Bystander, BaseType, SameLinks
<1> QED
  BY <1>1, <1>2, <1>3, <1>4, <1>5, <1>6, <1>7, <1>8, <1>9, <1>10, <1>11, <1>12
     DEF StepKind

\* Every step keeps what is known of rows.
LEMMA RowStep ==
    ASSUME BaseType, OwnInv, RowInv, TellInv, StepKind
    PROVE  RowInv'
<1>0. /\ \A b \in Actors : Owner(b) => th[b].obj \in bits /\ th[b].obj \in Rows
      /\ Free \notin Actors /\ bits \subseteq Rows
      /\ \A x \in Rows : row[x] \in RowRec
  BY SyncAssumption DEF BaseType, OwnInv, Actors
<1>1. ASSUME Quiet PROVE RowInv'
  BY <1>1, <1>0, Constants DEF Quiet, RowInv, OwnInv, Owner, Valid, OtherRows,
     OtherActors, SameTable, past, Unlocked, SameLinks, BaseType, RowRec
<1>2. ASSUME NEW a \in Actors, Fill(a) PROVE RowInv'
  BY <1>2, <1>0, Constants DEF Fill, RowInv, OwnInv, Owner, Valid, OtherRows,
     OtherActors, SameTable, past, Unlocked, SameLinks, BaseType, RowRec
<1>3. ASSUME NEW a \in Actors, FailMerge(a) PROVE RowInv'
  BY <1>3, <1>0, Constants DEF FailMerge, RowInv, OwnInv, Owner, Valid, OtherRows,
     OtherActors, SameTable, past, Unlocked, SameLinks, BaseType, RowRec
<1>4. ASSUME NEW a \in Actors, EndMerge(a) PROVE RowInv'
  <2> DEFINE g == th[a].obj
  <2>1. /\ g \in Rows /\ Valid(g) /\ row[g].type = "group"
    BY <1>4, <1>0 DEF EndMerge, OwnInv, Owner
  <2>2. /\ row'[g].state # "invalid" /\ row'[g].type = "group"
        /\ row'[g].parents = row[g].parents /\ row'[g].remaining = row[g].remaining
    BY <1>4, <1>0, <2>1 DEF EndMerge, RowRec, Valid, Failed
  <2>3. OtherRows({g}) /\ stale' = stale
    BY <1>4 DEF EndMerge, past
  <2> HIDE DEF g
  <2> QED
    BY <2>1, <2>2, <2>3 DEF RowInv, Valid, OtherRows
<1>5. ASSUME NEW a \in Actors, DropBit(a) PROVE RowInv'
  BY <1>5, <1>0, Constants DEF DropBit, RowInv, OwnInv, Owner, Valid, OtherRows,
     OtherActors, SameTable, past, Unlocked, SameLinks, BaseType, RowRec
<1>6. ASSUME NEW a \in Actors, NEW o \in Rows, TakeBit(a, o) PROVE RowInv'
  BY <1>6, <1>0, Constants DEF TakeBit, RowInv, OwnInv, Owner, Valid, OtherRows,
     OtherActors, SameTable, past, Unlocked, SameLinks, BaseType, RowRec
<1>7. ASSUME NEW a \in Actors, NEW o \in Rows, LinkChild(a, o) PROVE RowInv'
  <2>1. stale' = stale
    BY <1>7 DEF LinkChild, SameTable, past
  <2> QED
    BY <1>7, <2>1, LinkEffect DEF OtherRows, RowInv, Valid
<1>8. ASSUME NEW a \in Actors, NEW o \in Rows, UnlinkChild(a, o) PROVE RowInv'
  <2>1. /\ stale' = stale
        /\ \A x \in Rows : /\ row'[x].state = row[x].state /\ row'[x].type = row[x].type
                           /\ row'[x].remaining = row[x].remaining
                           /\ row'[x].children = row[x].children
                           /\ row'[x].parents \subseteq row[x].parents
                           /\ ~Valid(x) => row'[x] = row[x]
    BY <1>8, <1>0 DEF UnlinkChild, SameTable, past, OtherRows, RowRec
  <2> QED
    BY <2>1 DEF RowInv, Valid
<1>9. ASSUME NEW a \in Actors, NEW o \in Rows, UnlinkParent(a, o) PROVE RowInv'
  <2>1. /\ stale' = stale
        /\ \A x \in Rows : /\ row'[x].state = row[x].state /\ row'[x].type = row[x].type
                           /\ row'[x].remaining = row[x].remaining
                           /\ row'[x].children \subseteq row[x].children
                           /\ row'[x].parents = row[x].parents
                           /\ ~Valid(x) => row'[x] = row[x]
    BY <1>9, <1>0 DEF UnlinkParent, SameTable, past, OtherRows, RowRec
  <2> QED
    BY <2>1 DEF RowInv, Valid
<1>10. ASSUME NEW a \in Actors, NEW o \in Rows, Finish(a, o) PROVE RowInv'
  <2>1. /\ row'[o].state # "invalid" /\ row'[o].parents = {} /\ OtherRows({o})
        /\ row'[o].type = row[o].type /\ row'[o].remaining = row[o].remaining
        /\ row'[o].children = row[o].children /\ row'[o].state # "active"
        /\ row[o].state = "active" /\ stale' = stale
    BY <1>10 DEF Finish, Signaled, Failed, SameTable, past
  <2> QED
    BY <2>1 DEF RowInv, Valid, OtherRows
<1>11. ASSUME NEW a \in Actors, NEW o \in Rows, TellParent(a, o) PROVE RowInv'
  <2>0. /\ OtherRows({o}) /\ stale' = [stale EXCEPT ![o] = stale[o] \ {a}]
        /\ \A x \in Rows : x # o => stale'[x] = stale[x]
    BY <1>11 DEF TellParent, BaseType
  <2>1. CASE Valid(o)
    <3>1. th[a].status \in Signaled
      BY DEF BaseType, ThreadRec
    <3>2. /\ row'[o].state # "invalid" /\ row'[o].state # "active"
          /\ row'[o].type = row[o].type /\ row'[o].children = row[o].children
          /\ row'[o].parents = row[o].parents
          /\ row'[o].remaining = Decrement(row[o].remaining)
      BY <1>11, <2>1, <3>1 DEF TellParent, UpdateParentState, Valid, Signaled, Failed
    <3>3. CASE row[o].type = "group"
      BY <2>0, <3>2, <3>3 DEF RowInv, Valid, OtherRows
    <3>4. CASE row[o].type = "indv"
      <4>1. a \in stale[o]
        <5>1. a \in Telling(o)
          BY <1>11 DEF TellParent, Telling
        <5> QED
          BY <2>1, <3>4, <5>1 DEF TellInv, Coming
      <4>2. /\ stale'[o] = stale[o] \ {a}
            /\ Cardinality(stale[o] \ {a}) = Cardinality(stale[o]) - 1
        <5>1. stale'[o] = stale[o] \ {a}
          BY <2>0 DEF BaseType
        <5>2. Cardinality(stale[o] \ {a}) = Cardinality(stale[o]) - 1
          BY <4>1, StaleSets, FS_RemoveElement
        <5> QED
          BY <5>1, <5>2
      <4> DEFINE n == row[o].remaining
                 k == Cardinality(stale[o])
                 c == Cardinality(Actors)
      <4>3. /\ n \in Nat /\ k \in Nat /\ c \in Nat /\ k <= c /\ Wrap \in Nat /\ Wrap > c
            /\ Cardinality(stale'[o]) = k - 1 /\ k >= 1
        <5>1. n \in Nat
          BY <1>0 DEF RowRec
        <5>2. stale[o] # {}
          BY <4>1
        <5>3. Cardinality(stale[o]) # 0
          BY <5>2, StaleSets, FS_EmptySet
        <5> QED
          BY <4>2, <5>1, <5>3, StaleSets, FiniteActors
      <4>4. n = 0 \/ n + c >= Wrap + k
        BY <3>4 DEF RowInv
      <4>5. row'[o].remaining = IF n = 0 THEN Wrap - 1 ELSE n - 1
        BY <3>2 DEF Decrement
      <4> HIDE DEF n, k, c
      <4>6. /\ row'[o].remaining # 0
            /\ row'[o].remaining + c >= Wrap + Cardinality(stale'[o])
        BY <4>3, <4>4, <4>5
      <4> QED
        BY <2>0, <3>2, <3>4, <4>6 DEF RowInv, Valid, OtherRows, c
    <3> QED
      BY <1>0, <3>3, <3>4 DEF RowRec
  <2>2. CASE ~Valid(o)
    <3>1. \A x \in Rows : row'[x] = row[x]
      BY <1>11, <2>2 DEF TellParent, OtherRows
    <3>2. row[o] = ClearRow
      BY <2>2 DEF RowInv
    <3> QED
      BY <2>0, <3>1, <3>2, Constants DEF RowInv, Valid
  <2> QED
    BY <2>1, <2>2
<1>12. ASSUME NEW a \in Actors, NEW o \in Rows, Destroyed(a, o) PROVE RowInv'
  BY <1>12, <1>0, Constants DEF Destroyed, RowInv, OwnInv, Owner, Valid, OtherRows,
     OtherActors, SameTable, past, Unlocked, SameLinks, BaseType, RowRec
<1> QED
  BY <1>1, <1>2, <1>3, <1>4, <1>5, <1>6, <1>7, <1>8, <1>9, <1>10, <1>11, <1>12
     DEF StepKind

-----------------------------------------------------------------------------
(* Links.                                                                  *)

\* The group g is still to be taken off the child c.
Pending(g, c) ==
    \E a \in Actors : th[a].at \in {"undo", "unlink"} /\ th[a].obj = g /\ c \in th[a].todo

\* An unowned row, or one about to be filled, has no child.
LEMMA NoChild ==
    ASSUME OwnInv, LinkInv, NEW g \in Rows, ~Valid(g),
           \A a \in Actors : th[a].at \in {"undo", "unlink"} => th[a].obj # g
    PROVE  \A c \in Rows : g \notin row[c].parents
BY DEF LinkInv

\* Every step keeps that a group knows its children.
LEMMA ChildStep ==
    ASSUME BaseType, OwnInv, RowInv, LinkInv, StepKind,
           NEW g \in Rows, NEW c \in Rows, g \in row'[c].parents
    PROVE  IF row'[g].state # "invalid" THEN c \in row'[g].children
           ELSE \E b \in Actors : /\ th'[b].at \in {"undo", "unlink"} /\ th'[b].obj = g
                                  /\ c \in th'[b].todo
<1> DEFINE Goal == IF row'[g].state # "invalid" THEN c \in row'[g].children
                   ELSE \E b \in Actors : /\ th'[b].at \in {"undo", "unlink"} /\ th'[b].obj = g
                                          /\ c \in th'[b].todo
<1>0. /\ \A e \in Actors : Owner(e) => th[e].obj \in bits /\ th[e].obj \in Rows
      /\ Free \notin Actors /\ bits \subseteq Rows
      /\ \A r \in Rows : row[r] \in RowRec
      /\ \A e \in Actors : th[e] \in ThreadRec
  BY SyncAssumption DEF BaseType, OwnInv, Actors
<1>g. /\ g \in row'[c].parents
      /\ g \in row[c].parents => IF row[g].state # "invalid" THEN c \in row[g].children
                                 ELSE Pending(g, c)
  BY DEF LinkInv, Valid, Pending
<1> SUFFICES Goal
  OBVIOUS
<1>1. ASSUME Quiet PROVE Goal
  BY <1>1, <1>0, <1>g DEF Quiet, SameLinks, Pending, Bystander
<1>2. ASSUME NEW a \in Actors, Fill(a) PROVE Goal
  <2> DEFINE x == th[a].obj
  <2>1. x \in Rows /\ ~Valid(x) /\ row'[x].parents = {} /\ OtherRows({x})
    BY <1>2, <1>0, Constants DEF Fill, OwnInv, Owner
  <2>2. \A b \in Actors : th[b].at \in {"undo", "unlink"} => th[b].obj # x
    BY <1>2 DEF Fill, OwnInv, Owner
  <2>3. c # x /\ row'[c] = row[c]
    BY <1>g, <2>1 DEF OtherRows
  <2>4. g # x
    BY <1>g, <2>1, <2>2, <2>3, NoChild
  <2>5. row'[g] = row[g]
    BY <2>1, <2>4 DEF OtherRows
  <2>6. \A b \in Actors : th[b].at \in {"undo", "unlink"} => th'[b] = th[b]
    BY <1>2 DEF Fill, OtherActors
  <2> QED
    BY <1>g, <2>3, <2>5, <2>6 DEF Pending
<1>3. ASSUME NEW a \in Actors, FailMerge(a) PROVE Goal
  <2> DEFINE x == th[a].obj
  <2>1. /\ x \in Rows /\ Valid(x) /\ row'[x].state = "invalid" /\ row'[x].parents = {}
        /\ OtherRows({x})
    BY <1>3, <1>0, Constants DEF FailMerge, OwnInv, Owner
  <2>2. c # x /\ row'[c] = row[c]
    BY <1>g, <2>1 DEF OtherRows
  <2>3. CASE g = x
    <3>1. c \in th[a].objs \ th[a].todo
      BY <1>3, <1>g, <2>2, <2>3 DEF FailMerge, LinkInv, Linked
    <3> QED
      BY <1>3, <2>1, <2>3, <3>1 DEF FailMerge
  <2>4. CASE g # x
    <3>1. \A b \in Actors : th[b].at \in {"undo", "unlink"} => th'[b] = th[b]
      BY <1>3 DEF FailMerge, OtherActors
    <3>2. row'[g] = row[g]
      BY <2>1, <2>4 DEF OtherRows
    <3> QED
      BY <1>g, <2>2, <3>1, <3>2 DEF Pending
  <2> QED
    BY <2>3, <2>4
<1>4. ASSUME NEW a \in Actors, EndMerge(a) PROVE Goal
  <2> DEFINE x == th[a].obj
  <2>1. /\ x \in Rows /\ Valid(x) /\ OtherRows({x})
    BY <1>4, <1>0 DEF EndMerge, OwnInv, Owner
  <2>2. /\ row'[x].state # "invalid" /\ row'[x].parents = row[x].parents
        /\ row'[x].children = row[x].children
    BY <1>4, <1>0, <2>1 DEF EndMerge, RowRec, Valid, Failed
  <2> HIDE DEF x
  <2>3. /\ \A y \in Rows : /\ row'[y].state = "invalid" <=> row[y].state = "invalid"
                           /\ row'[y].parents = row[y].parents
                           /\ row'[y].children = row[y].children
    BY <2>1, <2>2 DEF OtherRows, Valid
  <2>4. \A b \in Actors : th[b].at \in {"undo", "unlink"} => th'[b] = th[b]
    BY <1>4 DEF EndMerge, OtherActors
  <2> QED
    BY <1>g, <2>3, <2>4 DEF Pending
<1>5. ASSUME NEW a \in Actors, DropBit(a) PROVE Goal
  <2>1. row' = row /\ OtherActors(a) /\ th[a].todo = {}
    BY <1>5 DEF DropBit
  <2> QED
    BY <1>g, <2>1 DEF Pending, OtherActors
<1>6. ASSUME NEW a \in Actors, NEW o \in Rows, TakeBit(a, o) PROVE Goal
  <2>1. row' = row /\ OtherActors(a) /\ Bystander(th[a])
    BY <1>6 DEF TakeBit
  <2> QED
    BY <1>g, <2>1 DEF Pending, OtherActors, Bystander
<1>7. ASSUME NEW a \in Actors, NEW o \in Rows, LinkChild(a, o) PROVE Goal
  <2> DEFINE x == th[a].obj
  <2>1. \A b \in Actors : th[b].at \in {"undo", "unlink"} => th'[b] = th[b]
    BY <1>7 DEF LinkChild, OtherActors
  <2>2. /\ x \in Rows /\ x # o /\ Valid(x) /\ Valid(o) /\ OtherRows({x, o})
        /\ row'[x].state # "invalid" /\ row'[x].parents = row[x].parents
        /\ row'[o].state = row[o].state /\ row'[o].children = row[o].children
        /\ \/ /\ row'[x].children = row[x].children
              /\ row'[o].parents = row[o].parents
           \/ /\ row'[x].children = row[x].children \union {o}
              /\ row'[o].parents = row[o].parents \union {x}
    BY <1>7, LinkEffect DEF OtherRows, Valid
  <2> HIDE DEF x
  <2>3. g \in row[c].parents \/ (g = x /\ c = o /\ c \in row'[g].children)
    BY <1>g, <2>2 DEF OtherRows
  <2>4. /\ row'[g].state = "invalid" <=> row[g].state = "invalid"
        /\ row[g].children \subseteq row'[g].children
    BY <2>2 DEF OtherRows, Valid
  <2> QED
    BY <1>g, <2>1, <2>2, <2>3, <2>4 DEF Pending, Valid
<1>8. ASSUME NEW a \in Actors, NEW o \in Rows, UnlinkChild(a, o) PROVE Goal
  <2>1. /\ \A y \in Rows : /\ row'[y].state = row[y].state
                           /\ row'[y].children = row[y].children
                           /\ row'[y].parents \subseteq row[y].parents
    BY <1>8, <1>0 DEF UnlinkChild, OtherRows, RowRec
  <2>2. CASE row[g].state # "invalid"
    BY <1>g, <2>1, <2>2
  <2>3. CASE row[g].state = "invalid"
    <3>1. PICK b \in Actors : th[b].at \in {"undo",
       "unlink"} /\ th[b].obj = g /\ c \in th[b].todo
      BY <1>g, <2>1, <2>3 DEF Pending
    <3>2. CASE b = a /\ c = o
      <4>1. g \notin row'[c].parents
        BY <1>8, <1>0, <2>3, <3>1, <3>2, Constants DEF UnlinkChild, RowRec, RowInv, Valid
      <4> QED
        BY <1>g, <4>1
    <3>3. CASE b = a /\ c # o
      BY <1>8, <2>1, <2>3, <3>1, <3>3 DEF UnlinkChild
    <3>4. CASE b # a
      BY <1>8, <2>1, <2>3, <3>1, <3>4 DEF UnlinkChild, OtherActors
    <3> QED
      BY <3>2, <3>3, <3>4
  <2> QED
    BY <2>2, <2>3
<1>9. ASSUME NEW a \in Actors, NEW o \in Rows, UnlinkParent(a, o) PROVE Goal
  <2>1. /\ \A y \in Rows : /\ row'[y].state = row[y].state
                           /\ row'[y].parents = row[y].parents
                           /\ row'[y].children = row[y].children \/
                                 row'[y].children = row[y].children \ {th[a].obj}
    BY <1>9, <1>0 DEF UnlinkParent, OtherRows, RowRec
  <2>2. \A b \in Actors : th'[b].at = th[b].at /\ th'[b].obj = th[b].obj /\ th'[b].todo = th[b].todo
    BY <1>9 DEF UnlinkParent, OtherActors
  <2>3. c # th[a].obj
    <3>1. ~Valid(th[a].obj) /\ th[a].obj \in Rows
      BY <1>9, <1>0 DEF UnlinkParent, OwnInv, Owner
    <3> QED
      BY <1>g, <2>1, <3>1, Constants DEF RowInv
  <2> QED
    BY <1>g, <2>1, <2>2, <2>3 DEF Pending
<1>10. ASSUME NEW a \in Actors, NEW o \in Rows, Finish(a, o) PROVE Goal
  <2>1. /\ row'[o].state # "invalid" /\ row[o].state # "invalid"
        /\ row'[o].children = row[o].children
        /\ row'[o].parents = {} /\ OtherRows({o})
    BY <1>10 DEF Finish, Signaled, Failed
  <2>2. \A b \in Actors : th[b].at \in {"undo", "unlink"} => th'[b] = th[b]
    BY <1>10 DEF Finish, OtherActors, Idle
  <2> QED
    BY <1>g, <2>1, <2>2 DEF Pending, OtherRows
<1>11. ASSUME NEW a \in Actors, NEW o \in Rows, TellParent(a, o) PROVE Goal
  <2>1. \A b \in Actors : th[b].at \in {"undo", "unlink"} => th'[b] = th[b]
    BY <1>11 DEF TellParent, OtherActors
  <2>2. th[a].status # "invalid"
    BY <1>0 DEF ThreadRec, Signaled, Failed
  <2>3. /\ row'[o].state = "invalid" <=> row[o].state = "invalid"
        /\ row'[o].parents = row[o].parents /\ row'[o].children = row[o].children
        /\ OtherRows({o})
    BY <1>11, <2>2 DEF TellParent, UpdateParentState, Valid
  <2> QED
    BY <1>g, <2>1, <2>3 DEF Pending, OtherRows
<1>12. ASSUME NEW a \in Actors, NEW o \in Rows, Destroyed(a, o) PROVE Goal
  <2>1. /\ OtherRows({o}) /\ row'[o].state = "invalid" /\ row'[o].parents = {} /\ Valid(o)
    BY <1>12, Constants DEF Destroyed
  <2>2. c # o /\ row'[c] = row[c]
    BY <1>g, <2>1 DEF OtherRows
  <2>3. CASE g = o
    BY <1>12, <1>g, <2>1, <2>2, <2>3 DEF Destroyed, Valid
  <2>4. CASE g # o
    <3>1. \A b \in Actors : th[b].at \in {"undo", "unlink"} => th'[b] = th[b]
      BY <1>12 DEF Destroyed, OtherActors, Idle
    <3> QED
      BY <1>g, <2>1, <2>2, <2>4, <3>1 DEF Pending, OtherRows
  <2> QED
    BY <2>3, <2>4
<1> QED
  BY <1>1, <1>2, <1>3, <1>4, <1>5, <1>6, <1>7, <1>8, <1>9, <1>10, <1>11, <1>12
     DEF StepKind

\* Every step keeps that a merge has linked only children it is through with.
LEMMA MergeStep ==
    ASSUME BaseType, OwnInv, RowInv, LinkInv, StepKind, NEW b \in Actors
    PROVE  /\ th'[b].at \in {"lock", "link"} => th'[b].todo \subseteq th'[b].objs
           /\ th'[b].at = "link" =>
                 \A c \in Rows : th'[b].obj \in row'[c].parents =>
                                    c \in th'[b].objs /\ c \notin th'[b].todo
<1> DEFINE Goal == /\ th'[b].at \in {"lock", "link"} => th'[b].todo \subseteq th'[b].objs
                   /\ th'[b].at = "link" =>
                         \A c \in Rows : th'[b].obj \in row'[c].parents =>
                                            c \in th'[b].objs /\ c \notin th'[b].todo
<1>0. /\ \A e \in Actors : Owner(e) => th[e].obj \in bits /\ th[e].obj \in Rows
      /\ Free \notin Actors /\ bits \subseteq Rows
      /\ \A r \in Rows : row[r] \in RowRec
      /\ \A e \in Actors : th[e] \in ThreadRec
  BY SyncAssumption DEF BaseType, OwnInv, Actors
<1>g. /\ th[b].at \in {"lock", "link"} => th[b].todo \subseteq th[b].objs
      /\ th[b].at = "link" =>
            \A c \in Rows : th[b].obj \in row[c].parents =>
                               c \in th[b].objs /\ c \notin th[b].todo
  BY DEF LinkInv, Linked
<1>1. ASSUME Quiet PROVE Goal
  <2>1. \A c \in Rows : row'[c].parents \subseteq row[c].parents
    BY <1>1 DEF Quiet, SameLinks
  <2>2. th'[b] = th[b] \/ th'[b].at \notin {"lock", "link"}
    BY <1>1 DEF Quiet, Bystander
  <2> QED
    BY <1>g, <2>1, <2>2
<1>2. ASSUME NEW a \in Actors, Fill(a) PROVE Goal
  <2> DEFINE x == th[a].obj
  <2>1. x \in Rows /\ ~Valid(x) /\ row'[x].parents = {} /\ OtherRows({x})
    BY <1>2, <1>0, Constants DEF Fill, OwnInv, Owner
  <2>2. \A d \in Actors : th[d].at \in {"undo", "unlink"} => th[d].obj # x
    BY <1>2 DEF Fill, OwnInv, Owner
  <2>3. \A c \in Rows : row'[c].parents \subseteq row[c].parents
    BY <2>1 DEF OtherRows
  <2>4. CASE b = a
    <3>1. \A c \in Rows : x \notin row'[c].parents
      BY <2>1, <2>2, <2>3, NoChild
    <3>2. \/ th'[a].at = "idle"
          \/ /\ th'[a].at = "link" /\ th[a].at = "lock" /\ th'[a].obj = x
             /\ th'[a].todo = th[a].todo /\ th'[a].objs = th[a].objs
      BY <1>2 DEF Fill
    <3> HIDE DEF x
    <3> QED
      BY <1>g, <2>4, <3>1, <3>2
  <2>5. CASE b # a
    <3>1. th'[b] = th[b]
      BY <1>2, <2>5 DEF Fill, OtherActors
    <3> QED
      BY <1>g, <2>3, <3>1
  <2> QED
    BY <2>4, <2>5
<1>3. ASSUME NEW a \in Actors, FailMerge(a) PROVE Goal
  <2>1. \A c \in Rows : row'[c].parents \subseteq row[c].parents
    BY <1>3, <1>0, Constants DEF FailMerge, OtherRows
  <2>2. th'[b] = th[b] \/ th'[b].at \notin {"lock", "link"}
    BY <1>3 DEF FailMerge, OtherActors
  <2> QED
    BY <1>g, <2>1, <2>2
<1>4. ASSUME NEW a \in Actors, EndMerge(a) PROVE Goal
  <2>1. \A c \in Rows : row'[c].parents \subseteq row[c].parents
    <3>1. th[a].obj \in Rows
      BY <1>4, <1>0 DEF EndMerge, Owner
    <3>2. row'[th[a].obj].parents = row[th[a].obj].parents
      BY <1>4, <1>0, <3>1 DEF EndMerge, RowRec
    <3>3. OtherRows({th[a].obj})
      BY <1>4 DEF EndMerge
    <3> QED
      BY <3>2, <3>3 DEF OtherRows
  <2>2. th'[b] = th[b] \/ th'[b].at \notin {"lock", "link"}
    BY <1>4 DEF EndMerge, OtherActors
  <2> QED
    BY <1>g, <2>1, <2>2
<1>5. ASSUME NEW a \in Actors, DropBit(a) PROVE Goal
  <2>1. \A c \in Rows : row'[c].parents \subseteq row[c].parents
    BY <1>5 DEF DropBit
  <2>2. th'[b] = th[b] \/ th'[b].at \notin {"lock", "link"}
    BY <1>5 DEF DropBit, OtherActors
  <2> QED
    BY <1>g, <2>1, <2>2
<1>6. ASSUME NEW a \in Actors, NEW o \in Rows, TakeBit(a, o) PROVE Goal
  <2>1. CASE b = a
    <3>1. th'[a].at # "link" /\ (th'[a].at = "lock" => th'[a].todo = th'[a].objs)
      BY <1>6 DEF TakeBit
    <3> QED
      BY <2>1, <3>1
  <2>2. CASE b # a
    BY <1>6, <1>g, <2>2 DEF TakeBit, OtherActors
  <2> QED
    BY <2>1, <2>2
<1>7. ASSUME NEW a \in Actors, NEW o \in Rows, LinkChild(a, o) PROVE Goal
  <2> DEFINE x == th[a].obj
  <2>1. \A c \in Rows : /\ row'[c].parents \subseteq row[c].parents \union {x}
                        /\ c # o => row'[c].parents \subseteq row[c].parents
    BY <1>7, LinkEffect DEF OtherRows
  <2>2. CASE b = a
    <3>1. /\ th'[a].at = "link" /\ th'[a].obj = x /\ th'[a].objs = th[a].objs
          /\ th'[a].todo = th[a].todo \ {o} /\ th[a].at = "link" /\ o \in th[a].todo
      BY <1>7 DEF LinkChild
    <3> HIDE DEF x
    <3>2. o \in th[a].objs
      BY <1>g, <2>2, <3>1
    <3>3. \A c \in Rows : x \in row'[c].parents => c \in th[a].objs /\ c \notin th[a].todo \ {o}
      BY <1>g, <2>1, <2>2, <3>1, <3>2 DEF x
    <3> QED
      BY <1>g, <2>2, <3>1, <3>3
  <2>3. CASE b # a
    <3>1. th'[b] = th[b]
      BY <1>7, <2>3 DEF LinkChild, OtherActors
    <3>2. th[b].at = "link" => th[b].obj # x
      BY <1>7, <2>3 DEF LinkChild, OwnInv, Owner
    <3> QED
      BY <1>g, <2>1, <3>1, <3>2
  <2> QED
    BY <2>2, <2>3
<1>8. ASSUME NEW a \in Actors, NEW o \in Rows, UnlinkChild(a, o) PROVE Goal
  <2>1. \A c \in Rows : row'[c].parents \subseteq row[c].parents
    BY <1>8, <1>0 DEF UnlinkChild, OtherRows, RowRec
  <2>2. th'[b] = th[b] \/ th'[b].at \notin {"lock", "link"}
    BY <1>8 DEF UnlinkChild, OtherActors
  <2> QED
    BY <1>g, <2>1, <2>2
<1>9. ASSUME NEW a \in Actors, NEW o \in Rows, UnlinkParent(a, o) PROVE Goal
  <2>1. \A c \in Rows : row'[c].parents \subseteq row[c].parents
    BY <1>9, <1>0 DEF UnlinkParent, OtherRows, RowRec
  <2>2. th'[b] = th[b] \/ th'[b].at \notin {"lock", "link"}
    BY <1>9 DEF UnlinkParent, OtherActors
  <2> QED
    BY <1>g, <2>1, <2>2
<1>10. ASSUME NEW a \in Actors, NEW o \in Rows, Finish(a, o) PROVE Goal
  <2>1. \A c \in Rows : row'[c].parents \subseteq row[c].parents
    BY <1>10 DEF Finish, OtherRows
  <2>2. th'[b] = th[b] \/ th'[b].at \notin {"lock", "link"}
    BY <1>10 DEF Finish, OtherActors, Idle
  <2> QED
    BY <1>g, <2>1, <2>2
<1>11. ASSUME NEW a \in Actors, NEW o \in Rows, TellParent(a, o) PROVE Goal
  <2>1. \A c \in Rows : row'[c].parents \subseteq row[c].parents
    BY <1>11 DEF TellParent, OtherRows
  <2>2. th'[b] = th[b] \/ th'[b].at \notin {"lock", "link"}
    BY <1>11 DEF TellParent, OtherActors
  <2> QED
    BY <1>g, <2>1, <2>2
<1>12. ASSUME NEW a \in Actors, NEW o \in Rows, Destroyed(a, o) PROVE Goal
  <2>1. \A c \in Rows : row'[c].parents \subseteq row[c].parents
    BY <1>12, Constants DEF Destroyed, OtherRows
  <2>2. th'[b] = th[b] \/ th'[b].at \notin {"lock", "link"}
    BY <1>12 DEF Destroyed, OtherActors
  <2> QED
    BY <1>g, <2>1, <2>2
<1> QED
  BY <1>1, <1>2, <1>3, <1>4, <1>5, <1>6, <1>7, <1>8, <1>9, <1>10, <1>11, <1>12
     DEF StepKind

\* Every step keeps the links.
LEMMA LinkStep ==
    ASSUME BaseType, OwnInv, RowInv, LinkInv, StepKind
    PROVE  LinkInv'
<1>1. \A g, c \in Rows : g \in row'[c].parents =>
          IF row'[g].state # "invalid" THEN c \in row'[g].children
          ELSE \E b \in Actors : /\ th'[b].at \in {"undo", "unlink"} /\ th'[b].obj = g
                                 /\ c \in th'[b].todo
  BY ChildStep
<1>2. \A b \in Actors :
          /\ th'[b].at \in {"lock", "link"} => th'[b].todo \subseteq th'[b].objs
          /\ th'[b].at = "link" => Linked(th[b].obj)' \subseteq th'[b].objs \ th'[b].todo
  BY MergeStep DEF Linked
<1> QED
  BY <1>1, <1>2 DEF LinkInv, Valid

-----------------------------------------------------------------------------
(* Signals on their way.                                                   *)

\* Every step keeps that they are for groups, or for earlier objects.
LEMMA TellStep ==
    ASSUME BaseType, OwnInv, RowInv, LinkInv, TellInv, StepKind, NEW p \in Rows
    PROVE  /\ stale'[p] \subseteq Telling(p)'
           /\ row'[p].state # "invalid" /\ Coming(p)' # {} => row'[p].type = "group"
<1> DEFINE Goal == /\ stale'[p] \subseteq Telling(p)'
                   /\ row'[p].state # "invalid" /\ Coming(p)' # {} => row'[p].type = "group"
           SameTold == /\ stale'[p] = stale[p]
                       /\ \A b \in Actors : th[b].at = "parents" \/ th'[b].at = "parents" =>
                                               th'[b] = th[b]
           SameRow == row'[p].state # "invalid" =>
                         row[p].state # "invalid" /\ row'[p].type = row[p].type
<1>0. /\ \A e \in Actors : Owner(e) => th[e].obj \in bits /\ th[e].obj \in Rows
      /\ \A r \in Rows : row[r] \in RowRec
      /\ \A e \in Actors : th[e] \in ThreadRec
  BY DEF BaseType, OwnInv
<1>i. /\ stale[p] \subseteq Telling(p)
      /\ row[p].state # "invalid" /\ Coming(p) # {} => row[p].type = "group"
  BY DEF TellInv, Valid
<1>k. SameTold /\ SameRow => Goal
  <2> SUFFICES ASSUME SameTold, SameRow PROVE Goal
    OBVIOUS
  <2>1. Telling(p)' = Telling(p)
    BY DEF Telling
  <2>2. Coming(p)' = Coming(p)
    BY <2>1 DEF Coming
  <2> QED
    BY <1>i, <2>1, <2>2
<1>1. ASSUME Quiet PROVE Goal
  BY <1>1, <1>k DEF Quiet, SameLinks, SameTable, past, Bystander
<1>2. ASSUME NEW a \in Actors, Fill(a) PROVE Goal
  <2> DEFINE x == th[a].obj
  <2>1. /\ x \in Rows /\ OtherRows({x}) /\ OtherActors(a)
        /\ th[a].at # "parents" /\ th'[a].at # "parents"
        /\ stale' = [stale EXCEPT ![x] = Telling(x)]
    BY <1>2, <1>0 DEF Fill, Owner
  <2>2. \A b \in Actors : th[b].at = "parents" \/ th'[b].at = "parents" => th'[b] = th[b]
    BY <2>1 DEF OtherActors
  <2>3. CASE p = x
    <3>1. stale'[p] = Telling(p) /\ Telling(p)' = Telling(p)
      BY <2>1, <2>2, <2>3 DEF BaseType, Telling
    <3> QED
      BY <3>1 DEF Coming
  <2>4. CASE p # x
    <3>1. stale'[p] = stale[p] /\ row'[p] = row[p]
      BY <2>1, <2>4 DEF BaseType, OtherRows
    <3> QED
      BY <1>k, <2>2, <3>1
  <2> QED
    BY <2>3, <2>4
<1>3. ASSUME NEW a \in Actors, FailMerge(a) PROVE Goal
  BY <1>3, <1>k, Constants DEF FailMerge, SameTable, past, OtherRows, OtherActors
<1>4. ASSUME NEW a \in Actors, EndMerge(a) PROVE Goal
  <2>1. th[a].obj \in Rows /\ Valid(th[a].obj)
    BY <1>4, <1>0 DEF EndMerge, OwnInv, Owner
  <2>2. row'[th[a].obj].type = row[th[a].obj].type
    BY <1>4, <1>0, <2>1 DEF EndMerge, RowRec
  <2>3. /\ OtherRows({th[a].obj}) /\ OtherActors(a) /\ stale' = stale
        /\ th[a].at = "link" /\ th'[a].at = "idle"
    BY <1>4 DEF EndMerge, past
  <2> QED
    BY <1>k, <2>1, <2>2, <2>3 DEF OtherRows, OtherActors, Valid
<1>5. ASSUME NEW a \in Actors, DropBit(a) PROVE Goal
  BY <1>5, <1>k DEF DropBit, past, OtherActors
<1>6. ASSUME NEW a \in Actors, NEW o \in Rows, TakeBit(a, o) PROVE Goal
  BY <1>6, <1>k DEF TakeBit, past, OtherActors, Bystander
<1>7. ASSUME NEW a \in Actors, NEW o \in Rows, LinkChild(a, o) PROVE Goal
  <2>1. SameRow
    BY <1>7, LinkEffect DEF OtherRows, Valid
  <2>2. SameTold
    BY <1>7 DEF LinkChild, SameTable, past, OtherActors
  <2> QED
    BY <1>k, <2>1, <2>2
<1>8. ASSUME NEW a \in Actors, NEW o \in Rows, UnlinkChild(a, o) PROVE Goal
  <2>1. SameRow
    BY <1>8, <1>0 DEF UnlinkChild, OtherRows, RowRec
  <2>2. SameTold
    BY <1>8 DEF UnlinkChild, SameTable, past, OtherActors
  <2> QED
    BY <1>k, <2>1, <2>2
<1>9. ASSUME NEW a \in Actors, NEW o \in Rows, UnlinkParent(a, o) PROVE Goal
  <2>1. SameRow
    BY <1>9, <1>0 DEF UnlinkParent, OtherRows, RowRec
  <2>2. SameTold
    BY <1>9 DEF UnlinkParent, SameTable, past, OtherActors
  <2> QED
    BY <1>k, <2>1, <2>2
<1>10. ASSUME NEW a \in Actors, NEW o \in Rows, Finish(a, o) PROVE Goal
  <2>1. /\ OtherRows({o}) /\ OtherActors(a) /\ th[a].at = "idle" /\ stale' = stale
        /\ row'[o].type = row[o].type /\ row[o].state # "invalid"
    BY <1>10 DEF Finish, Idle, SameTable, past
  <2>2. SameRow /\ Telling(p) \subseteq Telling(p)'
    BY <2>1 DEF OtherRows, OtherActors, Telling
  <2>3. CASE p \in row[o].parents
    <3>1. row[p].state # "invalid" => row[p].type = "group"
      BY <2>3 DEF LinkInv, RowInv, Valid
    <3> QED
      BY <1>i, <2>1, <2>2, <3>1
  <2>4. CASE p \notin row[o].parents
    <3>1. Telling(p)' \subseteq Telling(p)
      BY <1>10, <2>1, <2>4 DEF Finish, OtherActors, Telling
    <3>2. Coming(p)' = Coming(p)
      BY <2>1, <2>2, <3>1 DEF Coming
    <3> QED
      BY <1>i, <2>1, <2>2, <3>2
  <2> QED
    BY <2>3, <2>4
<1>11. ASSUME NEW a \in Actors, NEW o \in Rows, TellParent(a, o) PROVE Goal
  <2>1. /\ OtherRows({o}) /\ OtherActors(a) /\ stale' = [stale EXCEPT ![o] = stale[o] \ {a}]
        /\ th[a].at = "parents"
        /\ \/ th'[a].at = "parents" /\ th'[a].todo = th[a].todo \ {o}
           \/ th[a].todo = {o} /\ th'[a].at = "idle"
    BY <1>11 DEF TellParent
  <2>2. SameRow
    BY <1>11 DEF TellParent, OtherRows, Valid
  <2>3. CASE p = o
    <3>1. Telling(p)' = Telling(p) \ {a} /\ stale'[p] = stale[p] \ {a}
      BY <2>1, <2>3 DEF OtherActors, Telling, BaseType
    <3>2. Coming(p)' \subseteq Coming(p)
      BY <3>1 DEF Coming
    <3> QED
      BY <1>i, <2>2, <3>1, <3>2
  <2>4. CASE p # o
    <3>1. Telling(p)' = Telling(p) /\ stale'[p] = stale[p]
      BY <2>1, <2>4 DEF OtherActors, Telling, BaseType
    <3>2. Coming(p)' = Coming(p)
      BY <3>1 DEF Coming
    <3> QED
      BY <1>i, <2>2, <3>1, <3>2
  <2> QED
    BY <2>3, <2>4
<1>12. ASSUME NEW a \in Actors, NEW o \in Rows, Destroyed(a, o) PROVE Goal
  BY <1>12, <1>k, Constants DEF Destroyed, Idle, SameTable, past, OtherRows, OtherActors
<1> QED
  BY <1>1, <1>2, <1>3, <1>4, <1>5, <1>6, <1>7, <1>8, <1>9, <1>10, <1>11, <1>12
     DEF StepKind

-----------------------------------------------------------------------------
(* What groups wait for.                                                   *)

\* One element more.
LEMMA AddOne ==
    ASSUME NEW S, IsFiniteSet(S), NEW x
    PROVE  /\ IsFiniteSet(S \union {x}) /\ Cardinality(S) \in Nat
           /\ Cardinality(S \union {x}) \in Nat
           /\ Cardinality(S \union {x}) <= Cardinality(S) + 1
<1>1. /\ IsFiniteSet(S \union {x})
      /\ Cardinality(S \union {x}) = IF x \in S THEN Cardinality(S) ELSE Cardinality(S) + 1
  BY FS_AddElement
<1>2. Cardinality(S) \in Nat
  BY FS_CardinalityType
<1> QED
  BY <1>1, <1>2

\* A group waits for no more than before.
LEMMA WaitsKept ==
    ASSUME BaseType, GroupWaits, NEW g \in Rows, Valid(g), g \notin spoilt, stale'[g] = stale[g],
           \A c \in Rows : g \in row'[c].parents => g \in row[c].parents,
           \A b \in Actors : th'[b].at = "parents" /\ g \in th'[b].todo =>
                                th[b].at = "parents" /\ g \in th[b].todo
    PROVE  /\ Cardinality(Linked(g)') \in Nat /\ Cardinality(Coming(g)') \in Nat
           /\ row[g].remaining \in Nat
           /\ row[g].remaining >= Cardinality(Linked(g)') + Cardinality(Coming(g)')
<1>1. Linked(g)' \subseteq Linked(g) /\ Coming(g)' \subseteq Coming(g)
  BY DEF Linked, Coming, Telling
<1>2. /\ Cardinality(Linked(g)') <= Cardinality(Linked(g))
      /\ Cardinality(Coming(g)') <= Cardinality(Coming(g))
  BY <1>1, CountedSets, FS_Subset
<1>3. row[g].remaining >= Cardinality(Linked(g)) + Cardinality(Coming(g))
  BY DEF GroupWaits
<1>4. row[g].remaining \in Nat
  BY DEF BaseType, RowRec
<1> QED
  BY <1>2, <1>3, <1>4, CountedSets

\* Every step keeps that groups count what they wait for.
LEMMA WaitStep ==
    ASSUME BaseType, OwnInv, RowInv, LinkInv, GroupWaits, StepKind,
           NEW g \in Rows, g \notin spoilt', row'[g].state # "invalid"
    PROVE  row'[g].remaining >= Cardinality(Linked(g)') + Cardinality(Coming(g)')
<1> DEFINE Goal == row'[g].remaining >= Cardinality(Linked(g)') + Cardinality(Coming(g)')
           Keep == /\ Valid(g) /\ row'[g].remaining = row[g].remaining
                   /\ g \notin spoilt /\ stale'[g] = stale[g]
                   /\ \A c \in Rows : g \in row'[c].parents => g \in row[c].parents
                   /\ \A b \in Actors : th'[b].at = "parents" /\ g \in th'[b].todo =>
                                           th[b].at = "parents" /\ g \in th[b].todo
<1>0. /\ \A e \in Actors : Owner(e) => th[e].obj \in bits /\ th[e].obj \in Rows
      /\ Free \notin Actors /\ bits \subseteq Rows
      /\ \A r \in Rows : row[r] \in RowRec
      /\ \A e \in Actors : th[e] \in ThreadRec
  BY SyncAssumption DEF BaseType, OwnInv, Actors
<1>g. row'[g].state # "invalid" /\ g \notin spoilt'
  OBVIOUS
<1>k. Keep => Goal
  BY WaitsKept
<1> SUFFICES Goal
  OBVIOUS
<1>1. ASSUME Quiet PROVE Goal
  <2>1. Keep
    BY <1>1, <1>0, <1>g DEF Quiet, SameTable, past, OtherRows, OtherActors, Valid, SameLinks, Bystander
  <2> QED
    BY <1>k, <2>1
<1>2. ASSUME NEW a \in Actors, Fill(a) PROVE Goal
  <2> DEFINE x == th[a].obj
  <2>1. /\ x \in Rows /\ ~Valid(x) /\ row'[x].parents = {} /\ OtherRows({x})
        /\ row'[x].remaining = 0 /\ OtherActors(a) /\ th'[a].at # "parents"
    BY <1>2, <1>0, Constants DEF Fill, OwnInv, Owner
  <2>2. CASE g = x
    <3>1. \A d \in Actors : th[d].at \in {"undo", "unlink"} => th[d].obj # x
      BY <1>2 DEF Fill, OwnInv, Owner
    <3>2. \A c \in Rows : x \notin row'[c].parents
      BY <2>1, <3>1, NoChild DEF OtherRows
    <3>3. stale'[g] = Telling(g) /\ Telling(g)' \subseteq Telling(g)
      BY <1>2, <2>1, <2>2 DEF Fill, BaseType, Telling, OtherActors
    <3>4. Linked(g)' = {} /\ Coming(g)' = {}
      BY <2>2, <3>2, <3>3 DEF Linked, Coming
    <3>5. Cardinality(Linked(g)') = 0 /\ Cardinality(Coming(g)') = 0
      BY <3>4, FS_EmptySet
    <3> QED
      BY <2>1, <2>2, <3>5
  <2>3. CASE g # x
    <3>1. g \notin spoilt /\ stale'[g] = stale[g]
      BY <1>2, <1>g, <2>1, <2>3 DEF Fill, BaseType
    <3>2. Keep
      BY <1>g, <2>1, <2>3, <3>1 DEF OtherRows, OtherActors, Valid
    <3> QED
      BY <1>k, <3>2
  <2> QED
    BY <2>2, <2>3
<1>3. ASSUME NEW a \in Actors, FailMerge(a) PROVE Goal
  <2>1. Keep
    BY <1>3, <1>0, <1>g, Constants DEF FailMerge, SameTable, past, OtherRows, OtherActors, Valid,
       OwnInv, Owner
  <2> QED
    BY <1>k, <2>1
<1>4. ASSUME NEW a \in Actors, EndMerge(a) PROVE Goal
  <2>1. th[a].obj \in Rows
    BY <1>4, <1>0 DEF EndMerge, Owner
  <2>2. /\ row'[th[a].obj].parents = row[th[a].obj].parents
        /\ row'[th[a].obj].remaining = row[th[a].obj].remaining
        /\ Valid(th[a].obj)
    BY <1>4, <1>0, <2>1 DEF EndMerge, RowRec, OwnInv, Owner
  <2>3. /\ OtherRows({th[a].obj}) /\ OtherActors(a) /\ th'[a].at = "idle"
        /\ stale' = stale /\ spoilt' = spoilt
    BY <1>4 DEF EndMerge, past
  <2>4. Keep
    BY <1>g, <2>2, <2>3 DEF OtherRows, OtherActors, Valid
  <2> QED
    BY <1>k, <2>4
<1>5. ASSUME NEW a \in Actors, DropBit(a) PROVE Goal
  <2>1. Keep
    BY <1>5, <1>0, <1>g DEF DropBit, past, OtherRows, OtherActors, Valid
  <2> QED
    BY <1>k, <2>1
<1>6. ASSUME NEW a \in Actors, NEW o \in Rows, TakeBit(a, o) PROVE Goal
  <2>1. Keep
    BY <1>6, <1>0, <1>g DEF TakeBit, past, OtherRows, OtherActors, Valid
  <2> QED
    BY <1>k, <2>1
<1>7. ASSUME NEW a \in Actors, NEW o \in Rows, LinkChild(a, o) PROVE Goal
  <2> DEFINE x == th[a].obj
  <2>1. \A b \in Actors : th'[b].at = "parents" /\ g \in th'[b].todo =>
                             th[b].at = "parents" /\ g \in th[b].todo
    BY <1>7 DEF LinkChild, OtherActors
  <2>s. g \notin spoilt /\ stale' = stale
    BY <1>7, <1>g DEF LinkChild, SameTable, past
  <2>2. /\ x \in Rows /\ x # o /\ Valid(x) /\ Valid(o)
        /\ \A c \in Rows : c # x /\ c # o => row'[c] = row[c]
        /\ row'[x].parents = row[x].parents
        /\ row'[o].state = row[o].state /\ row'[o].remaining = row[o].remaining
        /\ \/ /\ row'[x].remaining = row[x].remaining
              /\ row'[o].parents = row[o].parents
           \/ /\ row'[x].remaining = row[x].remaining + 1
              /\ row'[o].parents = row[o].parents \union {x}
    BY <1>7, LinkEffect DEF OtherRows, Valid
  <2> HIDE DEF x
  <2>3. CASE g # x \/ (row'[x].remaining = row[x].remaining /\ row'[o].parents = row[o].parents)
    <3>1. \A c \in Rows : g \in row'[c].parents => g \in row[c].parents
      BY <2>2, <2>3
    <3>2. Valid(g) /\ row'[g].remaining = row[g].remaining
      BY <1>g, <2>2, <2>3 DEF Valid
    <3> QED
      BY <1>k, <2>1, <2>s, <3>1, <3>2
  <2>4. CASE /\ g = x /\ row'[x].remaining = row[x].remaining + 1
             /\ row'[o].parents = row[o].parents \union {x}
    <3>1. Linked(g)' \subseteq Linked(g) \union {o} /\ Coming(g)' \subseteq Coming(g)
      BY <2>1, <2>2, <2>s, <2>4 DEF Linked, Coming, Telling
    <3>2. /\ IsFiniteSet(Linked(g) \union {o})
          /\ Cardinality(Linked(g) \union {o}) \in Nat
          /\ Cardinality(Linked(g) \union {o}) <= Cardinality(Linked(g)) + 1
      BY CountedSets, AddOne
    <3>3. Cardinality(Linked(g)') <= Cardinality(Linked(g) \union {o})
      BY <3>1, <3>2, FS_Subset
    <3>4. Cardinality(Coming(g)') <= Cardinality(Coming(g))
      BY <3>1, CountedSets, FS_Subset
    <3>5. /\ row[g].remaining >= Cardinality(Linked(g)) + Cardinality(Coming(g))
          /\ row[g].remaining \in Nat
      BY <1>0, <2>2, <2>s, <2>4 DEF GroupWaits, RowRec
    <3> QED
      BY <2>4, <3>2, <3>3, <3>4, <3>5, CountedSets
  <2>5. \/ g # x \/ (row'[x].remaining = row[x].remaining /\ row'[o].parents = row[o].parents)
        \/ /\ g = x /\ row'[x].remaining = row[x].remaining + 1
           /\ row'[o].parents = row[o].parents \union {x}
    BY <2>2
  <2> QED
    BY <2>3, <2>4, <2>5
<1>8. ASSUME NEW a \in Actors, NEW o \in Rows, UnlinkChild(a, o) PROVE Goal
  <2>1. Keep
    BY <1>8, <1>0, <1>g DEF UnlinkChild, SameTable, past, OtherRows, OtherActors, Valid, RowRec
  <2> QED
    BY <1>k, <2>1
<1>9. ASSUME NEW a \in Actors, NEW o \in Rows, UnlinkParent(a, o) PROVE Goal
  <2>1. Keep
    BY <1>9, <1>0, <1>g DEF UnlinkParent, SameTable, past, OtherRows, OtherActors, Valid, RowRec
  <2> QED
    BY <1>k, <2>1
<1>10. ASSUME NEW a \in Actors, NEW o \in Rows, Finish(a, o) PROVE Goal
  <2>1. /\ OtherRows({o}) /\ OtherActors(a) /\ row'[o].parents = {} /\ Idle(a)
        /\ row'[o].remaining = row[o].remaining /\ Valid(o)
    BY <1>10 DEF Finish, Valid
  <2>s. g \notin spoilt /\ stale' = stale
    BY <1>10, <1>g DEF Finish, SameTable, past
  <2>2. Valid(g) /\ row'[g].remaining = row[g].remaining
    BY <1>g, <2>1 DEF OtherRows, Valid
  <2>3. CASE g \in row[o].parents
    <3>1. o \in Linked(g) /\ Linked(g)' \subseteq Linked(g) \ {o}
      BY <2>1, <2>3 DEF Linked, OtherRows
    <3>2. Coming(g)' \subseteq Coming(g) \union {a}
      BY <2>1, <2>s DEF Coming, Telling, OtherActors
    <3>3. /\ IsFiniteSet(Linked(g) \ {o})
          /\ Cardinality(Linked(g) \ {o}) = Cardinality(Linked(g)) - 1
      BY <3>1, CountedSets, FS_RemoveElement
    <3>4. /\ IsFiniteSet(Coming(g) \union {a})
          /\ Cardinality(Coming(g) \union {a}) \in Nat
          /\ Cardinality(Coming(g) \union {a}) <= Cardinality(Coming(g)) + 1
      BY CountedSets, AddOne
    <3>5. /\ Cardinality(Linked(g)') <= Cardinality(Linked(g) \ {o})
          /\ Cardinality(Coming(g)') <= Cardinality(Coming(g) \union {a})
      BY <3>1, <3>2, <3>3, <3>4, FS_Subset
    <3>6. /\ row[g].remaining >= Cardinality(Linked(g)) + Cardinality(Coming(g))
          /\ row[g].remaining \in Nat
      BY <1>0, <2>2, <2>s DEF GroupWaits, RowRec
    <3> QED
      BY <2>2, <3>3, <3>4, <3>5, <3>6, CountedSets
  <2>4. CASE g \notin row[o].parents
    <3>1. \A b \in Actors : th'[b].at = "parents" /\ g \in th'[b].todo =>
                               th[b].at = "parents" /\ g \in th[b].todo
      BY <1>10, <2>1, <2>4 DEF Finish, OtherActors, Idle
    <3>2. \A c \in Rows : g \in row'[c].parents => g \in row[c].parents
      BY <2>1 DEF OtherRows
    <3> QED
      BY <1>k, <2>2, <2>s, <3>1, <3>2
  <2> QED
    BY <2>3, <2>4
<1>11. ASSUME NEW a \in Actors, NEW o \in Rows, TellParent(a, o) PROVE Goal
  <2>1. /\ OtherRows({o}) /\ OtherActors(a) /\ row'[o].parents = row[o].parents
        /\ th[a].at = "parents" /\ o \in th[a].todo
        /\ th'[a].at = "parents" => th'[a].todo = th[a].todo \ {o}
        /\ g \notin spoilt /\ stale' = [stale EXCEPT ![o] = stale[o] \ {a}]
        /\ g = o /\ Valid(o) => a \notin stale[o]
    BY <1>11, <1>g DEF TellParent
  <2>s. stale'[g] = stale[g] \/ (g = o /\ stale'[g] = stale[g] \ {a})
    BY <2>1 DEF BaseType
  <2>2. \A c \in Rows : row'[c].parents = row[c].parents
    BY <2>1 DEF OtherRows
  <2>3. \A b \in Actors : th'[b].at = "parents" /\ g \in th'[b].todo =>
                             th[b].at = "parents" /\ g \in th[b].todo
    BY <2>1 DEF OtherActors
  <2>4. CASE g = o /\ Valid(o)
    <3>1. /\ a \in Coming(g) /\ Coming(g)' \subseteq Coming(g) \ {a} /\ Linked(g)' = Linked(g)
      BY <2>1, <2>2, <2>s, <2>4 DEF Coming, Telling, Linked, OtherActors
    <3>2. /\ IsFiniteSet(Coming(g) \ {a})
          /\ Cardinality(Coming(g) \ {a}) = Cardinality(Coming(g)) - 1
      BY <3>1, CountedSets, FS_RemoveElement
    <3>3. Cardinality(Coming(g)') <= Cardinality(Coming(g) \ {a})
      BY <3>1, <3>2, FS_Subset
    <3>4. /\ row[g].remaining >= Cardinality(Linked(g)) + Cardinality(Coming(g))
          /\ row[g].remaining \in Nat
      BY <1>0, <2>1, <2>4 DEF GroupWaits, RowRec
    <3>5. row'[g].remaining = row[g].remaining - 1
      <4>1. Cardinality(Coming(g)) # 0
        BY <3>1, CountedSets, FS_EmptySet
      <4>2. row[g].remaining # 0
        BY <3>4, <4>1, CountedSets
      <4> QED
        BY <1>11, <2>4, <4>2 DEF TellParent, Decrement
    <3> QED
      BY <3>1, <3>2, <3>3, <3>4, <3>5, CountedSets
  <2>5. CASE ~(g = o /\ Valid(o))
    <3>1. row'[g] = row[g]
      BY <1>11, <2>1, <2>5 DEF TellParent, OtherRows
    <3>2. stale'[g] = stale[g]
      BY <1>g, <2>1, <2>5, <2>s, <3>1 DEF Valid
    <3>3. Keep
      BY <1>g, <2>1, <2>2, <2>3, <3>1, <3>2 DEF Valid
    <3> QED
      BY <1>k, <3>3
  <2> QED
    BY <2>4, <2>5
<1>12. ASSUME NEW a \in Actors, NEW o \in Rows, Destroyed(a, o) PROVE Goal
  <2>1. Keep
    BY <1>12, <1>0, <1>g, Constants DEF Destroyed, SameTable, past, OtherRows, OtherActors, Valid
  <2> QED
    BY <1>k, <2>1
<1> QED
  BY <1>1, <1>2, <1>3, <1>4, <1>5, <1>6, <1>7, <1>8, <1>9, <1>10, <1>11, <1>12
     DEF StepKind

-----------------------------------------------------------------------------
(* Callbacks.                                                              *)

\* Every step keeps that complete objects have called back.
LEMMA ServedStep ==
    ASSUME BaseType, OwnInv, RowInv, ServedInv, StepKind,
           NEW x \in Rows, row'[x].state \in Signaled, row'[x].remaining = 0, lock'[x] = Free
    PROVE  row'[x].done /\ "kernel" \notin row'[x].cbs
<1> DEFINE Goal == row'[x].done /\ "kernel" \notin row'[x].cbs
<1>0. /\ \A e \in Actors : Owner(e) => th[e].obj \in bits /\ th[e].obj \in Rows
      /\ Free \notin Actors /\ bits \subseteq Rows
      /\ \A r \in Rows : row[r] \in RowRec
      /\ \A e \in Actors : th[e] \in ThreadRec
  BY SyncAssumption DEF BaseType, OwnInv, Actors
<1>g. row'[x].state \in Signaled /\ row'[x].remaining = 0 /\ lock'[x] = Free
  OBVIOUS
<1>k. row[x].state \in Signaled /\ row[x].remaining = 0 /\ lock[x] = Free =>
         row[x].done /\ "kernel" \notin row[x].cbs
  BY DEF ServedInv, Ended, Unlocked
<1>n. \A r : r \in {"active", "invalid"} => r \notin Signaled
  BY DEF Signaled, Failed
<1>1. ASSUME Quiet PROVE Goal
  <2>1. /\ row'[x].state = row[x].state /\ row'[x].remaining = row[x].remaining
        /\ lock'[x] = lock[x]
    BY <1>1 DEF Quiet, SameLinks, SameTable
  <2>2. Ended(x)
    BY <1>g, <2>1 DEF Ended
  <2> QED
    BY <1>1, <1>g, <1>k, <2>1, <2>2 DEF Quiet
<1>2. ASSUME NEW a \in Actors, Fill(a) PROVE Goal
  <2>1. x # th[a].obj /\ OtherRows({th[a].obj})
    BY <1>2, <1>g, <1>n, Constants DEF Fill
  <2>2. row'[x] = row[x]
    BY <2>1 DEF OtherRows
  <2>3. lock'[x] = lock[x]
    BY <1>2, <1>0, <2>1 DEF Fill, BaseType
  <2> QED
    BY <1>g, <1>k, <2>2, <2>3
<1>3. ASSUME NEW a \in Actors, FailMerge(a) PROVE Goal
  <2>1. row'[x] = row[x] /\ lock'[x] = lock[x]
    BY <1>3, <1>0, <1>g, <1>n, Constants DEF FailMerge, OtherRows, SameTable
  <2> QED
    BY <1>g, <1>k, <2>1
<1>4. ASSUME NEW a \in Actors, EndMerge(a) PROVE Goal
  <2> DEFINE y == th[a].obj
  <2>1. /\ y \in Rows /\ row[y].cbs = {} /\ OtherRows({y}) /\ lock' = [lock EXCEPT ![y] = Free]
    BY <1>4, <1>0 DEF EndMerge, OwnInv, Owner
  <2>2. CASE x = y
    <3>1. row'[y] = IF row[y].remaining > 0 THEN row[y]
                    ELSE [row[y] EXCEPT !.done = TRUE,
                                        !.state = IF row[y].state \in Failed
                                                  THEN row[y].state ELSE "success"]
      BY <1>4 DEF EndMerge
    <3>2. row[y] \in RowRec
      BY <1>0, <2>1
    <3> HIDE DEF y
    <3>3. ~(row[y].remaining > 0)
      BY <1>g, <2>2, <3>1
    <3>4. row'[y].done = TRUE /\ row'[y].cbs = row[y].cbs
      BY <3>1, <3>2, <3>3 DEF RowRec
    <3> QED
      BY <2>1, <2>2, <3>4
  <2>3. CASE x # y
    <3>1. row'[x] = row[x] /\ lock'[x] = lock[x]
      BY <2>1, <2>3 DEF OtherRows, BaseType
    <3> QED
      BY <1>g, <1>k, <3>1
  <2> QED
    BY <2>2, <2>3
<1>5. ASSUME NEW a \in Actors, DropBit(a) PROVE Goal
  <2>1. row'[x] = row[x] /\ lock'[x] = lock[x]
    BY <1>5, <1>0, <1>g, <1>n DEF DropBit, OtherRows, SameTable
  <2> QED
    BY <1>g, <1>k, <2>1
<1>6. ASSUME NEW a \in Actors, NEW o \in Rows, TakeBit(a, o) PROVE Goal
  <2>1. row'[x] = row[x] /\ lock'[x] = lock[x]
    BY <1>6, <1>0, <1>g, <1>n DEF TakeBit, OtherRows, SameTable
  <2> QED
    BY <1>g, <1>k, <2>1
<1>7. ASSUME NEW a \in Actors, NEW o \in Rows, LinkChild(a, o) PROVE Goal
  <2>a. lock' = lock
    BY <1>7 DEF LinkChild, SameTable
  <2>b. lock[th[a].obj] = a /\ a # Free
    BY <1>7, <1>0, LinkEffect DEF OtherRows, Valid
  <2>1. x # th[a].obj /\ lock'[x] = lock[x]
    BY <1>g, <2>a, <2>b
  <2>2. /\ row'[x].state = row[x].state /\ row'[x].remaining = row[x].remaining
        /\ row'[x].done = row[x].done /\ row'[x].cbs = row[x].cbs
    BY <1>7, <2>1, LinkEffect DEF OtherRows
  <2> QED
    BY <1>g, <1>k, <2>1, <2>2
<1>8. ASSUME NEW a \in Actors, NEW o \in Rows, UnlinkChild(a, o) PROVE Goal
  <2>1. /\ row'[x].state = row[x].state /\ row'[x].remaining = row[x].remaining
        /\ row'[x].done = row[x].done /\ row'[x].cbs = row[x].cbs /\ lock'[x] = lock[x]
    BY <1>8, <1>0 DEF UnlinkChild, OtherRows, RowRec, SameTable
  <2> QED
    BY <1>g, <1>k, <2>1
<1>9. ASSUME NEW a \in Actors, NEW o \in Rows, UnlinkParent(a, o) PROVE Goal
  <2>1. /\ row'[x].state = row[x].state /\ row'[x].remaining = row[x].remaining
        /\ row'[x].done = row[x].done /\ row'[x].cbs = row[x].cbs /\ lock'[x] = lock[x]
    BY <1>9, <1>0 DEF UnlinkParent, OtherRows, RowRec, SameTable
  <2> QED
    BY <1>g, <1>k, <2>1
<1>10. ASSUME NEW a \in Actors, NEW o \in Rows, Finish(a, o) PROVE Goal
  <2>1. CASE x = o
    BY <1>10, <2>1 DEF Finish
  <2>2. CASE x # o
    <3>1. row'[x] = row[x] /\ lock'[x] = lock[x]
      BY <1>10, <2>2 DEF Finish, OtherRows, SameTable
    <3> QED
      BY <1>g, <1>k, <3>1
  <2> QED
    BY <2>1, <2>2
<1>11. ASSUME NEW a \in Actors, NEW o \in Rows, TellParent(a, o) PROVE Goal
  <2>1. CASE x = o /\ Valid(o)
    <3>1. row[o].remaining \in Nat /\ row'[o].remaining = Decrement(row[o].remaining)
      BY <1>0, <1>11, <2>1 DEF TellParent, RowRec
    <3>2. Wrap - 1 # 0
      <4>1. Closer \in Actors /\ Cardinality(Actors) # 0
        BY ThreadActor, FiniteActors, FS_EmptySet
      <4> QED
        BY <4>1, FiniteActors
    <3>3. row[o].remaining = 1
      <4>1. Decrement(row[o].remaining) = 0
        BY <1>g, <2>1, <3>1
      <4> QED
        BY <3>1, <3>2, <4>1, FiniteActors DEF Decrement
    <3> QED
      BY <1>11, <2>1, <3>3 DEF TellParent
  <2>2. CASE ~(x = o /\ Valid(o))
    <3>1. row'[x] = row[x] /\ lock'[x] = lock[x]
      BY <1>11, <2>2 DEF TellParent, OtherRows, SameTable
    <3> QED
      BY <1>g, <1>k, <3>1
  <2> QED
    BY <2>1, <2>2
<1>12. ASSUME NEW a \in Actors, NEW o \in Rows, Destroyed(a, o) PROVE Goal
  <2>1. row'[x] = row[x] /\ lock'[x] = lock[x]
    BY <1>12, <1>0, <1>g, <1>n, Constants DEF Destroyed, OtherRows, SameTable
  <2> QED
    BY <1>g, <1>k, <2>1
<1> QED
  BY <1>1, <1>2, <1>3, <1>4, <1>5, <1>6, <1>7, <1>8, <1>9, <1>10, <1>11, <1>12
     DEF StepKind

\* A step never turns a failure into a success.
LEMMA StickStep ==
    ASSUME BaseType, OwnInv, StepKind, NEW x \in Rows, row[x].state \in Failed
    PROVE  row'[x].state \in Failed \union {"invalid"}
<1> DEFINE Goal == row'[x].state \in Failed \union {"invalid"}
<1>0. /\ \A e \in Actors : Owner(e) => th[e].obj \in bits /\ th[e].obj \in Rows
      /\ Free \notin Actors /\ bits \subseteq Rows
      /\ \A r \in Rows : row[r] \in RowRec
      /\ \A e \in Actors : th[e] \in ThreadRec
  BY SyncAssumption DEF BaseType, OwnInv, Actors
<1>g. row[x].state \in Failed /\ row[x].state # "invalid" /\ row[x].state # "active"
  BY DEF Failed
<1>1. ASSUME Quiet PROVE Goal
  BY <1>1, <1>0, <1>g DEF Quiet, OtherRows, SameLinks
<1>2. ASSUME NEW a \in Actors, Fill(a) PROVE Goal
  <2>1. x # th[a].obj
    BY <1>2, <1>g DEF Fill, OwnInv, Owner, Valid
  <2> QED
    BY <1>2, <1>g, <2>1 DEF Fill, OtherRows
<1>3. ASSUME NEW a \in Actors, FailMerge(a) PROVE Goal
  BY <1>3, <1>0, <1>g, Constants DEF FailMerge, OtherRows
<1>4. ASSUME NEW a \in Actors, EndMerge(a) PROVE Goal
  <2>1. CASE x = th[a].obj
    BY <1>4, <1>0, <1>g, <2>1 DEF EndMerge, RowRec
  <2>2. CASE x # th[a].obj
    BY <1>4, <1>g, <2>2 DEF EndMerge, OtherRows
  <2> QED
    BY <2>1, <2>2
<1>5. ASSUME NEW a \in Actors, DropBit(a) PROVE Goal
  BY <1>5, <1>0, <1>g DEF DropBit, OtherRows
<1>6. ASSUME NEW a \in Actors, NEW o \in Rows, TakeBit(a, o) PROVE Goal
  BY <1>6, <1>0, <1>g DEF TakeBit, OtherRows
<1>7. ASSUME NEW a \in Actors, NEW o \in Rows, LinkChild(a, o) PROVE Goal
  BY <1>7, <1>g, LinkEffect DEF OtherRows
<1>8. ASSUME NEW a \in Actors, NEW o \in Rows, UnlinkChild(a, o) PROVE Goal
  BY <1>8, <1>0, <1>g DEF UnlinkChild, OtherRows, RowRec
<1>9. ASSUME NEW a \in Actors, NEW o \in Rows, UnlinkParent(a, o) PROVE Goal
  BY <1>9, <1>0, <1>g DEF UnlinkParent, OtherRows, RowRec
<1>10. ASSUME NEW a \in Actors, NEW o \in Rows, Finish(a, o) PROVE Goal
  BY <1>10, <1>0, <1>g DEF Finish, OtherRows
<1>11. ASSUME NEW a \in Actors, NEW o \in Rows, TellParent(a, o) PROVE Goal
  BY <1>11, <1>0, <1>g DEF TellParent, OtherRows, UpdateParentState
<1>12. ASSUME NEW a \in Actors, NEW o \in Rows, Destroyed(a, o) PROVE Goal
  BY <1>12, <1>0, <1>g, Constants DEF Destroyed, OtherRows
<1> QED
  BY <1>1, <1>2, <1>3, <1>4, <1>5, <1>6, <1>7, <1>8, <1>9, <1>10, <1>11, <1>12
     DEF StepKind

-----------------------------------------------------------------------------
(* Types.                                                                  *)

\* Values that may be stored in the fields of a row.
LEMMA RowUpdates ==
    ASSUME NEW r \in RowRec
    PROVE  /\ [r EXCEPT !.ref = 0] \in RowRec
           /\ [r EXCEPT !.ref = @ + 1] \in RowRec /\ [r EXCEPT !.ref = @ - 1] \in RowRec
           /\ \A n \in Nat : [r EXCEPT !.remaining = n] \in RowRec
           /\ \A S \in SUBSET Rows : [r EXCEPT !.parents = S] \in RowRec
           /\ \A S \in SUBSET Rows : [r EXCEPT !.children = S] \in RowRec
           /\ \A K \in SUBSET Kinds : [r EXCEPT !.cbs = K] \in RowRec
           /\ \A s \in Signaled : [r EXCEPT !.state = s] \in RowRec
           /\ [r EXCEPT !.done = TRUE] \in RowRec
<1>2. r.ref \in Int
  BY DEF RowRec
<1>3. [r EXCEPT !.ref = 0] \in RowRec
  BY DEF RowRec
<1>4. [r EXCEPT !.ref = @ + 1] \in RowRec /\ [r EXCEPT !.ref = @ - 1] \in RowRec
  <2>1. r.ref + 1 \in Int /\ r.ref - 1 \in Int
    BY <1>2
  <2> QED
    BY <2>1 DEF RowRec
<1>5. /\ \A n \in Nat : [r EXCEPT !.remaining = n] \in RowRec
      /\ \A S \in SUBSET Rows : [r EXCEPT !.parents = S] \in RowRec
      /\ \A S \in SUBSET Rows : [r EXCEPT !.children = S] \in RowRec
      /\ \A K \in SUBSET Kinds : [r EXCEPT !.cbs = K] \in RowRec
      /\ \A s \in Signaled : [r EXCEPT !.state = s] \in RowRec
      /\ [r EXCEPT !.done = TRUE] \in RowRec
  BY DEF RowRec
<1> QED
  BY <1>3, <1>4, <1>5

\* What Dispatch makes of a row.
LEMMA DispatchType ==
    ASSUME BaseType, NEW o \in Rows
    PROVE  /\ Dispatch(row[o], o) \in RowRec
           /\ Dispatch(row[o], o).remaining = row[o].remaining
           /\ Dispatch(row[o], o).state = row[o].state
           /\ Dispatch(row[o], o).type = row[o].type /\ Dispatch(row[o], o).ref = row[o].ref
           /\ Served(o) \subseteq Kinds
<1>1. row[o] \in RowRec
  BY DEF BaseType
<1>2. row[o].cbs \in SUBSET Kinds
  BY <1>1 DEF RowRec
<1>3. \A S : row[o].cbs \ S \in SUBSET Kinds
  BY <1>2
<1>4. Served(o) \subseteq Kinds
  BY <1>2 DEF Served
<1>5. Dispatch(row[o], o) \in RowRec
  BY <1>1, <1>3 DEF Dispatch, RowRec
<1> QED
  BY <1>1, <1>4, <1>5 DEF Dispatch, RowRec

\* Callbacks under way have their type.
LEMMA EnqueueType ==
    ASSUME BaseType, NEW o \in Rows, NEW k, NEW s \in Signaled, Enqueue(o, k, s)
    PROVE  out' \subseteq [obj : Rows, status : Signaled]
BY DEF Enqueue, BaseType

\* A signal keeps the types.
LEMMA SignalType ==
    ASSUME BaseType, NEW a \in Actors, NEW o \in Rows, NEW s \in Signaled, Signal(a, o, s)
    PROVE  /\ row' \in [Rows -> RowRec] /\ th' \in [Actors -> ThreadRec]
           /\ out' \subseteq [obj : Rows, status : Signaled]
<1>1. CASE row[o].state # "active" \/ row[o].type = "group"
  BY <1>1 DEF Signal, BaseType
<1>2. CASE row[o].state = "active" /\ row[o].type # "group" /\ row[o].ref # 1
  <2>1. row' = [row EXCEPT ![o].ref = @ - 1] /\ th' = th /\ out' = out
    BY <1>2 DEF Signal
  <2>2. row[o] \in RowRec /\ row[o].ref \in Int
    BY DEF BaseType, RowRec
  <2>3. [row[o] EXCEPT !.ref = @ - 1] \in RowRec
    BY <2>2, RowUpdates
  <2> QED
    BY <2>1, <2>3 DEF BaseType
<1>3. CASE row[o].state = "active" /\ row[o].type # "group" /\ row[o].ref = 1
  <2>1. /\ row' = [row EXCEPT ![o] = [Dispatch(row[o], o) EXCEPT
                                            !.ref = 0, !.state = s, !.parents = {}]]
        /\ th' = IF row[o].parents = {} THEN th
                 ELSE [th EXCEPT ![a] = [IdleThread EXCEPT !.at = "parents",
                                           !.todo = row[o].parents, !.status = s]]
        /\ Enqueue(o, row[o].cbs, s)
    BY <1>3 DEF Signal
  <2>2. \A r \in RowRec : [r EXCEPT !.ref = 0, !.state = s, !.parents = {}] \in RowRec
    <3> SUFFICES ASSUME NEW r \in RowRec
                 PROVE  [r EXCEPT !.ref = 0, !.state = s, !.parents = {}] \in RowRec
      OBVIOUS
    <3>1. [r EXCEPT !.ref = 0] \in RowRec
      BY RowUpdates
    <3>2. [[r EXCEPT !.ref = 0] EXCEPT !.state = s] \in RowRec
      BY <3>1, RowUpdates
    <3>3. [[[r EXCEPT !.ref = 0] EXCEPT !.state = s] EXCEPT !.parents = {}] \in RowRec
      BY <3>2, RowUpdates
    <3> QED
      BY <3>3
  <2>3. row' \in [Rows -> RowRec]
    BY <2>1, <2>2, DispatchType DEF BaseType
  <2>4. row[o].parents \in SUBSET Rows
    BY DEF BaseType, RowRec
  <2>5. [IdleThread EXCEPT !.at = "parents", !.todo = row[o].parents, !.status = s] \in ThreadRec
    BY <2>4, Constants DEF ThreadRec
  <2>6. th' \in [Actors -> ThreadRec]
    BY <2>1, <2>5 DEF BaseType
  <2>7. out' \subseteq [obj : Rows, status : Signaled]
    BY <2>1, EnqueueType
  <2> QED
    BY <2>3, <2>6, <2>7
<1> QED
  BY <1>1, <1>2, <1>3

\* A step keeps the types.
LEMMA BaseStep ==
    ASSUME BaseType, OwnInv, [Next]_vars
    PROVE  BaseType'
<1>0. /\ \A b \in Actors : Owner(b) => th[b].obj \in Rows
      /\ Free \notin Actors
      /\ \A x \in Rows : row[x] \in RowRec
      /\ \A b \in Actors : th[b] \in ThreadRec
      /\ Statuses \subseteq Signaled /\ "error" \in Signaled
  BY SyncAssumption DEF BaseType, OwnInv, Actors, Signaled, Failed
<1>p. (past' = past => stale' = stale /\ spoilt' = spoilt)
  BY DEF past
<1>f. /\ \A r \in RowRec : /\ r.ref \in Int /\ r.parents \in SUBSET Rows
                           /\ r.children \in SUBSET Rows /\ r.cbs \in SUBSET Kinds
                           /\ r.remaining \in Nat
      /\ \A x \in ThreadRec : /\ x.obj \in Rows \union {NoRow} /\ x.todo \in SUBSET Rows
                              /\ x.objs \in SUBSET Rows /\ x.status \in Signaled
  BY DEF RowRec, ThreadRec
<1>1. ASSUME NEW t \in Threads, CreateInit(t) PROVE BaseType'
  <2>1. th[t].obj \in Rows /\ t \in Actors
    BY <1>1, <1>0, ThreadActor DEF CreateInit, Owner
  <2>2. stale' \in [Rows -> SUBSET Actors] /\ spoilt' \subseteq Rows
    BY <1>1, <2>1 DEF CreateInit, Reused, Telling, BaseType
  <2> QED
    BY <1>1, <2>1, <2>2, Constants DEF CreateInit, Return, BaseType
<1>2. ASSUME NEW t \in Threads, MergeFull(t) PROVE BaseType'
  BY <1>2, <1>p, <1>0, ThreadActor, Constants DEF MergeFull, Return, BaseType
<1>3. ASSUME NEW t \in Threads, MergeLock(t) PROVE BaseType'
  <2>1. th[t].obj \in Rows /\ t \in Actors
    BY <1>3, <1>p, <1>0, ThreadActor DEF MergeLock, Owner
  <2>2. row' \in [Rows -> RowRec] /\ lock' \in [Rows -> Actors \union {Free}]
    BY <1>3, <1>p, <2>1, Constants DEF MergeLock, BaseType
  <2>3. th' \in [Actors -> ThreadRec]
    BY <1>3, <1>p, <2>1, SMTT(30) DEF MergeLock, BaseType, ThreadRec
  <2>4. stale' \in [Rows -> SUBSET Actors] /\ spoilt' \subseteq Rows
    BY <1>3, <2>1 DEF MergeLock, Reused, Telling, BaseType
  <2> QED
    BY <1>3, <2>2, <2>3, <2>4 DEF MergeLock, BaseType
<1>4. ASSUME NEW t \in Threads, MergeError(t) PROVE BaseType'
  BY <1>4, <1>p, <1>0, ThreadActor, Constants DEF MergeError, Return, BaseType
<1>5. ASSUME NEW t \in Threads, MergeDone(t) PROVE BaseType'
  <2>1. th[t].obj \in Rows /\ t \in Actors
    BY <1>5, <1>p, <1>0, ThreadActor DEF MergeDone, Owner
  <2> DEFINE g == th[t].obj
             v == IF row[g].state \in Failed THEN row[g].state ELSE "success"
             q == [row[g] EXCEPT !.done = TRUE]
  <2>a. v \in Signaled
    BY DEF Signaled
  <2>b. q \in RowRec
    BY <1>0, <1>p, <2>1, RowUpdates
  <2>c. [q EXCEPT !.state = v] \in RowRec
    BY <2>a, <2>b, RowUpdates
  <2>d. row' = row \/ row' = [row EXCEPT ![g] = [row[g] EXCEPT !.done = TRUE,
     !.state = v]]
    BY <1>5, <1>p DEF MergeDone
  <2>2. row' \in [Rows -> RowRec]
    BY <2>1, <2>c, <2>d DEF BaseType
  <2>3. lock' \in [Rows -> Actors \union {Free}] /\ th' \in [Actors -> ThreadRec]
    BY <1>5, <1>p, <2>1, Constants DEF MergeDone, BaseType, Return
  <2> QED
    BY <1>5, <1>p, <2>2, <2>3 DEF MergeDone, BaseType
<1>6. ASSUME NEW t \in Threads, NEW o \in Rows, MergeCheck(t, o) PROVE BaseType'
  <2>1. t \in Actors /\ th[t].todo \ {o} \in SUBSET Rows
    BY <1>0, <1>p, <1>f, ThreadActor
  <2>2. CASE o \in bits /\ Valid(o)
    <3> DEFINE v == IF th[t].todo = {o} THEN "bit" ELSE th[t].at
               x == [th[t] EXCEPT !.todo = th[t].todo \ {o}, !.at = v]
    <3>1. v \in {"bit", "check"}
      BY <1>6, <1>p DEF MergeCheck
    <3>2. x \in ThreadRec
      <4> HIDE DEF v
      <4> QED
        BY <1>0, <1>p, <2>1, <3>1 DEF ThreadRec
    <3>3. th' = [th EXCEPT ![t] = x]
      BY <1>6, <1>p, <2>1, <2>2 DEF MergeCheck, BaseType
    <3> QED
      BY <1>6, <1>p, <3>2, <3>3 DEF MergeCheck, BaseType
  <2>3. CASE ~(o \in bits /\ Valid(o))
    BY <1>6, <1>p, <2>1, <2>3, Constants DEF MergeCheck, Return, BaseType
  <2> QED
    BY <2>2, <2>3
<1>7. ASSUME NEW t \in Threads, NEW o \in Rows, MergeBit(t, o) PROVE BaseType'
  <2> DEFINE x == [th[t] EXCEPT !.at = "lock", !.obj = o, !.todo = th[t].objs]
  <2>1. t \in Actors /\ th[t].objs \in SUBSET Rows
    BY <1>0, <1>p, <1>f, ThreadActor
  <2>2. x \in ThreadRec
    BY <1>0, <1>p, <2>1 DEF ThreadRec
  <2>3. th' = [th EXCEPT ![t] = x]
    BY <1>7, <1>p, <2>1 DEF MergeBit, BaseType
  <2> QED
    BY <1>7, <1>p, <2>2, <2>3 DEF MergeBit, BaseType
<1>8. ASSUME NEW t \in Threads, NEW o \in Rows, MergeLink(t, o) PROVE BaseType'
  <2>1. th[t].obj \in Rows /\ t \in Actors
    BY <1>8, <1>p, <1>0, ThreadActor DEF MergeLink, Owner
  <2>t. th' \in [Actors -> ThreadRec]
    <3>1. th[t].todo \ {o} \in SUBSET Rows
      BY <1>0, <1>p, <1>f, <2>1
    <3>2. [th[t] EXCEPT !.todo = th[t].todo \ {o}] \in ThreadRec
      BY <1>0, <1>p, <2>1, <3>1 DEF ThreadRec
    <3> QED
      BY <1>8, <1>p, <2>1, <3>2 DEF MergeLink, BaseType
  <2>2. CASE row[o].state \in Failed
    <3>1. row' \in [Rows -> RowRec]
      <4>1. row[o].state \in Signaled
        BY <2>2 DEF Signaled
      <4>2. [row[th[t].obj] EXCEPT !.state = row[o].state] \in RowRec
        BY <1>0, <1>p, <2>1, <4>1, RowUpdates
      <4> QED
        BY <1>8, <1>p, <2>1, <2>2, <4>2 DEF MergeLink, BaseType
    <3> QED
      BY <1>8, <1>p, <2>t, <3>1 DEF MergeLink, BaseType
  <2>3. CASE row[o].state \notin Failed
    <3>1. row' \in [Rows -> RowRec]
      <4> DEFINE g == th[t].obj
                 m == row[g].remaining + 1
                 C == row[g].children \union {o}
                 P == row[o].parents \union {g}
                 f == [row EXCEPT ![g] = [row[g] EXCEPT !.remaining = m, !.children = C]]
      <4>1. m \in Nat /\ C \in SUBSET Rows /\ P \in SUBSET Rows
        BY <1>0, <1>p, <1>f, <2>1
      <4>2. [row[g] EXCEPT !.remaining = m] \in RowRec
        BY <1>0, <1>p, <2>1, <4>1, RowUpdates
      <4>3. [[row[g] EXCEPT !.remaining = m] EXCEPT !.children = C] \in RowRec
        BY <4>1, <4>2, RowUpdates
      <4>4. f \in [Rows -> RowRec]
        BY <4>3, <2>1 DEF BaseType
      <4>5. g # o
        BY <1>8, <1>p, <1>0, <2>1 DEF MergeLink, OwnInv, Owner, Unlocked
      <4>6. [row[o] EXCEPT !.parents = P] \in RowRec
        BY <1>0, <1>p, <4>1, RowUpdates
      <4>7. row' = row \/ row' = [f EXCEPT ![o] = [row[o] EXCEPT !.parents = P]]
        BY <1>8, <1>p, <2>1, <2>3, <4>5 DEF MergeLink, BaseType
      <4> QED
        BY <4>4, <4>6, <4>7 DEF BaseType
    <3> QED
      BY <1>8, <1>p, <2>t, <3>1 DEF MergeLink, BaseType
  <2> QED
    BY <2>2, <2>3
<1>9. ASSUME NEW t \in Threads, NEW o \in Rows, MergeFail(t, o) PROVE BaseType'
  <2>1. th[t].obj \in Rows /\ th[t] \in ThreadRec /\ t \in Actors
    BY <1>9, <1>p, <1>0, ThreadActor DEF MergeFail, Owner
  <2>2. row' \in [Rows -> RowRec]
    BY <1>9, <1>p, <1>0, <1>f, RowUpdates, <2>1, Constants DEF MergeFail, BaseType
  <2>3. th' \in [Actors -> ThreadRec]
    BY <1>9, <1>p, <1>0, <2>1 DEF MergeFail, BaseType, ThreadRec
  <2> QED
    BY <1>9, <1>p, <2>2, <2>3 DEF MergeFail, BaseType
<1>10. ASSUME NEW t \in Threads, NEW o \in Rows, MergeUndo(t, o) PROVE BaseType'
  <2>1. th[t].obj \in Rows /\ th[t] \in ThreadRec /\ t \in Actors
    BY <1>10, <1>p, <1>0, ThreadActor DEF MergeUndo, Owner
  <2>2. row' \in [Rows -> RowRec]
    BY <1>10, <1>p, <1>0, <1>f, RowUpdates, <2>1, Constants DEF MergeUndo, BaseType
  <2>3. th' \in [Actors -> ThreadRec]
    BY <1>10, <1>p, <1>0, <2>1 DEF MergeUndo, BaseType, ThreadRec
  <2> QED
    BY <1>10, <1>p, <2>2, <2>3 DEF MergeUndo, BaseType
<1>11. ASSUME NEW t \in Threads, NEW S \in SUBSET Rows, MergeStart(t, S) PROVE BaseType'
  <2>1. th' \in [Actors -> ThreadRec]
    BY <1>11, <1>p, ThreadActor, Constants DEF MergeStart, BaseType, ThreadRec
  <2> QED
    BY <1>11, <1>p, <2>1 DEF MergeStart, BaseType
<1>12. ASSUME NEW t \in Threads, NEW o \in Rows, CreateBit(t, o) PROVE BaseType'
  <2>1. th' \in [Actors -> ThreadRec]
    BY <1>12, <1>p, ThreadActor, Constants DEF CreateBit, BaseType, ThreadRec
  <2> QED
    BY <1>12, <1>p, <2>1 DEF CreateBit, BaseType
<1>13. ASSUME NEW t \in Threads, NEW o \in Rows, DestroyObj(t, o) PROVE BaseType'
  <2>1. Destroy(t, o) => row' \in [Rows -> RowRec] /\ th' \in [Actors -> ThreadRec]
    <3>1. row[o].children \in SUBSET Rows /\ row[o].parents \in SUBSET Rows
      BY <1>0, <1>p, <1>f
    <3>2. [IdleThread EXCEPT !.at = "unlink", !.obj = o,
                             !.todo = row[o].children,
                                !.objs = row[o].parents] \in ThreadRec
      BY <3>1, Constants DEF ThreadRec
    <3> QED
      BY <3>2, Constants, ThreadActor DEF Destroy, BaseType
  <2> QED
    BY <1>13, <1>p, <2>1 DEF DestroyObj, BaseType
<1>14. ASSUME NEW t \in Threads, NEW d \in Drivers, NEW s \in Statuses, SignalObj(t, d, s)
       PROVE  BaseType'
  <2>0. held[d] \in Rows
    BY <1>14 DEF SignalObj, BaseType
  <2>1. /\ row' \in [Rows -> RowRec] /\ th' \in [Actors -> ThreadRec]
        /\ out' \subseteq [obj : Rows, status : Signaled]
    BY <1>14, <1>0, <2>0, ThreadActor, SignalType DEF SignalObj
  <2>2. held' \in [Drivers -> Rows \union {NoRow}]
    BY <1>14 DEF SignalObj, BaseType
  <2> QED
    BY <1>14, <1>p, <2>1, <2>2 DEF SignalObj, BaseType
<1>15. ASSUME NEW a \in Actors, NEW o \in Rows, SignalParent(a, o) PROVE BaseType'
  <2>1. th' \in [Actors -> ThreadRec]
    <3>1. th[a].todo \ {o} \in SUBSET Rows
      BY <1>0, <1>f
    <3>2. [th[a] EXCEPT !.todo = th[a].todo \ {o}] \in ThreadRec
      BY <1>0, <3>1 DEF ThreadRec
    <3>3. \/ th' = [th EXCEPT ![a] = IdleThread]
          \/ th' = [th EXCEPT ![a] = [th[a] EXCEPT !.todo = th[a].todo \ {o}]]
      BY <1>15 DEF SignalParent, Done, Return, BaseType
    <3> QED
      BY <3>2, <3>3, Constants DEF BaseType
  <2>s. stale' \in [Rows -> SUBSET Actors] /\ spoilt' \subseteq Rows
    BY <1>15 DEF SignalParent, Told, BaseType
  <2>2. CASE ~Valid(o)
    BY <1>15, <2>1, <2>s, <2>2 DEF SignalParent, BaseType
  <2>3. CASE Valid(o)
    <3> DEFINE u == UpdateParentState(row[o].state, th[a].status)
               q == IF row[o].remaining = 1 THEN Dispatch(row[o], o) ELSE row[o]
    <3>1. /\ row' = [row EXCEPT ![o] = [q EXCEPT !.state = u, !.remaining = Decrement(@)]]
          /\ Enqueue(o, row[o].cbs, u) \/ out' = out
      BY <1>15, <2>3 DEF SignalParent
    <3>2. u \in Signaled
      BY <1>0, <1>f DEF UpdateParentState, Signaled
    <3>3. q \in RowRec /\ q.remaining = row[o].remaining
      BY <1>0, DispatchType
    <3>4. Decrement(q.remaining) \in Nat
      BY <1>f, <3>3, FiniteActors DEF Decrement
    <3> HIDE DEF q, u
    <3>5. [q EXCEPT !.state = u, !.remaining = Decrement(@)] \in RowRec
      <4>1. [q EXCEPT !.state = u] \in RowRec
        BY <3>2, <3>3, RowUpdates
      <4>2. [[q EXCEPT !.state = u] EXCEPT !.remaining = Decrement(q.remaining)] \in RowRec
        BY <3>4, <4>1, RowUpdates
      <4> QED
        BY <4>2
    <3>6. row' \in [Rows -> RowRec]
      BY <3>1, <3>5 DEF BaseType
    <3>7. out' \subseteq [obj : Rows, status : Signaled]
      BY <3>1, <3>2, EnqueueType DEF BaseType
    <3> QED
      BY <1>15, <2>1, <2>s, <3>6, <3>7 DEF SignalParent, BaseType
  <2> QED
    BY <2>2, <2>3
<1>16. ASSUME NEW a \in Actors, DestroyFree(a) PROVE BaseType'
  BY <1>16, <1>p, <1>0, ThreadActor, Constants DEF DestroyFree, Return, BaseType
<1>17. ASSUME NEW a \in Actors, NEW o \in Rows, DestroyChild(a, o) PROVE BaseType'
  <2>1. th[a].obj \in Rows /\ th[a] \in ThreadRec /\ a \in Actors
    BY <1>17, <1>p, <1>0, ThreadActor DEF DestroyChild, Owner
  <2>2. row' \in [Rows -> RowRec]
    BY <1>17, <1>p, <1>0, <1>f, RowUpdates, <2>1, Constants DEF DestroyChild, BaseType
  <2>3. th' \in [Actors -> ThreadRec]
    BY <1>17, <1>p, <1>0, <2>1 DEF DestroyChild, BaseType, ThreadRec
  <2> QED
    BY <1>17, <1>p, <2>2, <2>3 DEF DestroyChild, BaseType
<1>18. ASSUME NEW a \in Actors, NEW o \in Rows, DestroyParent(a, o) PROVE BaseType'
  <2>1. th[a].obj \in Rows /\ th[a] \in ThreadRec /\ a \in Actors
    BY <1>18, <1>p, <1>0, ThreadActor DEF DestroyParent, Owner
  <2>2. row' \in [Rows -> RowRec]
    BY <1>18, <1>p, <1>0, <1>f, RowUpdates, <2>1, Constants DEF DestroyParent, BaseType
  <2>3. th' \in [Actors -> ThreadRec]
    BY <1>18, <1>p, <1>0, <2>1 DEF DestroyParent, BaseType, ThreadRec
  <2> QED
    BY <1>18, <1>p, <2>2, <2>3 DEF DestroyParent, BaseType
<1>19. ASSUME NEW d \in Drivers, NEW o \in Rows, GetRef(d, o) PROVE BaseType'
  <2>1. [row[o] EXCEPT !.ref = row[o].ref + 1] \in RowRec
    BY <1>0, <1>f, RowUpdates DEF BaseType
  <2>2. row' \in [Rows -> RowRec]
    BY <1>19, <2>1 DEF GetRef, BaseType
  <2>3. held' \in [Drivers -> Rows \union {NoRow}]
    BY <1>19 DEF GetRef, BaseType
  <2> QED
    BY <1>19, <1>p, <2>2, <2>3 DEF GetRef, BaseType
<1>20. ASSUME NEW d \in Drivers, PutRef(d) PROVE BaseType'
  <2>0. held[d] \in Rows
    BY <1>20 DEF PutRef, BaseType
  <2>1. [row[held[d]] EXCEPT !.ref = row[held[d]].ref - 1] \in RowRec
    BY <1>0, <1>f, <2>0, RowUpdates DEF BaseType
  <2>2. row' \in [Rows -> RowRec]
    BY <1>20, <2>0, <2>1 DEF PutRef, BaseType
  <2>3. held' \in [Drivers -> Rows \union {NoRow}]
    BY <1>20 DEF PutRef, BaseType
  <2> QED
    BY <1>20, <1>p, <2>2, <2>3 DEF PutRef, BaseType
<1>21. ASSUME NEW o \in Rows, RegisterCallback(o) PROVE BaseType'
  <2>1. row[o].cbs \union {"kernel"} \in SUBSET Kinds
    BY <1>21, <1>p, <1>0, <1>f DEF RegisterCallback
  <2>2. [row[o] EXCEPT !.cbs = row[o].cbs \union {"kernel"}] \in RowRec
    BY <1>0, <1>p, <2>1, RowUpdates
  <2>3. \/ row' = row
        \/ row' = [row EXCEPT ![o] = [row[o] EXCEPT !.cbs = row[o].cbs \union {"kernel"}]]
    BY <1>21, <1>p DEF RegisterCallback
  <2>4. row' \in [Rows -> RowRec]
    BY <2>2, <2>3 DEF BaseType
  <2>5. out' = out \/ (row[o].state \in Signaled /\ Enqueue(o, {"kernel"}, row[o].state))
    BY <1>21 DEF RegisterCallback, Ended
  <2>6. out' \subseteq [obj : Rows, status : Signaled]
    BY <2>5, EnqueueType DEF BaseType
  <2> QED
    BY <1>21, <1>p, <2>4, <2>6 DEF RegisterCallback, BaseType
<1>22. ASSUME NEW o \in Rows, RegisterPayload(o) PROVE BaseType'
  <2>1. row[o].cbs \union {"user"} \in SUBSET Kinds
    BY <1>22, <1>p, <1>0, <1>f DEF RegisterPayload
  <2>2. [row[o] EXCEPT !.cbs = row[o].cbs \union {"user"}] \in RowRec
    BY <1>0, <1>p, <2>1, RowUpdates
  <2>3. row' = row \/ row' = [row EXCEPT ![o] = [row[o] EXCEPT !.cbs = row[o].cbs \union {"user"}]]
    BY <1>22, <1>p DEF RegisterPayload
  <2>4. row' \in [Rows -> RowRec]
    BY <2>2, <2>3 DEF BaseType
  <2> QED
    BY <1>22, <1>p, <2>4 DEF RegisterPayload, BaseType
<1>23. ASSUME NEW o \in Rows, DeregisterCallback(o) \/ DeregisterPayload(o) PROVE BaseType'
  <2>1. PICK k : /\ row' = [row EXCEPT ![o].cbs = @ \ {k}]
                 /\ UNCHANGED <<bits, lock, th, held, out, close, past>>
    BY <1>23 DEF DeregisterCallback, DeregisterPayload
  <2>2. row[o].cbs \ {k} \in SUBSET Kinds
    BY <1>0, <1>f
  <2>3. row' \in [Rows -> RowRec]
    BY <1>0, <2>1, <2>2, RowUpdates DEF BaseType
  <2> QED
    BY <1>p, <2>1, <2>3 DEF BaseType
<1>24. ASSUME NEW n \in out, Deliver(n) PROVE BaseType'
  BY <1>24, <1>p DEF Deliver, BaseType
<1>25. ASSUME CloseStart PROVE BaseType'
  BY <1>25, <1>p DEF CloseStart, BaseType
<1>26. ASSUME CloseFlush PROVE BaseType'
  BY <1>26, <1>p DEF CloseFlush, BaseType
<1>27. ASSUME CloseEnd PROVE BaseType'
  BY <1>27, <1>p DEF CloseEnd, BaseType
<1>28. ASSUME NEW o \in Rows, CloseSignal(o) PROVE BaseType'
  <2>1. /\ row' \in [Rows -> RowRec] /\ th' \in [Actors -> ThreadRec]
        /\ out' \subseteq [obj : Rows, status : Signaled]
    <3>1. CASE row[o].state = "active"
      BY <1>28, <1>p, <1>0, <3>1, ThreadActor, SignalType DEF CloseSignal
    <3>2. CASE row[o].state # "active"
      BY <1>28, <1>p, <3>2 DEF CloseSignal, BaseType
    <3> QED
      BY <3>1, <3>2
  <2> QED
    BY <1>28, <1>p, <2>1 DEF CloseSignal, BaseType
<1>29. ASSUME NEW o \in Rows, CloseDestroy(o) PROVE BaseType'
  <2>1. Destroy(Closer, o) => row' \in [Rows -> RowRec] /\ th' \in [Actors -> ThreadRec]
    <3>1. row[o].children \in SUBSET Rows /\ row[o].parents \in SUBSET Rows
      BY <1>0, <1>p, <1>f
    <3>2. [IdleThread EXCEPT !.at = "unlink", !.obj = o,
                             !.todo = row[o].children,
                                !.objs = row[o].parents] \in ThreadRec
      BY <3>1, Constants DEF ThreadRec
    <3> QED
      BY <3>2, Constants, ThreadActor DEF Destroy, BaseType
  <2> QED
    BY <1>29, <1>p, <2>1 DEF CloseDestroy, BaseType
<1>30. ASSUME Open PROVE BaseType'
  BY <1>30, <1>p DEF Open, BaseType
<1>31. CASE UNCHANGED vars
  BY <1>31, <1>p DEF vars, BaseType
<1> QED
  BY <1>1, <1>p, <1>2, <1>3, <1>4, <1>5, <1>6, <1>7, <1>8, <1>9, <1>10, <1>11, <1>12, <1>13,
     <1>14, <1>15, <1>16, <1>17, <1>18, <1>19, <1>20, <1>21, <1>22, <1>23, <1>24,
        <1>25, <1>26, <1>27, <1>28, <1>29, <1>30, <1>31
     DEF Next, Merge, GoOn, DestroySteps, Closing, Actors

-----------------------------------------------------------------------------
(* The invariant.                                                          *)

\* The empty table satisfies it.
LEMMA InitInv == Init => SyncInv
<1> SUFFICES ASSUME Init PROVE SyncInv
  OBVIOUS
<1>1. /\ \A o \in Rows : row[o] = ClearRow /\ lock[o] = Free
      /\ \A a \in Actors : th[a] = IdleThread
  BY DEF Init
<1>2. BaseType
  <2>1. /\ row \in [Rows -> RowRec] /\ th \in [Actors -> ThreadRec]
    BY Constants DEF Init
  <2>2. held \in [Drivers -> Rows \union {NoRow}] /\ stale \in [Rows -> SUBSET Actors]
    BY DEF Init
  <2>3. close \in [phase : {"open", "signal", "sweep", "closed"}, rest : SUBSET Rows]
    BY DEF Init
  <2> QED
    BY <2>1, <2>2, <2>3 DEF BaseType, Init
<1>3. OwnInv
  BY <1>1, Constants DEF OwnInv, Owner, Valid
<1>4. RowInv
  BY <1>1, Constants DEF RowInv
<1>5. LinkInv
  BY <1>1, Constants DEF LinkInv
<1>6. GroupWaits
  BY <1>1, Constants DEF GroupWaits, Valid
<1>7. ServedInv
  BY <1>1, Constants DEF ServedInv, Ended, Signaled, Failed
<1>8. TellInv
  BY <1>1, Constants DEF TellInv, Valid, Init
<1> QED
  BY <1>2, <1>3, <1>4, <1>5, <1>6, <1>7, <1>8 DEF SyncInv

\* Every step keeps it.
LEMMA InvStep ==
    ASSUME SyncInv, [Next]_vars
    PROVE  SyncInv'
<1>1. BaseType /\ OwnInv /\ RowInv /\ LinkInv /\ TellInv /\ GroupWaits /\ ServedInv
  BY DEF SyncInv
<1>2. StepKind
  BY <1>1, StepKinds
<1>3. BaseType' /\ OwnInv' /\ RowInv' /\ LinkInv'
  BY <1>1, <1>2, BaseStep, OwnStep, RowStep, LinkStep
<1>4. GroupWaits'
  BY <1>1, <1>2, WaitStep DEF GroupWaits, Valid
<1>5. ServedInv'
  BY <1>1, <1>2, ServedStep DEF ServedInv, Ended, Unlocked
<1>6. TellInv'
  BY <1>1, <1>2, TellStep DEF TellInv, Valid
<1> QED
  BY <1>3, <1>4, <1>5, <1>6 DEF SyncInv

\* The invariant holds in every state the table of sync objects reaches.
THEOREM SyncInvariant == Spec => []SyncInv
BY InitInv, InvStep, PTL DEF Spec

\* Every variable keeps its type; the counts of children are naturals because
\* they wrap around.
THEOREM TypeCorrect == Spec => []TypeOK
<1>1. SyncInv => TypeOK
  BY DEF SyncInv, BaseType, TypeOK, RowRec, ThreadRec
<1> QED
  BY <1>1, SyncInvariant, PTL

\* No group completes before each child that has still to signal and each
\* signal that cam_sync_signal_parent_util has still to bring to it, whatever is
\* merged, destroyed or closed meanwhile and however soon rows are used again,
\* until a signal for an earlier object of its row reaches it.
THEOREM GroupsWait == Spec => []GroupWaits
<1>1. SyncInv => GroupWaits
  BY DEF SyncInv
<1> QED
  BY <1>1, SyncInvariant, PTL

\* A complete object has woken its waiters, called back and told its groups,
\* however cam_sync_register_callback and cam_sync_merge race with the signal.
THEOREM NobodyIsForgotten == Spec => []NobodyForgotten
<1>1. SyncInv => NobodyForgotten
  BY DEF SyncInv, ServedInv, RowInv, NobodyForgotten, Ended, Signaled, Failed
<1> QED
  BY <1>1, SyncInvariant, PTL

\* No later child, signal or merge turns the failure of an object into a
\* success, in cam_sync_util_update_parent_state or elsewhere.
THEOREM FailuresStick == Spec => FailureSticks
<1>1. SyncInv /\ [Next]_vars =>
        [\A o \in Rows :
           row[o].state \in Failed => row'[o].state \in Failed \union {"invalid"}]_vars
  BY StepKinds, StickStep DEF SyncInv
<1> QED
  BY <1>1, SyncInvariant, PTL DEF Spec, FailureSticks

\* A merge that holds the row of its group never waits for the row of a child,
\* as long as callers take care: cam_sync_init_group_object finds it unlocked.  So
\* the order in which it takes the rows of the children does not matter, and merges
\* of any number of objects cannot wait for each other in a circle.
THEOREM MergesDoNotWait ==
    Spec => [](Careful => \A t \in Threads : th[t].at = "link" => \A o \in th[t].todo : Unlocked(o))
<1>1. SyncInv => (Careful => \A t \in Threads :
                                th[t].at = "link" => \A o \in th[t].todo : Unlocked(o))
  <2> SUFFICES ASSUME SyncInv, Careful, NEW t \in Threads, th[t].at = "link",
                      NEW o \in th[t].todo, ~Unlocked(o)
               PROVE  FALSE
    OBVIOUS
  <2>1. BaseType /\ OwnInv /\ LinkInv /\ t \in Actors
    BY ThreadActor DEF SyncInv
  <2>2. o \in th[t].objs /\ o \in Rows
    BY <2>1 DEF LinkInv, BaseType, ThreadRec
  <2>3. Valid(o) /\ row[o].type = "indv"
    BY <2>2 DEF Careful, InUse, Merging
  <2>4. /\ lock[o] \in Actors /\ th[lock[o]].at = "link" /\ th[lock[o]].obj = o
    BY <2>1, <2>2, <2>3 DEF OwnInv, BaseType, Unlocked
  <2>5. row[o].type = "group"
    BY <2>1, <2>4 DEF OwnInv, Owner
  <2> QED
    BY <2>3, <2>5
<1> QED
  BY <1>1, SyncInvariant, PTL

-----------------------------------------------------------------------------
(* What callbacks are told.                                                *)

\* What is queued for an object.
LEMMA Enqueued ==
    ASSUME NEW o, NEW k, NEW s, Enqueue(o, k, s), NEW n \in out' \ out
    PROVE  n.obj = o /\ n.status = s
BY DEF Enqueue

\* A signal calls back with its status.
LEMMA SignalNotes ==
    ASSUME BaseType, RowInv, NEW a \in Actors, NEW o \in Rows, NEW s \in Signaled,
           Signal(a, o, s), NEW n \in out' \ out
    PROVE  row'[n.obj].remaining = 0 /\ row'[n.obj].state = n.status
<1>1. row[o].state = "active" /\ row[o].type # "group" /\ row[o].ref = 1
  BY DEF Signal
<1>2. /\ row' = [row EXCEPT ![o] = [Dispatch(row[o], o) EXCEPT
                                            !.ref = 0, !.state = s, !.parents = {}]]
      /\ Enqueue(o, row[o].cbs, s)
  BY <1>1 DEF Signal
<1>3. n.obj = o /\ n.status = s
  BY <1>2, Enqueued
<1>4. row[o].remaining = 0
  BY <1>1 DEF RowInv, BaseType, RowRec
<1>5. Dispatch(row[o], o) \in RowRec /\ Dispatch(row[o], o).remaining = 0
  BY <1>4, DispatchType
<1>6. row'[o] = [Dispatch(row[o], o) EXCEPT !.ref = 0, !.state = s, !.parents = {}]
  BY <1>2 DEF BaseType
<1> HIDE DEF Dispatch
<1>7. row'[o].remaining = 0 /\ row'[o].state = s
  BY <1>5, <1>6 DEF RowRec
<1> QED
  BY <1>3, <1>7

\* A step calls back at the end of an object only.
LEMMA NoteStep ==
    ASSUME BaseType, RowInv, [Next]_vars, NEW m \in out' \ out
    PROVE  row'[m.obj].remaining = 0 /\ row'[m.obj].state = m.status
<1> DEFINE Goal == row'[m.obj].remaining = 0 /\ row'[m.obj].state = m.status
<1> HIDE DEF Goal
<1>0. Statuses \subseteq Signaled /\ "error" \in Signaled
  BY SyncAssumption DEF Signaled, Failed
<1>1. ASSUME NEW t \in Threads, CreateInit(t) PROVE Goal
  BY <1>1 DEF CreateInit
<1>2. ASSUME NEW t \in Threads, MergeFull(t) PROVE Goal
  BY <1>2 DEF MergeFull
<1>3. ASSUME NEW t \in Threads, MergeLock(t) PROVE Goal
  BY <1>3 DEF MergeLock
<1>4. ASSUME NEW t \in Threads, MergeError(t) PROVE Goal
  BY <1>4 DEF MergeError
<1>5. ASSUME NEW t \in Threads, MergeDone(t) PROVE Goal
  BY <1>5 DEF MergeDone
<1>6. ASSUME NEW t \in Threads, NEW o \in Rows, MergeCheck(t, o) PROVE Goal
  BY <1>6 DEF MergeCheck
<1>7. ASSUME NEW t \in Threads, NEW o \in Rows, MergeBit(t, o) PROVE Goal
  BY <1>7 DEF MergeBit
<1>8. ASSUME NEW t \in Threads, NEW o \in Rows, MergeLink(t, o) PROVE Goal
  BY <1>8 DEF MergeLink
<1>9. ASSUME NEW t \in Threads, NEW o \in Rows, MergeFail(t, o) PROVE Goal
  BY <1>9 DEF MergeFail
<1>10. ASSUME NEW t \in Threads, NEW o \in Rows, MergeUndo(t, o) PROVE Goal
  BY <1>10 DEF MergeUndo
<1>11. ASSUME NEW t \in Threads, NEW S \in SUBSET Rows, MergeStart(t, S) PROVE Goal
  BY <1>11 DEF MergeStart
<1>12. ASSUME NEW t \in Threads, NEW o \in Rows, CreateBit(t, o) PROVE Goal
  BY <1>12 DEF CreateBit
<1>13. ASSUME NEW t \in Threads, NEW o \in Rows, DestroyObj(t, o) PROVE Goal
  BY <1>13 DEF DestroyObj
<1>14. ASSUME NEW t \in Threads, NEW d \in Drivers, NEW s \in Statuses, SignalObj(t, d, s)
       PROVE  Goal
  <2>1. held[d] \in Rows
    BY <1>14 DEF SignalObj, BaseType
  <2> QED
    BY <1>14, <1>0, <2>1, SignalNotes, ThreadActor DEF SignalObj, Goal
<1>15. ASSUME NEW a \in Actors, NEW o \in Rows, SignalParent(a, o) PROVE Goal
  <2> DEFINE u == UpdateParentState(row[o].state, th[a].status)
  <2>1. Valid(o) /\ row[o].remaining = 1
    BY <1>15 DEF SignalParent
  <2>2. /\ row' = [row EXCEPT ![o] =
                      [Dispatch(row[o], o) EXCEPT !.state = u, !.remaining = Decrement(@)]]
        /\ Enqueue(o, row[o].cbs, u)
    BY <1>15, <2>1 DEF SignalParent
  <2>3. m.obj = o /\ m.status = u
    BY <2>2, Enqueued
  <2> DEFINE q == Dispatch(row[o], o)
  <2>4. q \in RowRec /\ q.remaining = 1
    BY <2>1, DispatchType
  <2>5. row'[o] = [q EXCEPT !.state = u, !.remaining = Decrement(q.remaining)]
    BY <2>2 DEF BaseType
  <2> HIDE DEF q, u
  <2>6. row'[o].state = u /\ row'[o].remaining = 0
    BY <2>4, <2>5 DEF RowRec, Decrement
  <2> QED
    BY <2>3, <2>4, <2>6 DEF Goal
<1>16. ASSUME NEW a \in Actors, DestroyFree(a) PROVE Goal
  BY <1>16 DEF DestroyFree
<1>17. ASSUME NEW a \in Actors, NEW o \in Rows, DestroyChild(a, o) PROVE Goal
  BY <1>17 DEF DestroyChild
<1>18. ASSUME NEW a \in Actors, NEW o \in Rows, DestroyParent(a, o) PROVE Goal
  BY <1>18 DEF DestroyParent
<1>19. ASSUME NEW d \in Drivers, NEW o \in Rows, GetRef(d, o) PROVE Goal
  BY <1>19 DEF GetRef
<1>20. ASSUME NEW d \in Drivers, PutRef(d) PROVE Goal
  BY <1>20 DEF PutRef
<1>21. ASSUME NEW o \in Rows, RegisterCallback(o) PROVE Goal
  <2>1. /\ Ended(o) /\ row' = row
        /\ Enqueue(o, {"kernel"}, row[o].state)
    BY <1>21 DEF RegisterCallback
  <2>2. m.obj = o /\ m.status = row[o].state
    BY <2>1, Enqueued
  <2> QED
    BY <2>1, <2>2 DEF Ended, Goal
<1>22. ASSUME NEW o \in Rows, RegisterPayload(o) PROVE Goal
  BY <1>22 DEF RegisterPayload
<1>23. ASSUME NEW o \in Rows, DeregisterCallback(o) \/ DeregisterPayload(o) PROVE Goal
  BY <1>23 DEF DeregisterCallback, DeregisterPayload
<1>24. ASSUME NEW n \in out, Deliver(n) PROVE Goal
  BY <1>24 DEF Deliver
<1>25. ASSUME CloseStart PROVE Goal
  BY <1>25 DEF CloseStart
<1>26. ASSUME CloseFlush PROVE Goal
  BY <1>26 DEF CloseFlush
<1>27. ASSUME CloseEnd PROVE Goal
  BY <1>27 DEF CloseEnd
<1>28. ASSUME NEW o \in Rows, CloseSignal(o) PROVE Goal
  <2>1. Signal(Closer, o, "error")
    BY <1>28 DEF CloseSignal
  <2> QED
    BY <1>0, <2>1, SignalNotes, ThreadActor DEF Goal
<1>29. ASSUME NEW o \in Rows, CloseDestroy(o) PROVE Goal
  BY <1>29 DEF CloseDestroy
<1>30. ASSUME Open PROVE Goal
  BY <1>30 DEF Open
<1>31. CASE UNCHANGED vars
  BY <1>31 DEF vars
<1> QED
  BY <1>1, <1>2, <1>3, <1>4, <1>5, <1>6, <1>7, <1>8, <1>9, <1>10, <1>11, <1>12, <1>13,
     <1>14, <1>15, <1>16, <1>17, <1>18, <1>19, <1>20, <1>21, <1>22, <1>23, <1>24,
        <1>25, <1>26, <1>27, <1>28, <1>29, <1>30, <1>31
     DEF Next, Merge, GoOn, DestroySteps, Closing, Actors, Goal

\* Kernel callbacks are queued when the object and all its children have
\* signaled, with the status of the object.
THEOREM CallbacksAtEnd == Spec => CallbackAtEnd
<1>1. SyncInv /\ [Next]_vars =>
        [\A n \in out' \ out :
            row'[n.obj].remaining = 0 /\ row'[n.obj].state = n.status]_vars
  BY NoteStep DEF SyncInv
<1> QED
  BY <1>1, SyncInvariant, PTL DEF Spec, CallbackAtEnd

=============================================================================

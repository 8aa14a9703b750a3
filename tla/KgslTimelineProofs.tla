------------------------- MODULE KgslTimelineProofs -------------------------
(***************************************************************************)
(* Proofs about the software timelines of the graphics driver, for any     *)
(* finite numbers of threads, timeline objects and fences and any range of *)
(* sequence numbers.                                                       *)
(***************************************************************************)
EXTENDS KgslTimeline, FiniteSetTheorems, SequenceTheorems, WellFoundedInduction, TLAPS

\* timeline->lock has one owner.
OneSignaller ==
    \A a, b \in Actors : at[a] \in {"begun", "taken"} /\ at[b] \in {"begun", "taken"} => a = b

\* The timeline has its identifier until its destruction begins.
IdInv == id <=> destroy = "no"

\* A fence that is not in use is blank, and one off the list is signaled.
FenceInv ==
    \A f \in Fences : /\ fence[f].st = "free" => fence[f] = NoFence
                      /\ fence[f].st = "live" /\ fence[f].on = "no" => fence[f].signaled

\* sig_refcount: the queue and the event have a reference each until they put
\* it; the last put starts the signal.
ObjInv ==
    \A o \in Objs :
        /\ at[o] \in {"idle", "begun", "taken"} => ~fired[o]
        /\ at[o] = "queued" => sig[o] = 2 - Unit(fired[o])
        /\ at[o] = "wait" => sig[o] = 1 /\ ~fired[o]

\* The inductive invariant.
TimelineInv ==
    /\ TypeOK /\ References /\ IdInv /\ FenceInv /\ OneSignaller /\ ObjInv
    /\ NoLostFence /\ EventsAhead

-----------------------------------------------------------------------------
(* Numbers, sequences and counts.                                          *)

\* A set of natural numbers has a least element.
LEMMA LeastNat ==
    ASSUME NEW S \in SUBSET Nat, S # {}
    PROVE  \E x \in S : \A y \in S : x <= y
<1>1. PICK x \in S : \A y \in S : <<y, x>> \notin OpToRel(<, Nat)
  BY NatLessThanWellFounded, WFMin, Zenon
<1>2. \A y \in S : ~(y < x)
  BY <1>1 DEF OpToRel
<1> QED
  BY <1>2

\* Min, which Trim uses, is that element.
LEMMA MinLeast ==
    ASSUME NEW S \in SUBSET Nat, S # {}
    PROVE  Min(S) \in S /\ \A y \in S : Min(S) <= y
BY LeastNat DEF Min

\* Max, which Insert and QueryValue use, is the greatest element of a bounded
\* set.
LEMMA MaxGreatest ==
    ASSUME NEW n \in Nat, NEW S \in SUBSET (0 .. n), S # {}
    PROVE  Max(S) \in S /\ \A y \in S : y <= Max(S)
<1> DEFINE T == {n - x : x \in S}
<1>1. T \in SUBSET Nat
  OBVIOUS
<1>2. T # {}
  OBVIOUS
<1>3. PICK z \in T : \A y \in T : z <= y
  BY <1>1, <1>2, LeastNat
<1>4. PICK m \in S : z = n - m
  BY <1>3
<1>5. \A y \in S : m >= y
  <2> TAKE y \in S
  <2>1. n - y \in T
    OBVIOUS
  <2> QED
    BY <1>3, <1>4, <2>1
<1>6. \A x \in S : (\A y \in S : x >= y) => \A y \in S : y <= x
  OBVIOUS
<1> QED
  BY <1>4, <1>5, <1>6 DEF Max

\* The fences in use.
Used == {f \in Fences : fence[f].st # "free"}

\* The counted sets are finite.
LEMMA CountedSets ==
    /\ IsFiniteSet(Holders) /\ Cardinality(Holders) \in Nat
    /\ IsFiniteSet(Used) /\ Cardinality(Used) \in Nat
<1>1. IsFiniteSet(Actors)
  BY TimelineAssumption, FS_Union DEF Actors
<1>2. Holders \subseteq Actors /\ Used \subseteq Fences
  BY DEF Holders, Used
<1>3. IsFiniteSet(Holders) /\ IsFiniteSet(Used)
  BY <1>1, <1>2, TimelineAssumption, FS_Subset
<1> QED
  BY <1>3, FS_CardinalityType

\* An actor that moves (Goto, Leave) moves nobody else.
LEMMA ActorMove ==
    ASSUME TypeOK, NEW a \in Actors, NEW l, Goto(a, l)
    PROVE  at'[a] = l /\ \A b \in Actors : b # a => at'[b] = at[b]
BY DEF TypeOK, Goto

\* Leave is a move to "idle".
LEMMA LeaveMove == \A a : Leave(a) <=> Goto(a, "idle")
BY DEF Leave, Goto

\* It changes the number of holders when it begins or ends a call.
LEMMA HoldersMove ==
    ASSUME TypeOK, NEW a \in Actors, NEW l, Goto(a, l)
    PROVE  Cardinality(Holders') =
               Cardinality(Holders) + Unit(l # "idle") - Unit(at[a] # "idle")
<1>1. Cardinality(Holders \union {a}) =
        IF a \in Holders THEN Cardinality(Holders) ELSE Cardinality(Holders) + 1
  BY CountedSets, FS_AddElement
<1>2. Cardinality(Holders \ {a}) =
        IF a \in Holders THEN Cardinality(Holders) - 1 ELSE Cardinality(Holders)
  BY CountedSets, FS_RemoveElement
<1>3. Holders' = IF l # "idle" THEN Holders \union {a} ELSE Holders \ {a}
  BY DEF Holders, TypeOK, Goto
<1>4. a \in Holders <=> at[a] # "idle"
  BY DEF Holders
<1>5. CASE l # "idle"
  <2>1. Cardinality(Holders') = Cardinality(Holders \union {a})
    BY <1>3, <1>5
  <2> QED
    BY <1>1, <1>4, <1>5, <2>1, CountedSets DEF Unit
<1>6. CASE l = "idle"
  <2>1. Cardinality(Holders') = Cardinality(Holders \ {a})
    BY <1>3, <1>6
  <2> QED
    BY <1>2, <1>4, <1>6, <2>1, CountedSets DEF Unit
<1> QED
  BY <1>5, <1>6

\* One fence is replaced.
SetFence(f, fc) == fence' = [fence EXCEPT ![f] = fc]

\* A fence that is allocated or released changes the number in use.
LEMMA UsedMove ==
    ASSUME TypeOK, NEW f \in Fences, NEW r, SetFence(f, r)
    PROVE  Cardinality(Used') =
               Cardinality(Used) + Unit(r.st # "free") - Unit(fence[f].st # "free")
<1>1. Cardinality(Used \union {f}) =
        IF f \in Used THEN Cardinality(Used) ELSE Cardinality(Used) + 1
  BY CountedSets, FS_AddElement
<1>2. Cardinality(Used \ {f}) =
        IF f \in Used THEN Cardinality(Used) - 1 ELSE Cardinality(Used)
  BY CountedSets, FS_RemoveElement
<1>3. fence'[f] = r /\ \A g \in Fences : g # f => fence'[g] = fence[g]
  BY DEF TypeOK, SetFence
<1>4. Used' = IF r.st # "free" THEN Used \union {f} ELSE Used \ {f}
  BY <1>3 DEF Used
<1>5. f \in Used <=> fence[f].st # "free"
  BY DEF Used
<1>6. CASE r.st # "free"
  <2>1. Cardinality(Used') = Cardinality(Used \union {f})
    BY <1>4, <1>6
  <2> QED
    BY <1>1, <1>5, <1>6, <2>1, CountedSets DEF Unit
<1>7. CASE r.st = "free"
  <2>1. Cardinality(Used') = Cardinality(Used \ {f})
    BY <1>4, <1>7
  <2> QED
    BY <1>2, <1>5, <1>7, <2>1, CountedSets DEF Unit
<1> QED
  BY <1>6, <1>7

\* Trim drops a prefix of the events: those up to s, for they are sorted.
LEMMA TrimSuffix ==
    ASSUME TypeOK, EventsAhead, NEW s \in Seqnos
    PROVE  /\ Trim(s) \in Seq(Objs)
           /\ \E d \in 0 .. Len(events) :
                 /\ Len(Trim(s)) = Len(events) - d
                 /\ \A i \in 1 .. d : seq[events[i]] <= s
                 /\ \A i \in 1 .. Len(Trim(s)) :
                       Trim(s)[i] = events[i + d] /\ seq[events[i + d]] > s
<1> DEFINE above == {i \in 1 .. Len(events) : seq[events[i]] > s}
<1>1. /\ events \in Seq(Objs) /\ Len(events) \in Nat /\ s \in Nat
      /\ \A i \in 1 .. Len(events) : events[i] \in Objs /\ seq[events[i]] \in Nat
  BY TimelineAssumption DEF TypeOK, Seqnos
<1>2. CASE above = {}
  <2>1. Trim(s) = <<>>
    BY <1>2 DEF Trim
  <2>2. \A i \in 1 .. Len(events) : seq[events[i]] <= s
    BY <1>1, <1>2
  <2> QED
    BY <1>1, <2>1, <2>2
<1>3. CASE above # {}
  <2> DEFINE m == Min(above)
  <2>0. above \in SUBSET Nat
    BY <1>1
  <2>1. m \in above /\ \A y \in above : m <= y
    BY <1>3, <2>0, MinLeast
  <2>2. Trim(s) = SubSeq(events, m, Len(events))
    BY <1>3 DEF Trim
  <2>3. m \in 1 .. Len(events)
    BY <2>1
  <2>4. /\ Trim(s) \in Seq(Objs) /\ Len(Trim(s)) = Len(events) - (m - 1)
        /\ \A i \in 1 .. Len(Trim(s)) : Trim(s)[i] = events[i + (m - 1)]
    <3> HIDE DEF m
    <3>1. /\ SubSeq(events, m, Len(events)) \in Seq(Objs)
          /\ Len(SubSeq(events, m, Len(events))) = Len(events) - m + 1
      BY <1>1, <2>3
    <3>2. \A i \in 1 .. Len(events) - m + 1 : 
             SubSeq(events, m, Len(events))[i] = events[i + (m - 1)]
      BY <1>1, <2>3
    <3> QED
      BY <1>1, <2>2, <2>3, <3>1, <3>2
  <2>5. \A i \in 1 .. m - 1 : seq[events[i]] <= s
    BY <1>1, <2>1, <2>3
  <2>6. \A i \in m .. Len(events) : seq[events[i]] > s
    <3> TAKE i \in m .. Len(events)
    <3>1. seq[events[m]] > s
      BY <2>1
    <3>2. i # m => seq[events[m]] <= seq[events[i]]
      BY <2>3 DEF EventsAhead
    <3> QED
      BY <1>1, <2>3, <3>1, <3>2
  <2>7. m - 1 \in 0 .. Len(events)
    BY <1>1, <2>3
  <2>8. \A i \in 1 .. Len(Trim(s)) : i + (m - 1) \in m .. Len(events)
    BY <1>1, <2>3, <2>4
  <2> HIDE DEF m
  <2> QED
    BY <2>4, <2>5, <2>6, <2>7, <2>8
<1> QED
  BY <1>2, <1>3

\* Insert puts an object behind the events up to its sequence number and before
\* those above it.
LEMMA InsertBetween ==
    ASSUME TypeOK, EventsAhead, NEW o \in Objs
    PROVE  /\ Insert(o) \in Seq(Objs) /\ Len(Insert(o)) = Len(events) + 1
           /\ \E k \in 0 .. Len(events) :
                 /\ Insert(o)[k + 1] = o
                 /\ \A i \in 1 .. k : Insert(o)[i] = events[i] /\ seq[events[i]] <= seq[o]
                 /\ \A i \in k + 1 .. Len(events) :
                       Insert(o)[i + 1] = events[i] /\ seq[events[i]] > seq[o]
<1> DEFINE upto == {i \in 1 .. Len(events) : seq[events[i]] <= seq[o]}
           k == Max({0} \union upto)
<1>1. /\ events \in Seq(Objs) /\ Len(events) \in Nat /\ seq[o] \in Nat
      /\ \A i \in 1 .. Len(events) : events[i] \in Objs /\ seq[events[i]] \in Nat
  BY TimelineAssumption DEF TypeOK, Seqnos
<1>2. k \in {0} \union upto /\ \A y \in {0} \union upto : y <= k
  <2>1. {0} \union upto \in SUBSET (0 .. Len(events)) /\ {0} \union upto # {}
    BY <1>1
  <2> QED
    BY <1>1, <2>1, MaxGreatest
<1>3. k \in 0 .. Len(events)
  BY <1>1, <1>2
<1>4. Insert(o) = (SubSeq(events, 1, k) \o <<o>>) \o SubSeq(events, k + 1, Len(events))
  <2>1. Insert(o) = InsertAt(events, 1 + k, o)
    BY DEF Insert
  <2> HIDE DEF k
  <2>2. (1 + k) - 1 = k /\ 1 + k = k + 1
    BY <1>3
  <2> QED
    BY <2>1, <2>2 DEF InsertAt
<1>5. \A i \in 1 .. k : seq[events[i]] <= seq[o]
  <2> TAKE i \in 1 .. k
  <2>1. k \in upto
    BY <1>2, <1>3
  <2>2. i # k => seq[events[i]] <= seq[events[k]]
    BY <1>3 DEF EventsAhead
  <2> QED
    BY <1>1, <1>3, <2>1, <2>2
<1>6. \A i \in k + 1 .. Len(events) : seq[events[i]] > seq[o]
  <2> TAKE i \in k + 1 .. Len(events)
  <2>1. i \notin upto
    BY <1>2, <1>3
  <2> QED
    BY <1>1, <1>3, <2>1
<1> HIDE DEF k
<1> DEFINE front == SubSeq(events, 1, k) \o <<o>>
           back == SubSeq(events, k + 1, Len(events))
<1>7. /\ front \in Seq(Objs) /\ Len(front) = k + 1 /\ front[k + 1] = o
      /\ \A i \in 1 .. k : front[i] = events[i]
  BY <1>1, <1>3
<1>8. /\ back \in Seq(Objs) /\ Len(back) = Len(events) - k
      /\ \A i \in 1 .. Len(back) : back[i] = events[i + k]
  BY <1>1, <1>3
<1>9. Insert(o) = front \o back
  BY <1>4
<1> HIDE DEF front, back
<1>10. /\ Insert(o) \in Seq(Objs) /\ Len(Insert(o)) = Len(events) + 1
       /\ \A i \in 1 .. k + 1 : Insert(o)[i] = front[i]
       /\ \A i \in 1 .. Len(back) : Insert(o)[i + (k + 1)] = back[i]
  <2>1. Len(front \o back) = Len(front) + Len(back) /\ front \o back \in Seq(Objs)
    BY <1>7, <1>8
  <2>2. /\ \A i \in 1 .. Len(front) : (front \o back)[i] = front[i]
        /\ \A i \in 1 .. Len(back) : (front \o back)[i + Len(front)] = back[i]
    BY <1>7, <1>8
  <2> QED
    BY <1>1, <1>3, <1>7, <1>8, <1>9, <2>1, <2>2
<1>11. \A i \in k + 1 .. Len(events) : Insert(o)[i + 1] = events[i]
  <2> TAKE i \in k + 1 .. Len(events)
  <2>1. i - k \in 1 .. Len(back) /\ (i - k) + (k + 1) = i + 1 /\ (i - k) + k = i
    BY <1>1, <1>3, <1>8
  <2> QED
    BY <1>8, <1>10, <2>1
<1>12. Insert(o)[k + 1] = o /\ \A i \in 1 .. k : Insert(o)[i] = events[i]
  BY <1>1, <1>3, <1>7, <1>10
<1> QED
  BY <1>3, <1>5, <1>6, <1>10, <1>11, <1>12

-----------------------------------------------------------------------------
(* Types and references.                                                   *)

\* The type of a fence.
FenceType == [st : {"free", "live", "dead"}, seqno : Seqnos, ref : Nat, user : BOOLEAN,
              signaled : BOOLEAN, error : BOOLEAN, on : {"no", "list", "swept"} \union Actors]

\* The two halves of References.
TimelineRef ==
    ref = Unit(destroy # "done") + Cardinality(Holders) + Cardinality(Used)

FenceRef(fc) ==
    /\ fc.ref = Unit(fc.user) + Unit(fc.on \notin {"no", "list"})
    /\ fc.st = "live" <=> fc.ref > 0

\* References is those two.
LEMMA ReferencesParts == References <=> TimelineRef /\ \A f \in Fences : FenceRef(fence[f])
BY DEF References, TimelineRef, FenceRef, Used

\* Whoever is at something, a fence in use and the creator have a reference to
\* put.
LEMMA RefPositive ==
    ASSUME TypeOK, References,
           \/ \E a \in Actors : at[a] # "idle"
           \/ \E f \in Fences : fence[f].st # "free"
           \/ destroy # "done"
    PROVE  ref - 1 \in Nat
<1>1. TimelineRef /\ ref \in Nat
  BY ReferencesParts DEF TypeOK
<1>2. (\E a \in Actors : at[a] # "idle") => Cardinality(Holders) # 0
  BY CountedSets, FS_EmptySet DEF Holders
<1>3. (\E f \in Fences : fence[f].st # "free") => Cardinality(Used) # 0
  BY CountedSets, FS_EmptySet DEF Used
<1> QED
  BY <1>1, <1>2, <1>3, CountedSets DEF TimelineRef, Unit

\* The initial state is typed.
LEMMA InitType == Init => TypeOK
<1> SUFFICES ASSUME Init PROVE TypeOK
  OBVIOUS
<1>1. 0 \in Seqnos
  BY TimelineAssumption DEF Seqnos
<1>2. NoFence \in FenceType
  BY <1>1 DEF NoFence, FenceType
<1>3. fence \in [Fences -> FenceType]
  BY <1>2 DEF Init
<1>4. events \in Seq(Objs)
  BY DEF Init
<1> QED
  BY <1>1, <1>3, <1>4 DEF Init, TypeOK, FenceType

\* A fence stays one whatever a step does to it.
LEMMA FenceTypeStep ==
    TypeOK /\ References /\ [Next]_vars => fence' \in [Fences -> FenceType]
<1> SUFFICES ASSUME TypeOK, References, [Next]_vars PROVE fence' \in [Fences -> FenceType]
  OBVIOUS
<1>a. /\ fence \in [Fences -> FenceType] /\ value \in Seqnos
      /\ \A f \in Fences : fence[f] \in FenceType /\ FenceRef(fence[f])
  BY ReferencesParts DEF TypeOK, FenceType
<1>b. ASSUME NEW fc \in FenceType, fc.ref > 0 PROVE Dropped(fc) \in FenceType
  <2>1. fc.ref - 1 \in Nat /\ (IF fc.ref = 1 THEN "dead" ELSE fc.st) \in {"free", "live", "dead"}
    BY <1>b DEF FenceType
  <2> QED
    BY <2>1 DEF Dropped, FenceType
<1>d. ASSUME NEW fc \in FenceType, NEW l \in {"no", "list", "swept"} \union Actors
      PROVE  [fc EXCEPT !.on = l, !.ref = @ + 1] \in FenceType
  <2>1. fc.ref + 1 \in Nat
    BY DEF FenceType
  <2> QED
    BY <2>1 DEF FenceType
<1>c. Actors \intersect {"no", "list", "swept"} = {} /\ NoFence \in FenceType
  BY TimelineAssumption DEF Actors, NoFence, FenceType, Seqnos
<1> USE DEF timeline, object
<1>1. ASSUME NEW s \in Seqnos, Create(s) PROVE fence' \in [Fences -> FenceType]
  BY <1>1, <1>a DEF Create
<1>2. ASSUME DestroyRemove PROVE fence' \in [Fences -> FenceType]
  BY <1>2, <1>a DEF DestroyRemove
<1>3. ASSUME DestroySweep PROVE fence' \in [Fences -> FenceType]
  <2>1. ASSUME NEW f \in Fences PROVE [fence[f] EXCEPT !.on = "no"] \in FenceType
    BY <1>a DEF FenceType
  <2> QED
    BY <1>3, <1>a, <1>d, <2>1 DEF DestroySweep
<1>4. ASSUME DestroySignal PROVE fence' \in [Fences -> FenceType]
  <2>1. ASSUME NEW f \in Fences, fence[f].on = "swept"
        PROVE  Dropped([fence[f] EXCEPT !.error = TRUE, !.signaled = TRUE, !.on = "no"])
                 \in FenceType
    <3>1. [fence[f] EXCEPT !.error = TRUE, !.signaled = TRUE, !.on = "no"] \in FenceType
      BY <1>a DEF FenceType
    <3>2. fence[f].ref > 0
      BY <1>a, <2>1 DEF FenceRef, FenceType, Unit
    <3> QED
      BY <1>a, <1>b, <3>1, <3>2 DEF FenceType
  <2> QED
    BY <1>4, <1>a, <2>1 DEF DestroySignal
<1>5. ASSUME NEW c \in Callers, ById(c) PROVE fence' \in [Fences -> FenceType]
  BY <1>5, <1>a DEF ById
<1>6. ASSUME NEW c \in Callers, GiveUp(c) PROVE fence' \in [Fences -> FenceType]
  BY <1>6, <1>a DEF GiveUp
<1>7. ASSUME NEW c \in Callers, Query(c) PROVE fence' \in [Fences -> FenceType]
  BY <1>7, <1>a DEF Query
<1>8. ASSUME NEW c \in Callers, NEW s \in Seqnos, IoctlSignal(c,
   s) PROVE fence' \in [Fences -> FenceType]
  BY <1>8, <1>a DEF IoctlSignal, SignalBegin
<1>9. ASSUME NEW c \in Callers, NEW f \in Fences, NEW s \in Seqnos,
             FenceAlloc(c, f, s)
      PROVE fence' \in [Fences -> FenceType]
  <2>1. [NoFence EXCEPT !.st = "live", !.seqno = s, !.ref = 1, !.user = TRUE,
            !.signaled = s <= value,
               !.on = IF s <= value THEN "no" ELSE "list"] \in FenceType
    <3>1. /\ (s <= value) \in BOOLEAN
          /\ (IF s <= value THEN "no" ELSE "list") \in {"no", "list",
             "swept"} \union Actors
      OBVIOUS
    <3> QED
      BY <1>c, <3>1 DEF NoFence, FenceType
  <2> QED
    BY <1>9, <1>a, <2>1 DEF FenceAlloc
<1>10. ASSUME NEW a \in Actors, SignalTake(a) PROVE fence' \in [Fences -> FenceType]
  BY <1>10, <1>a, <1>d DEF SignalTake
<1>11. ASSUME NEW a \in Actors, SignalEnd(a) PROVE fence' \in [Fences -> FenceType]
  <2>1. ASSUME NEW f \in Fences, fence[f].on = a
        PROVE  Dropped([fence[f] EXCEPT !.signaled = TRUE, !.on = "no"]) \in FenceType
    <3>1. [fence[f] EXCEPT !.signaled = TRUE, !.on = "no"] \in FenceType
      BY <1>a DEF FenceType
    <3>2. fence[f].ref > 0
      BY <1>a, <1>c, <2>1 DEF FenceRef, FenceType, Unit
    <3> QED
      BY <1>a, <1>b, <3>1, <3>2 DEF FenceType
  <2> QED
    BY <1>11, <1>a, <2>1 DEF SignalEnd
<1>12. ASSUME NEW o \in Objs, Pop(o) PROVE fence' \in [Fences -> FenceType]
  BY <1>12, <1>a DEF Pop, PutSig
<1>13. ASSUME NEW o \in Objs, ObjRetire(o) PROVE fence' \in [Fences -> FenceType]
  BY <1>13, <1>a DEF ObjRetire, SignalBegin
<1>14. ASSUME NEW o \in Objs, RetireCommands(o) PROVE fence' \in [Fences -> FenceType]
  BY <1>14, <1>a DEF RetireCommands
<1>15. ASSUME NEW o \in Objs, EventFires(o) PROVE fence' \in [Fences -> FenceType]
  BY <1>15, <1>a DEF EventFires, PutSig
<1>16. ASSUME NEW o \in Objs, NEW s \in Seqnos, NEW done \in BOOLEAN, AddTimeline(o, s,
   done) PROVE fence' \in [Fences -> FenceType]
  BY <1>16, <1>a DEF AddTimeline
<1>17. ASSUME NEW f \in Fences, Poll(f) PROVE fence' \in [Fences -> FenceType]
  <2>1. [fence[f] EXCEPT !.signaled = TRUE] \in FenceType
    BY <1>a DEF FenceType
  <2>2. fence' = [fence EXCEPT ![f] = [fence[f] EXCEPT !.signaled = TRUE]]
    BY <1>17 DEF Poll
  <2> QED
    BY <1>a, <2>1, <2>2
<1>18. ASSUME NEW f \in Fences, PutFence(f) PROVE fence' \in [Fences -> FenceType]
  <2>1. [fence[f] EXCEPT !.user = FALSE] \in FenceType
    BY <1>a DEF FenceType
  <2>2. fence[f].ref > 0
    BY <1>18, <1>a DEF PutFence, FenceRef, FenceType, Unit
  <2>3. Dropped([fence[f] EXCEPT !.user = FALSE]) \in FenceType
    BY <1>a, <1>b, <2>1, <2>2 DEF FenceType
  <2> QED
    BY <1>18, <1>a, <2>3 DEF PutFence
<1>19. ASSUME NEW f \in Fences, Release(f) PROVE fence' \in [Fences -> FenceType]
  BY <1>19, <1>a, <1>c DEF Release
<1>20. CASE UNCHANGED vars
  BY <1>20, <1>a DEF vars
<1> QED
  BY <1>1, <1>2, <1>3, <1>4, <1>5, <1>6, <1>7, <1>8, <1>9, <1>10, <1>11, <1>12, <1>13,
     <1>14, <1>15, <1>16, <1>17, <1>18, <1>19, <1>20
     DEF Next, CallerSteps, ObjSteps, SignalSteps, Actors

\* A step of any action keeps every variable in its type: no reference is put
\* that is not held, and no object puts its signal reference once too often.
LEMMA TypeStep == TypeOK /\ References /\ ObjInv /\ EventsAhead /\ [Next]_vars => TypeOK'
<1> SUFFICES ASSUME TypeOK, References, ObjInv, EventsAhead, [Next]_vars PROVE TypeOK'
  OBVIOUS
<1> DEFINE Rest ==
      /\ id \in BOOLEAN /\ value \in Seqnos /\ ref \in Nat /\ events \in Seq(Objs)
      /\ at \in [Actors -> {"idle", "got", "queued", "wait", "retire", "begun", "taken"}]
      /\ seq \in [Objs -> Seqnos] /\ sig \in [Objs -> 0 .. 2]
      /\ fired \in [Objs -> BOOLEAN] /\ passed \in [Objs -> BOOLEAN]
      /\ destroy \in {"no", "removed", "swept", "done"}
<1>a. Rest
  BY DEF TypeOK
<1>b. SUFFICES Rest'
  <2>1. fence' \in [Fences -> FenceType]
    BY FenceTypeStep
  <2> QED
    BY <1>b, <2>1 DEF TypeOK, FenceType
<1>c. Callers \subseteq Actors /\ Objs \subseteq Actors /\ 0 \in Seqnos
  BY TimelineAssumption DEF Actors, Seqnos
<1>d. ASSUME NEW a \in Actors, at[a] # "idle" PROVE ref - 1 \in Nat
  BY <1>d, RefPositive
<1>e. ASSUME NEW s \in Seqnos PROVE Trim(s) \in Seq(Objs)
  BY TrimSuffix
<1> USE <1>a DEF timeline, object, Goto, Leave
<1>1. ASSUME NEW s \in Seqnos, Create(s) PROVE Rest'
  BY <1>1 DEF Create
<1>2. ASSUME DestroyRemove PROVE Rest'
  BY <1>2, <1>c, <1>d DEF DestroyRemove
<1>3. ASSUME DestroySweep PROVE Rest'
  BY <1>3, <1>c, <1>d DEF DestroySweep
<1>4. ASSUME DestroySignal PROVE Rest'
  <2>1. ref - 1 \in Nat
    BY <1>4, RefPositive DEF DestroySignal
  <2> QED
    BY <1>4, <2>1 DEF DestroySignal
<1>5. ASSUME NEW c \in Callers, ById(c) PROVE Rest'
  BY <1>5, <1>c, <1>d DEF ById
<1>6. ASSUME NEW c \in Callers, GiveUp(c) PROVE Rest'
  BY <1>6, <1>c, <1>d DEF GiveUp
<1>7. ASSUME NEW c \in Callers, Query(c) PROVE Rest'
  BY <1>7, <1>c, <1>d DEF Query
<1>8. ASSUME NEW c \in Callers, NEW s \in Seqnos, IoctlSignal(c, s) PROVE Rest'
  <2>1. ref - 1 \in Nat
    BY <1>8, <1>c, <1>d DEF IoctlSignal
  <2>2. CASE s < value
    BY <1>8, <1>c, <2>1, <2>2 DEF IoctlSignal, SignalBegin
  <2>3. CASE ~(s < value)
    BY <1>8, <1>c, <1>e, <2>1, <2>3 DEF IoctlSignal, SignalBegin
  <2> QED
    BY <2>2, <2>3
<1>9. ASSUME NEW c \in Callers, NEW f \in Fences, NEW s \in Seqnos,
             FenceAlloc(c, f, s)
      PROVE Rest'
  BY <1>9, <1>c, <1>d DEF FenceAlloc
<1>10. ASSUME NEW a \in Actors, SignalTake(a) PROVE Rest'
  BY <1>10 DEF SignalTake
<1>11. ASSUME NEW a \in Actors, SignalEnd(a) PROVE Rest'
  BY <1>11, <1>c, <1>d DEF SignalEnd
<1>12. ASSUME NEW o \in Objs, Pop(o) PROVE Rest'
  <2>1. events' \in Seq(Objs)
    BY <1>12, InsertBetween DEF Pop
  <2>2. sig[o] \in {1, 2}
    BY <1>12 DEF Pop, ObjInv, Unit
  <2>3. sig' \in [Objs -> 0 .. 2]
    BY <1>12, <2>2 DEF Pop, PutSig
  <2>4. at' \in [Actors -> {"idle", "got", "queued", "wait", "retire", "begun", "taken"}]
    BY <1>12, <1>c DEF Pop, PutSig
  <2> QED
    BY <1>12, <2>1, <2>3, <2>4 DEF Pop
<1>13. ASSUME NEW o \in Objs, ObjRetire(o) PROVE Rest'
  <2>1. ref - 1 \in Nat /\ seq[o] \in Seqnos
    BY <1>13, <1>c, <1>d DEF ObjRetire
  <2>2. seq' \in [Objs -> Seqnos] /\ fired' \in [Objs -> BOOLEAN] /\ passed' \in [Objs -> BOOLEAN]
    BY <1>13, <1>c DEF ObjRetire
  <2>3. CASE seq[o] < value
    BY <1>13, <1>c, <2>1, <2>2, <2>3 DEF ObjRetire, SignalBegin
  <2>4. CASE ~(seq[o] < value)
    BY <1>13, <1>c, <1>e, <2>1, <2>2, <2>4 DEF ObjRetire, SignalBegin
  <2> QED
    BY <2>3, <2>4
<1>14. ASSUME NEW o \in Objs, RetireCommands(o) PROVE Rest'
  BY <1>14 DEF RetireCommands
<1>15. ASSUME NEW o \in Objs, EventFires(o) PROVE Rest'
  <2>1. sig[o] \in {1, 2}
    BY <1>15 DEF EventFires, ObjInv, Unit
  <2>2. sig' \in [Objs -> 0 .. 2]
    BY <1>15, <2>1 DEF EventFires, PutSig
  <2>3. at' \in [Actors -> {"idle", "got", "queued", "wait", "retire", "begun", "taken"}]
    BY <1>15, <1>c DEF EventFires, PutSig
  <2> QED
    BY <1>15, <2>2, <2>3 DEF EventFires
<1>16. ASSUME NEW o \in Objs, NEW s \in Seqnos, NEW done \in BOOLEAN, AddTimeline(o, s,
   done) PROVE Rest'
  <2>1. sig' \in [Objs -> 0 .. 2] /\ seq' \in [Objs -> Seqnos] /\ passed' \in [Objs -> BOOLEAN]
    BY <1>16 DEF AddTimeline
  <2> QED
    BY <1>16, <1>c, <2>1 DEF AddTimeline
<1>17. ASSUME NEW f \in Fences, Poll(f) PROVE Rest'
  BY <1>17 DEF Poll
<1>18. ASSUME NEW f \in Fences, PutFence(f) PROVE Rest'
  BY <1>18 DEF PutFence, Dropped
<1>19. ASSUME NEW f \in Fences, Release(f) PROVE Rest'
  <2>1. ref - 1 \in Nat
    BY <1>19, RefPositive DEF Release
  <2> QED
    BY <1>19, <2>1 DEF Release
<1>20. CASE UNCHANGED vars
  BY <1>20 DEF vars
<1> QED
  BY <1>1, <1>2, <1>3, <1>4, <1>5, <1>6, <1>7, <1>8, <1>9, <1>10, <1>11, <1>12, <1>13,
     <1>14, <1>15, <1>16, <1>17, <1>18, <1>19, <1>20
     DEF Next, CallerSteps, ObjSteps, SignalSteps, Actors

\* Every step that takes or puts a reference on the timeline begins or ends the
\* use it stands for.
LEMMA TimelineRefStep == TimelineInv /\ [Next]_vars => TimelineRef'
<1> SUFFICES ASSUME TimelineInv, [Next]_vars PROVE TimelineRef'
  OBVIOUS
<1>a. TypeOK /\ TimelineRef /\ IdInv
  BY ReferencesParts DEF TimelineInv
<1>b. ref \in Nat /\ Callers \subseteq Actors /\ Objs \subseteq Actors
  BY <1>a DEF TypeOK, Actors
<1>c. at' = at => Holders' = Holders
  BY DEF Holders
<1>d. (\A f \in Fences : fence'[f].st = "free" <=> fence[f].st = "free") => Used' = Used
  BY DEF Used
<1>e. fence' = fence => Used' = Used
  BY DEF Used
<1>f. /\ fence \in [Fences -> FenceType] /\ \A f \in Fences : fence[f] \in FenceType
      /\ FenceInv /\ \A f \in Fences : FenceRef(fence[f])
  BY <1>a, ReferencesParts DEF TimelineInv, TypeOK, FenceType
<1>g. \A fc \in FenceType : fc.st # "free" => Dropped(fc).st # "free"
  BY DEF Dropped, FenceType
<1>h. \A f \in Fences : fence[f].st = "free" => fence[f].on = "no" /\ ~fence[f].user
  BY <1>f DEF FenceInv, NoFence
<1> USE <1>a, <1>b, CountedSets, LeaveMove DEF TimelineRef, Unit, timeline, object
<1>1. ASSUME NEW s \in Seqnos, Create(s) PROVE TimelineRef'
  <2>1. destroy = "done"
    BY <1>1 DEF Create
  <2> QED
    BY <1>1, <2>1, <1>c, <1>e DEF Create
<1>2. ASSUME DestroyRemove PROVE TimelineRef'
  BY <1>2, <1>c, <1>e DEF DestroyRemove, IdInv
<1>3. ASSUME DestroySweep PROVE TimelineRef'
  <2>1. \A f \in Fences : fence'[f].st = "free" <=> fence[f].st = "free"
    BY <1>3, <1>f DEF DestroySweep, FenceType
  <2> QED
    BY <1>3, <1>c, <1>d, <2>1 DEF DestroySweep
<1>4. ASSUME DestroySignal PROVE TimelineRef'
  <2>1. \A f \in Fences : fence'[f].st = "free" <=> fence[f].st = "free"
    BY <1>4, <1>f, <1>h DEF DestroySignal, Dropped, FenceType
  <2>2. at' = at /\ ref' = ref - 1 /\ destroy = "swept" /\ destroy' = "done"
    BY <1>4 DEF DestroySignal
  <2> QED
    BY <1>c, <1>d, <2>1, <2>2
<1>5. ASSUME NEW c \in Callers, ById(c) PROVE TimelineRef'
  BY <1>5, <1>c, <1>e, HoldersMove DEF ById
<1>6. ASSUME NEW c \in Callers, GiveUp(c) PROVE TimelineRef'
  BY <1>6, <1>c, <1>e, HoldersMove DEF GiveUp
<1>7. ASSUME NEW c \in Callers, Query(c) PROVE TimelineRef'
  BY <1>7, <1>c, <1>e, HoldersMove DEF Query
<1>8. ASSUME NEW c \in Callers, NEW s \in Seqnos, IoctlSignal(c, s) PROVE TimelineRef'
  <2>1. CASE s < value
    BY <1>8, <2>1, <1>e, HoldersMove DEF IoctlSignal, SignalBegin
  <2>2. CASE ~(s < value)
    BY <1>8, <2>2, <1>e, HoldersMove DEF IoctlSignal, SignalBegin
  <2> QED
    BY <2>1, <2>2
<1>9. ASSUME NEW c \in Callers, NEW f \in Fences, NEW s \in Seqnos,
             FenceAlloc(c, f, s)
      PROVE TimelineRef'
  <2> DEFINE r == [NoFence EXCEPT !.st = "live", !.seqno = s, !.ref = 1, !.user = TRUE,
                     !.signaled = s <= value, !.on = IF s <= value THEN "no" ELSE "list"]
  <2>1. r.st # "free" /\ SetFence(f, r) /\ fence[f].st = "free"
    BY <1>9 DEF FenceAlloc, NoFence, SetFence
  <2> HIDE DEF r
  <2>2. Cardinality(Used') = Cardinality(Used) + 1
    BY <2>1, UsedMove
  <2>3. Cardinality(Holders') = Cardinality(Holders) - 1
    BY <1>9, HoldersMove DEF FenceAlloc
  <2> QED
    BY <1>9, <2>2, <2>3 DEF FenceAlloc
<1>10. ASSUME NEW a \in Actors, SignalTake(a) PROVE TimelineRef'
  <2>1. \A f \in Fences : fence'[f].st = "free" <=> fence[f].st = "free"
    BY <1>10, <1>f DEF SignalTake, FenceType
  <2>2. Goto(a, "taken") /\ at[a] # "idle" /\ ref' = ref /\ destroy' = destroy
    BY <1>10 DEF SignalTake
  <2> QED
    BY <1>d, <2>1, <2>2, HoldersMove
<1>11. ASSUME NEW a \in Actors, SignalEnd(a) PROVE TimelineRef'
  <2>1. \A f \in Fences : fence'[f].st = "free" <=> fence[f].st = "free"
    BY <1>11, <1>f, <1>h, TimelineAssumption DEF SignalEnd, Dropped, FenceType, Actors
  <2>2. Goto(a, "idle") /\ at[a] # "idle" /\ ref' = ref - 1 /\ destroy' = destroy
    BY <1>11 DEF SignalEnd
  <2> QED
    BY <1>d, <2>1, <2>2, HoldersMove
<1>12. ASSUME NEW o \in Objs, Pop(o) PROVE TimelineRef'
  <2>1. PICK l : l # "idle" /\ Goto(o, l)
    BY <1>12 DEF Pop, PutSig
  <2> QED
    BY <1>12, <2>1, <1>e, HoldersMove DEF Pop
<1>13. ASSUME NEW o \in Objs, ObjRetire(o) PROVE TimelineRef'
  <2>1. CASE seq[o] < value
    BY <1>13, <2>1, <1>e, HoldersMove DEF ObjRetire, SignalBegin
  <2>2. CASE ~(seq[o] < value)
    BY <1>13, <2>2, <1>e, HoldersMove DEF ObjRetire, SignalBegin
  <2> QED
    BY <2>1, <2>2
<1>14. ASSUME NEW o \in Objs, RetireCommands(o) PROVE TimelineRef'
  BY <1>14, <1>c, <1>e, HoldersMove DEF RetireCommands
<1>15. ASSUME NEW o \in Objs, EventFires(o) PROVE TimelineRef'
  <2>1. PICK l : l # "idle" /\ Goto(o, l)
    BY <1>15 DEF EventFires, PutSig
  <2> QED
    BY <1>15, <2>1, <1>e, HoldersMove DEF EventFires
<1>16. ASSUME NEW o \in Objs, NEW s \in Seqnos, NEW done \in BOOLEAN, AddTimeline(o, s,
   done) PROVE TimelineRef'
  BY <1>16, <1>c, <1>e, HoldersMove DEF AddTimeline
<1>17. ASSUME NEW f \in Fences, Poll(f) PROVE TimelineRef'
  <2>1. \A g \in Fences : fence'[g].st = "free" <=> fence[g].st = "free"
    BY <1>17, <1>f DEF Poll, FenceType
  <2> QED
    BY <1>17, <1>c, <1>d, <2>1 DEF Poll
<1>18. ASSUME NEW f \in Fences, PutFence(f) PROVE TimelineRef'
  <2>1. \A g \in Fences : fence'[g].st = "free" <=> fence[g].st = "free"
    BY <1>18, <1>f, <1>h DEF PutFence, Dropped, FenceType
  <2> QED
    BY <1>18, <1>c, <1>d, <2>1 DEF PutFence
<1>19. ASSUME NEW f \in Fences, Release(f) PROVE TimelineRef'
  <2>1. NoFence.st = "free" /\ fence[f].st # "free" /\ SetFence(f, NoFence)
    BY <1>19 DEF Release, NoFence, SetFence
  <2>2. Cardinality(Used') = Cardinality(Used) - 1
    BY <2>1, UsedMove
  <2> QED
    BY <1>19, <1>c, <2>2 DEF Release
<1>20. CASE UNCHANGED vars
  BY <1>20, <1>c, <1>e DEF vars
<1> QED
  BY <1>1, <1>2, <1>3, <1>4, <1>5, <1>6, <1>7, <1>8, <1>9, <1>10, <1>11, <1>12, <1>13,
     <1>14, <1>15, <1>16, <1>17, <1>18, <1>19, <1>20
     DEF Next, CallerSteps, ObjSteps, SignalSteps, Actors

\* A fence's count of references is that of its holder and of the list it was
\* taken to; one that leaves the lists alive has been signaled.
LEMMA FenceStep ==
    TimelineInv /\ [Next]_vars => FenceInv' /\ \A f \in Fences : FenceRef(fence'[f])
<1> DEFINE Good(fc) == /\ FenceRef(fc) /\ (fc.st = "free" => fc = NoFence)
                       /\ (fc.st = "live" /\ fc.on = "no" => fc.signaled)
<1> SUFFICES ASSUME TimelineInv, [Next]_vars PROVE \A e \in Fences : Good(fence'[e])
  BY DEF FenceInv
<1>a. /\ fence \in [Fences -> FenceType]
      /\ \A f \in Fences : fence[f] \in FenceType /\ FenceRef(fence[f]) /\ Good(fence[f])
  BY ReferencesParts DEF TimelineInv, TypeOK, FenceType, FenceInv
<1>b. Actors \intersect {"no", "list", "swept"} = {}
  BY TimelineAssumption DEF Actors
<1>c. Good(NoFence)
  BY DEF NoFence, FenceRef, Unit
<1>d. ASSUME NEW fc \in FenceType, FenceRef(fc), fc.on \notin {"no", "list"}
      PROVE  Good(Dropped([fc EXCEPT !.signaled = TRUE, !.on = "no"]))
  <2> DEFINE r == Dropped([fc EXCEPT !.signaled = TRUE, !.on = "no"])
  <2> SUFFICES Good(r)
    OBVIOUS
  <2>1. /\ r.ref = fc.ref - 1 /\ r.user = fc.user /\ r.on = "no" /\ r.signaled
        /\ r.st = IF fc.ref = 1 THEN "dead" ELSE fc.st
    BY DEF Dropped, FenceType
  <2>2. fc.ref \in Nat /\ fc.user \in BOOLEAN
    BY DEF FenceType
  <2> HIDE DEF r
  <2>3. fc.ref = (IF fc.user THEN 2 ELSE 1) /\ fc.st = "live"
    BY <1>d, <2>2 DEF FenceRef, Unit
  <2>4. CASE fc.user
    BY <2>1, <2>3, <2>4 DEF FenceRef, Unit
  <2>5. CASE ~fc.user
    BY <2>1, <2>3, <2>5 DEF FenceRef, Unit
  <2> QED
    BY <2>4, <2>5
<1>e. ASSUME NEW fc \in FenceType, FenceRef(fc), fc.on = "list", fc.ref > 0,
             NEW l \in Actors \union {"swept"}
      PROVE  Good([fc EXCEPT !.on = l, !.ref = @ + 1])
  <2> DEFINE r == [fc EXCEPT !.on = l, !.ref = @ + 1]
  <2> SUFFICES Good(r)
    OBVIOUS
  <2>1. r.ref = fc.ref + 1 /\ r.user = fc.user /\ r.on = l /\ r.st = fc.st
    BY DEF FenceType
  <2>2. fc.ref \in Nat /\ fc.user \in BOOLEAN /\ fc.st = "live" /\ fc.ref = Unit(fc.user)
    BY <1>e DEF FenceType, FenceRef, Unit
  <2> HIDE DEF r
  <2> QED
    BY <1>b, <2>1, <2>2 DEF FenceRef, Unit
<1> USE DEF timeline, object
<1>1. ASSUME NEW s \in Seqnos, Create(s) PROVE \A e \in Fences : Good(fence'[e])
  BY <1>1, <1>a DEF Create
<1>2. ASSUME DestroyRemove PROVE \A e \in Fences : Good(fence'[e])
  BY <1>2, <1>a DEF DestroyRemove
<1>3. ASSUME DestroySweep PROVE \A e \in Fences : Good(fence'[e])
  <2> SUFFICES ASSUME NEW f \in Fences PROVE Good(fence'[f])
    OBVIOUS
  <2>1. CASE fence[f].on # "list"
    BY <1>3, <1>a, <2>1 DEF DestroySweep
  <2>2. CASE fence[f].on = "list" /\ fence[f].ref = 0
    <3> DEFINE r == [fence[f] EXCEPT !.on = "no"]
    <3>1. fence'[f] = r
      BY <1>3, <2>2 DEF DestroySweep
    <3>2. r.ref = 0 /\ r.user = fence[f].user /\ r.on = "no" /\ r.st = fence[f].st
      BY <1>a, <2>2 DEF FenceType
    <3>3. ~fence[f].user /\ fence[f].st # "live" /\ fence[f].st # "free"
      BY <1>a, <2>2 DEF FenceRef, Unit, NoFence
    <3> HIDE DEF r
    <3> QED
      BY <3>1, <3>2, <3>3 DEF FenceRef, Unit
  <2>3. CASE fence[f].on = "list" /\ fence[f].ref # 0
    <3>1. fence'[f] = [fence[f] EXCEPT !.on = "swept", !.ref = @ + 1]
      BY <1>3, <2>3 DEF DestroySweep
    <3>2. fence[f].ref > 0
      BY <1>a, <2>3 DEF FenceType
    <3> HIDE DEF Good
    <3>3. Good([fence[f] EXCEPT !.on = "swept", !.ref = @ + 1])
      BY <1>a, <1>e, <2>3, <3>2
    <3> QED
      BY <3>1, <3>3
  <2> QED
    BY <2>1, <2>2, <2>3
<1>4. ASSUME DestroySignal PROVE \A e \in Fences : Good(fence'[e])
  <2> SUFFICES ASSUME NEW f \in Fences PROVE Good(fence'[f])
    OBVIOUS
  <2>1. CASE fence[f].on # "swept"
    BY <1>4, <1>a, <2>1 DEF DestroySignal
  <2>2. CASE fence[f].on = "swept"
    <3> DEFINE fc == [fence[f] EXCEPT !.error = TRUE]
    <3>1. fc \in FenceType /\ FenceRef(fc) /\ fc.on = "swept"
      BY <1>a, <2>2 DEF FenceType, FenceRef
    <3>2. fence'[f] = Dropped([fc EXCEPT !.signaled = TRUE, !.on = "no"])
      BY <1>4, <2>2 DEF DestroySignal
    <3> HIDE DEF fc
    <3> QED
      BY <1>d, <3>1, <3>2
  <2> QED
    BY <2>1, <2>2
<1>5. ASSUME NEW c \in Callers, ById(c) PROVE \A e \in Fences : Good(fence'[e])
  BY <1>5, <1>a DEF ById
<1>6. ASSUME NEW c \in Callers, GiveUp(c) PROVE \A e \in Fences : Good(fence'[e])
  BY <1>6, <1>a DEF GiveUp
<1>7. ASSUME NEW c \in Callers, Query(c) PROVE \A e \in Fences : Good(fence'[e])
  BY <1>7, <1>a DEF Query
<1>8. ASSUME NEW c \in Callers, NEW s \in Seqnos, IoctlSignal(c,
   s) PROVE \A e \in Fences : Good(fence'[e])
  BY <1>8, <1>a DEF IoctlSignal, SignalBegin
<1>9. ASSUME NEW c \in Callers, NEW f \in Fences, NEW s \in Seqnos,
             FenceAlloc(c, f, s)
      PROVE \A e \in Fences : Good(fence'[e])
  <2> DEFINE r == [NoFence EXCEPT !.st = "live", !.seqno = s, !.ref = 1, !.user = TRUE,
                     !.signaled = s <= value, !.on = IF s <= value THEN "no" ELSE "list"]
  <2>1. /\ r.st = "live" /\ r.ref = 1 /\ r.user /\ (s <= value => r.signaled)
        /\ r.on = IF s <= value THEN "no" ELSE "list"
    BY DEF NoFence
  <2>2. fence' = [fence EXCEPT ![f] = r]
    BY <1>9 DEF FenceAlloc
  <2> HIDE DEF r
  <2>3. Good(r)
    BY <2>1 DEF FenceRef, Unit
  <2> QED
    BY <1>a, <2>2, <2>3
<1>10. ASSUME NEW a \in Actors, SignalTake(a) PROVE \A e \in Fences : Good(fence'[e])
  <2> SUFFICES ASSUME NEW f \in Fences PROVE Good(fence'[f])
    OBVIOUS
  <2>1. CASE fence[f].on = "list" /\ Reached(f) /\ fence[f].ref > 0
    <3>1. fence'[f] = [fence[f] EXCEPT !.on = a, !.ref = @ + 1]
      BY <1>10, <2>1 DEF SignalTake
    <3> HIDE DEF Good
    <3>2. Good([fence[f] EXCEPT !.on = a, !.ref = @ + 1])
      BY <1>a, <1>e, <2>1
    <3> QED
      BY <3>1, <3>2
  <2>2. CASE ~(fence[f].on = "list" /\ Reached(f) /\ fence[f].ref > 0)
    BY <1>10, <1>a, <2>2 DEF SignalTake
  <2> QED
    BY <2>1, <2>2
<1>11. ASSUME NEW a \in Actors, SignalEnd(a) PROVE \A e \in Fences : Good(fence'[e])
  <2> SUFFICES ASSUME NEW f \in Fences PROVE Good(fence'[f])
    OBVIOUS
  <2>1. CASE fence[f].on # a
    BY <1>11, <1>a, <2>1 DEF SignalEnd
  <2>2. CASE fence[f].on = a
    <3>1. fence'[f] = Dropped([fence[f] EXCEPT !.signaled = TRUE, !.on = "no"])
      BY <1>11, <2>2 DEF SignalEnd
    <3> QED
      BY <1>a, <1>b, <1>d, <2>2, <3>1
  <2> QED
    BY <2>1, <2>2
<1>12. ASSUME NEW o \in Objs, Pop(o) PROVE \A e \in Fences : Good(fence'[e])
  BY <1>12, <1>a DEF Pop, PutSig
<1>13. ASSUME NEW o \in Objs, ObjRetire(o) PROVE \A e \in Fences : Good(fence'[e])
  BY <1>13, <1>a DEF ObjRetire, SignalBegin
<1>14. ASSUME NEW o \in Objs, RetireCommands(o) PROVE \A e \in Fences : Good(fence'[e])
  BY <1>14, <1>a DEF RetireCommands
<1>15. ASSUME NEW o \in Objs, EventFires(o) PROVE \A e \in Fences : Good(fence'[e])
  BY <1>15, <1>a DEF EventFires, PutSig
<1>16. ASSUME NEW o \in Objs, NEW s \in Seqnos, NEW done \in BOOLEAN, AddTimeline(o, s,
   done) PROVE \A e \in Fences : Good(fence'[e])
  BY <1>16, <1>a DEF AddTimeline
<1>17. ASSUME NEW f \in Fences, Poll(f) PROVE \A e \in Fences : Good(fence'[e])
  <2> DEFINE r == [fence[f] EXCEPT !.signaled = TRUE]
  <2>1. /\ r.st = fence[f].st /\ r.ref = fence[f].ref /\ r.user = fence[f].user
        /\ r.on = fence[f].on /\ r.signaled
    BY <1>a DEF FenceType
  <2>2. fence' = [fence EXCEPT ![f] = r]
    BY <1>17 DEF Poll
  <2>3. fence[f].st # "free"
    BY <1>17, <1>a DEF Poll, NoFence
  <2> HIDE DEF r
  <2>4. Good(r)
    BY <1>a, <2>1, <2>3 DEF FenceRef
  <2> QED
    BY <1>a, <2>2, <2>4
<1>18. ASSUME NEW f \in Fences, PutFence(f) PROVE \A e \in Fences : Good(fence'[e])
  <2> DEFINE r == Dropped([fence[f] EXCEPT !.user = FALSE])
  <2>1. /\ r.ref = fence[f].ref - 1 /\ ~r.user /\ r.on = fence[f].on
        /\ r.signaled = fence[f].signaled
        /\ r.st = IF fence[f].ref = 1 THEN "dead" ELSE fence[f].st
    BY <1>a DEF Dropped, FenceType
  <2>2. fence' = [fence EXCEPT ![f] = r]
    BY <1>18 DEF PutFence
  <2>3. fence[f].user /\ fence[f].ref \in Nat
    BY <1>18, <1>a DEF PutFence, FenceType
  <2>4. fence[f].ref = 1 + Unit(fence[f].on \notin {"no", "list"}) /\ fence[f].st = "live"
    BY <1>a, <2>3 DEF FenceRef, Unit
  <2> HIDE DEF r
  <2>5. Good(r)
    BY <1>a, <2>1, <2>3, <2>4 DEF FenceRef, Unit
  <2> QED
    BY <1>a, <2>2, <2>5
<1>19. ASSUME NEW f \in Fences, Release(f) PROVE \A e \in Fences : Good(fence'[e])
  BY <1>19, <1>a, <1>c DEF Release
<1>20. CASE UNCHANGED vars
  BY <1>20, <1>a DEF vars
<1> QED
  BY <1>1, <1>2, <1>3, <1>4, <1>5, <1>6, <1>7, <1>8, <1>9, <1>10, <1>11, <1>12, <1>13,
     <1>14, <1>15, <1>16, <1>17, <1>18, <1>19, <1>20
     DEF Next, CallerSteps, ObjSteps, SignalSteps, Actors

\* timeline->lock goes to one signal at a time.
LEMMA SignallerStep == TimelineInv /\ [Next]_vars => OneSignaller'
<1> SUFFICES ASSUME TimelineInv, [Next]_vars PROVE OneSignaller'
  OBVIOUS
<1>a. TypeOK /\ OneSignaller /\ Callers \subseteq Actors /\ Objs \subseteq Actors
  BY DEF TimelineInv, Actors
<1> USE <1>a, LeaveMove DEF timeline, object, OneSignaller
<1>1. ASSUME NEW s \in Seqnos, Create(s) PROVE OneSignaller'
  BY <1>1, ActorMove DEF Create
<1>2. ASSUME DestroyRemove PROVE OneSignaller'
  BY <1>2, ActorMove DEF DestroyRemove
<1>3. ASSUME DestroySweep PROVE OneSignaller'
  BY <1>3 DEF DestroySweep
<1>4. ASSUME DestroySignal PROVE OneSignaller'
  BY <1>4 DEF DestroySignal
<1>5. ASSUME NEW c \in Callers, ById(c) PROVE OneSignaller'
  BY <1>5, ActorMove DEF ById
<1>6. ASSUME NEW c \in Callers, GiveUp(c) PROVE OneSignaller'
  BY <1>6, ActorMove DEF GiveUp
<1>7. ASSUME NEW c \in Callers, Query(c) PROVE OneSignaller'
  BY <1>7, ActorMove DEF Query
<1>8. ASSUME NEW c \in Callers, NEW s \in Seqnos, IoctlSignal(c, s) PROVE OneSignaller'
  BY <1>8, ActorMove DEF IoctlSignal, SignalBegin, Unlocked
<1>9. ASSUME NEW c \in Callers, NEW f \in Fences, NEW s \in Seqnos,
             FenceAlloc(c, f, s)
      PROVE OneSignaller'
  <2>1. Goto(c, "idle")
    BY <1>9 DEF FenceAlloc
  <2> QED
    BY <2>1, ActorMove
<1>10. ASSUME NEW a \in Actors, SignalTake(a) PROVE OneSignaller'
  <2>1. Goto(a, "taken") /\ at[a] = "begun"
    BY <1>10 DEF SignalTake
  <2> QED
    BY <2>1, ActorMove
<1>11. ASSUME NEW a \in Actors, SignalEnd(a) PROVE OneSignaller'
  <2>1. Goto(a, "idle")
    BY <1>11 DEF SignalEnd
  <2> QED
    BY <2>1, ActorMove
<1>12. ASSUME NEW o \in Objs, Pop(o) PROVE OneSignaller'
  BY <1>12, ActorMove DEF Pop, PutSig
<1>13. ASSUME NEW o \in Objs, ObjRetire(o) PROVE OneSignaller'
  BY <1>13, ActorMove DEF ObjRetire, SignalBegin, Unlocked
<1>14. ASSUME NEW o \in Objs, RetireCommands(o) PROVE OneSignaller'
  BY <1>14, ActorMove DEF RetireCommands
<1>15. ASSUME NEW o \in Objs, EventFires(o) PROVE OneSignaller'
  BY <1>15, ActorMove DEF EventFires, PutSig
<1>16. ASSUME NEW o \in Objs, NEW s \in Seqnos, NEW done \in BOOLEAN, AddTimeline(o, s,
   done) PROVE OneSignaller'
  BY <1>16, ActorMove DEF AddTimeline
<1>17. ASSUME NEW f \in Fences, Poll(f) PROVE OneSignaller'
  BY <1>17 DEF Poll
<1>18. ASSUME NEW f \in Fences, PutFence(f) PROVE OneSignaller'
  BY <1>18 DEF PutFence
<1>19. ASSUME NEW f \in Fences, Release(f) PROVE OneSignaller'
  BY <1>19 DEF Release
<1>20. CASE UNCHANGED vars
  BY <1>20 DEF vars
<1> QED
  BY <1>1, <1>2, <1>3, <1>4, <1>5, <1>6, <1>7, <1>8, <1>9, <1>10, <1>11, <1>12, <1>13,
     <1>14, <1>15, <1>16, <1>17, <1>18, <1>19, <1>20
     DEF Next, CallerSteps, ObjSteps, SignalSteps, Actors

\* A fence whose value is reached is signaled, or a signal has yet to look at
\* the list.
LEMMA LostStep == TimelineInv /\ [Next]_vars => NoLostFence'
<1> DEFINE Waits(f) == fence[f].st = "live" /\ fence[f].seqno <= value /\ ~fence[f].signaled
           Minded(f) == \/ fence[f].on \in Actors \union {"swept"}
                        \/ fence[f].on = "list" /\ \E a \in Actors : at[a] = "begun"
<1> SUFFICES ASSUME TimelineInv, [Next]_vars, NEW f \in Fences, Waits(f)' PROVE Minded(f)'
  BY DEF NoLostFence, Reached
<1>a. /\ TypeOK /\ OneSignaller /\ Callers \subseteq Actors /\ Objs \subseteq Actors
      /\ fence \in [Fences -> FenceType] /\ fence[f] \in FenceType /\ value \in Nat
      /\ fence[f].seqno \in Nat
  BY TimelineAssumption DEF TimelineInv, TypeOK, Actors, FenceType, Seqnos
<1>b. /\ FenceRef(fence[f]) /\ (fence[f].st = "free" => fence[f] = NoFence)
      /\ fence[f].st = "live" /\ fence[f].on = "no" => fence[f].signaled
  BY ReferencesParts DEF TimelineInv, FenceInv
<1>c. Waits(f) => Minded(f)
  BY DEF TimelineInv, NoLostFence, Reached
<1>d. fence[f].st = "live" <=> fence[f].ref > 0
  BY <1>b DEF FenceRef
<1>e. fence[f].on \in {"no", "list", "swept"} \union Actors
  BY <1>a DEF FenceType
<1> USE <1>a, LeaveMove DEF timeline, object
<1>1. ASSUME NEW s \in Seqnos, Create(s) PROVE Minded(f)'
  <2>1. Cardinality(Used) = 0
    BY <1>1, CountedSets, ReferencesParts DEF Create, TimelineInv, TimelineRef, Unit
  <2>2. Used = {}
    BY <2>1, CountedSets, FS_EmptySet
  <2> QED
    BY <1>1, <2>2 DEF Create, Used
<1>2. ASSUME DestroyRemove PROVE Minded(f)'
  BY <1>2, <1>c DEF DestroyRemove
<1>3. ASSUME DestroySweep PROVE Minded(f)'
  <2>1. at' = at /\ value' = value
    BY <1>3 DEF DestroySweep
  <2>2. CASE fence[f].on # "list"
    <3>1. fence'[f] = fence[f]
      BY <1>3, <2>2 DEF DestroySweep
    <3> QED
      BY <1>c, <2>1, <3>1
  <2>3. CASE fence[f].on = "list" /\ fence[f].ref = 0
    <3>1. fence'[f].st = fence[f].st
      BY <1>3, <2>3 DEF DestroySweep, FenceType
    <3> QED
      BY <1>d, <2>3, <3>1
  <2>4. CASE fence[f].on = "list" /\ fence[f].ref # 0
    <3>1. fence'[f].on = "swept"
      BY <1>3, <2>4 DEF DestroySweep, FenceType
    <3> QED
      BY <3>1
  <2> QED
    BY <2>2, <2>3, <2>4
<1>4. ASSUME DestroySignal PROVE Minded(f)'
  <2>1. at' = at /\ value' = value
    BY <1>4 DEF DestroySignal
  <2>2. CASE fence[f].on # "swept"
    <3>1. fence'[f] = fence[f]
      BY <1>4, <2>2 DEF DestroySignal
    <3> QED
      BY <1>c, <2>1, <3>1
  <2>3. CASE fence[f].on = "swept"
    <3>1. fence'[f].signaled
      BY <1>4, <2>3 DEF DestroySignal, Dropped, FenceType
    <3> QED
      BY <3>1
  <2> QED
    BY <2>2, <2>3
<1>5. ASSUME NEW c \in Callers, ById(c) PROVE Minded(f)'
  BY <1>5, <1>c, ActorMove DEF ById
<1>6. ASSUME NEW c \in Callers, GiveUp(c) PROVE Minded(f)'
  BY <1>6, <1>c, ActorMove DEF GiveUp
<1>7. ASSUME NEW c \in Callers, Query(c) PROVE Minded(f)'
  BY <1>7, <1>c, ActorMove DEF Query
<1>8. ASSUME NEW c \in Callers, NEW s \in Seqnos, IoctlSignal(c, s) PROVE Minded(f)'
  <2>1. CASE s < value
    BY <1>8, <1>c, <2>1, ActorMove DEF IoctlSignal, SignalBegin
  <2>2. CASE ~(s < value)
    <3>1. at'[c] = "begun" /\ fence' = fence
      BY <1>8, <2>2, ActorMove DEF IoctlSignal, SignalBegin
    <3> QED
      BY <1>b, <1>e, <3>1
  <2> QED
    BY <2>1, <2>2
<1>9. ASSUME NEW c \in Callers, NEW g \in Fences, NEW s \in Seqnos, FenceAlloc(c, g,
   s) PROVE Minded(f)'
  <2>1. value' = value /\ at[c] = "got" /\ Goto(c, "idle") /\ s \in Nat
    BY <1>9 DEF FenceAlloc, Seqnos
  <2>2. CASE g # f
    <3>1. fence'[f] = fence[f]
      BY <1>9, <2>2 DEF FenceAlloc
    <3> QED
      BY <1>c, <2>1, <3>1, ActorMove
  <2>3. CASE g = f
    <3>1. /\ fence'[f].seqno = s /\ fence'[f].on = (IF s <= value THEN "no" ELSE "list")
          /\ fence'[f].signaled = (s <= value)
      BY <1>9, <2>3 DEF FenceAlloc, NoFence
    <3> QED
      BY <2>1, <3>1
  <2> QED
    BY <2>2, <2>3
<1>10. ASSUME NEW a \in Actors, SignalTake(a) PROVE Minded(f)'
  <2>1. value' = value /\ at[a] = "begun"
        /\ Goto(a, "taken")
    BY <1>10 DEF SignalTake
  <2>2. CASE fence[f].on = "list" /\ Reached(f) /\ fence[f].ref > 0
    <3>1. fence'[f].on = a
      BY <1>10, <2>2 DEF SignalTake, FenceType
    <3> QED
      BY <3>1
  <2>3. CASE ~(fence[f].on = "list" /\ Reached(f) /\ fence[f].ref > 0)
    <3>1. fence'[f] = fence[f]
      BY <1>10, <2>3 DEF SignalTake
    <3>2. fence[f].on # "list"
      BY <1>d, <2>1, <2>3, <3>1 DEF Reached
    <3> QED
      BY <1>c, <2>1, <3>1, <3>2
  <2> QED
    BY <2>2, <2>3
<1>11. ASSUME NEW a \in Actors, SignalEnd(a) PROVE Minded(f)'
  <2>1. value' = value /\ at[a] = "taken"
        /\ Goto(a, "idle")
    BY <1>11 DEF SignalEnd
  <2>2. CASE fence[f].on # a
    <3>1. fence'[f] = fence[f]
      BY <1>11, <2>2 DEF SignalEnd
    <3> QED
      BY <1>c, <2>1, <3>1, ActorMove
  <2>3. CASE fence[f].on = a
    <3>1. fence'[f].signaled
      BY <1>11, <2>3 DEF SignalEnd, Dropped, FenceType
    <3> QED
      BY <3>1
  <2> QED
    BY <2>2, <2>3
<1>12. ASSUME NEW o \in Objs, Pop(o) PROVE Minded(f)'
  <2>1. PICK l : Goto(o, l) /\ at[o] # "begun"
    BY <1>12 DEF Pop, PutSig
  <2> QED
    BY <1>12, <1>c, <2>1, ActorMove DEF Pop
<1>13. ASSUME NEW o \in Objs, ObjRetire(o) PROVE Minded(f)'
  <2>1. CASE seq[o] < value
    BY <1>13, <1>c, <2>1, ActorMove DEF ObjRetire, SignalBegin
  <2>2. CASE ~(seq[o] < value)
    <3>1. at'[o] = "begun" /\ fence' = fence
      BY <1>13, <2>2, ActorMove DEF ObjRetire, SignalBegin
    <3> QED
      BY <1>b, <1>e, <3>1
  <2> QED
    BY <2>1, <2>2
<1>14. ASSUME NEW o \in Objs, RetireCommands(o) PROVE Minded(f)'
  BY <1>14, <1>c DEF RetireCommands
<1>15. ASSUME NEW o \in Objs, EventFires(o) PROVE Minded(f)'
  <2>1. PICK l : Goto(o, l) /\ at[o] # "begun"
    BY <1>15 DEF EventFires, PutSig
  <2> QED
    BY <1>15, <1>c, <2>1, ActorMove DEF EventFires
<1>16. ASSUME NEW o \in Objs, NEW s \in Seqnos, NEW done \in BOOLEAN, AddTimeline(o, s,
   done) PROVE Minded(f)'
  BY <1>16, <1>c, ActorMove DEF AddTimeline
<1>17. ASSUME NEW g \in Fences, Poll(g) PROVE Minded(f)'
  <2>1. at' = at /\ value' = value
    BY <1>17 DEF Poll
  <2>2. CASE g # f
    <3>1. fence'[f] = fence[f]
      BY <1>17, <2>2 DEF Poll
    <3> QED
      BY <1>c, <2>1, <3>1
  <2>3. CASE g = f
    <3>1. fence'[f].signaled
      BY <1>17, <2>3 DEF Poll, FenceType
    <3> QED
      BY <1>c, <2>1, <3>1
  <2> QED
    BY <2>2, <2>3
<1>18. ASSUME NEW g \in Fences, PutFence(g) PROVE Minded(f)'
  <2>1. at' = at /\ value' = value
    BY <1>18 DEF PutFence
  <2>2. CASE g # f
    <3>1. fence'[f] = fence[f]
      BY <1>18, <2>2 DEF PutFence
    <3> QED
      BY <1>c, <2>1, <3>1
  <2>3. CASE g = f
    <3>1. fence'[f].st = "live" => /\ fence[f].st = "live" /\ fence'[f].seqno = fence[f].seqno
                                      /\ fence'[f].on = fence[f].on
                                      /\ fence'[f].signaled = fence[f].signaled
      BY <1>18, <2>3 DEF PutFence, Dropped, FenceType
    <3> QED
      BY <1>c, <2>1, <3>1
  <2> QED
    BY <2>2, <2>3
<1>19. ASSUME NEW g \in Fences, Release(g) PROVE Minded(f)'
  <2>1. at' = at /\ value' = value
    BY <1>19 DEF Release
  <2>2. CASE g # f
    <3>1. fence'[f] = fence[f]
      BY <1>19, <2>2 DEF Release
    <3> QED
      BY <1>c, <2>1, <3>1
  <2>3. CASE g = f
    <3>1. fence'[f].st = "free"
      BY <1>19, <2>3 DEF Release, NoFence
    <3> QED
      BY <1>c, <2>1, <3>1
  <2> QED
    BY <2>2, <2>3
<1>20. CASE UNCHANGED vars
  BY <1>20, <1>c DEF vars
<1> QED
  BY <1>1, <1>2, <1>3, <1>4, <1>5, <1>6, <1>7, <1>8, <1>9, <1>10, <1>11, <1>12, <1>13,
     <1>14, <1>15, <1>16, <1>17, <1>18, <1>19, <1>20
     DEF Next, CallerSteps, ObjSteps, SignalSteps, Actors

\* The signal reference of an object is put by the queue and by the event, once
\* each; the identifier goes with the destruction.
LEMMA ObjStep == TimelineInv /\ [Next]_vars => ObjInv' /\ IdInv'
<1> SUFFICES ASSUME TimelineInv, [Next]_vars PROVE ObjInv' /\ IdInv'
  OBVIOUS
<1>a. TypeOK /\ ObjInv /\ IdInv /\ Callers \subseteq Actors /\ Objs \subseteq Actors
  BY DEF TimelineInv, Actors
<1>b. /\ sig \in [Objs -> 0 .. 2] /\ fired \in [Objs -> BOOLEAN]
      /\ \A o \in Objs : sig[o] \in 0 .. 2 /\ fired[o] \in BOOLEAN
      /\ Callers \intersect Objs = {}
  BY <1>a, TimelineAssumption DEF TypeOK
<1> USE <1>a, <1>b, LeaveMove DEF timeline, object, ObjInv, IdInv, Unit
<1>1. ASSUME NEW s \in Seqnos, Create(s) PROVE ObjInv' /\ IdInv'
  BY <1>1 DEF Create
<1>2. ASSUME DestroyRemove PROVE ObjInv' /\ IdInv'
  BY <1>2 DEF DestroyRemove
<1>3. ASSUME DestroySweep PROVE ObjInv' /\ IdInv'
  BY <1>3 DEF DestroySweep
<1>4. ASSUME DestroySignal PROVE ObjInv' /\ IdInv'
  BY <1>4 DEF DestroySignal
<1>5. ASSUME NEW c \in Callers, ById(c) PROVE ObjInv' /\ IdInv'
  BY <1>5, ActorMove DEF ById
<1>6. ASSUME NEW c \in Callers, GiveUp(c) PROVE ObjInv' /\ IdInv'
  BY <1>6, ActorMove DEF GiveUp
<1>7. ASSUME NEW c \in Callers, Query(c) PROVE ObjInv' /\ IdInv'
  BY <1>7, ActorMove DEF Query
<1>8. ASSUME NEW c \in Callers, NEW s \in Seqnos, IoctlSignal(c,
   s) PROVE ObjInv' /\ IdInv'
  BY <1>8, ActorMove DEF IoctlSignal, SignalBegin
<1>9. ASSUME NEW c \in Callers, NEW f \in Fences, NEW s \in Seqnos,
             FenceAlloc(c, f, s)
      PROVE ObjInv' /\ IdInv'
  <2>1. /\ Goto(c, "idle") /\ fired' = fired
        /\ sig' = sig /\ id' = id /\ destroy' = destroy
    BY <1>9 DEF FenceAlloc
  <2> QED
    BY <2>1, ActorMove
<1>10. ASSUME NEW a \in Actors, SignalTake(a) PROVE ObjInv' /\ IdInv'
  <2>1. /\ Goto(a, "taken") /\ at[a] = "begun" /\ fired' = fired
        /\ sig' = sig /\ id' = id /\ destroy' = destroy
    BY <1>10 DEF SignalTake
  <2> QED
    BY <2>1, ActorMove
<1>11. ASSUME NEW a \in Actors, SignalEnd(a) PROVE ObjInv' /\ IdInv'
  <2>1. /\ Goto(a, "idle") /\ at[a] = "taken" /\ fired' = fired
        /\ sig' = sig /\ id' = id /\ destroy' = destroy
    BY <1>11 DEF SignalEnd
  <2> QED
    BY <2>1, ActorMove
<1>12. ASSUME NEW o \in Objs, Pop(o) PROVE ObjInv' /\ IdInv'
  BY <1>12, ActorMove DEF Pop, PutSig
<1>13. ASSUME NEW o \in Objs, ObjRetire(o) PROVE ObjInv' /\ IdInv'
  BY <1>13, ActorMove DEF ObjRetire, SignalBegin
<1>14. ASSUME NEW o \in Objs, RetireCommands(o) PROVE ObjInv' /\ IdInv'
  BY <1>14 DEF RetireCommands
<1>15. ASSUME NEW o \in Objs, EventFires(o) PROVE ObjInv' /\ IdInv'
  BY <1>15, ActorMove DEF EventFires, PutSig
<1>16. ASSUME NEW o \in Objs, NEW s \in Seqnos, NEW done \in BOOLEAN, AddTimeline(o, s,
   done) PROVE ObjInv' /\ IdInv'
  BY <1>16, ActorMove DEF AddTimeline
<1>17. ASSUME NEW f \in Fences, Poll(f) PROVE ObjInv' /\ IdInv'
  BY <1>17 DEF Poll
<1>18. ASSUME NEW f \in Fences, PutFence(f) PROVE ObjInv' /\ IdInv'
  BY <1>18 DEF PutFence
<1>19. ASSUME NEW f \in Fences, Release(f) PROVE ObjInv' /\ IdInv'
  BY <1>19 DEF Release
<1>20. CASE UNCHANGED vars
  BY <1>20 DEF vars
<1> QED
  BY <1>1, <1>2, <1>3, <1>4, <1>5, <1>6, <1>7, <1>8, <1>9, <1>10, <1>11, <1>12, <1>13,
     <1>14, <1>15, <1>16, <1>17, <1>18, <1>19, <1>20
     DEF Next, CallerSteps, ObjSteps, SignalSteps, Actors

-----------------------------------------------------------------------------
(* The events of the list.                                                 *)

\* A signal at or above the value leaves a list that lies ahead of it, without
\* the object of the signal.
LEMMA TrimmedAhead ==
    ASSUME TypeOK, EventsAhead, NEW s \in Seqnos, s >= value
    PROVE  \A i \in 1 .. Len(Trim(s)) :
              /\ Trim(s)[i] \in Objs /\ at[Trim(s)[i]] \in {"wait", "retire"}
              /\ seq[Trim(s)[i]] > s
              /\ \A j \in i + 1 .. Len(Trim(s)) :
                    seq[Trim(s)[i]] <= seq[Trim(s)[j]] /\ Trim(s)[i] # Trim(s)[j]
<1>1. PICK d \in 0 .. Len(events) :
         /\ Len(Trim(s)) = Len(events) - d
         /\ \A i \in 1 .. Len(Trim(s)) : Trim(s)[i] = events[i + d] /\ seq[events[i + d]] > s
  BY TrimSuffix
<1>2. events \in Seq(Objs) /\ Len(events) \in Nat /\ \A i \in 1 .. Len(events) : events[i] \in Objs
  BY DEF TypeOK
<1> SUFFICES ASSUME NEW i \in 1 .. Len(Trim(s))
             PROVE  /\ Trim(s)[i] \in Objs /\ at[Trim(s)[i]] \in {"wait", "retire"}
                    /\ seq[Trim(s)[i]] > s
                    /\ \A j \in i + 1 .. Len(Trim(s)) :
                          seq[Trim(s)[i]] <= seq[Trim(s)[j]] /\ Trim(s)[i] # Trim(s)[j]
  OBVIOUS
<1>3. i + d \in 1 .. Len(events)
  BY <1>1, <1>2
<1>4. Trim(s)[i] \in Objs /\ at[Trim(s)[i]] \in {"wait", "retire"} /\ seq[Trim(s)[i]] > s
  BY <1>1, <1>2, <1>3 DEF EventsAhead
<1>5. ASSUME NEW j \in i + 1 .. Len(Trim(s))
      PROVE  seq[Trim(s)[i]] <= seq[Trim(s)[j]] /\ Trim(s)[i] # Trim(s)[j]
  <2>1. j + d \in (i + d) + 1 .. Len(events) /\ j \in 1 .. Len(Trim(s))
    BY <1>1, <1>2
  <2> QED
    <3>1. Trim(s)[i] = events[i + d] /\ Trim(s)[j] = events[j + d]
      BY <1>1, <2>1
    <3>2. seq[events[i + d]] <= seq[events[j + d]] /\ events[i + d] # events[j + d]
      BY <1>3, <2>1 DEF EventsAhead
    <3> QED
      BY <3>1, <3>2
<1> QED
  BY <1>4, <1>5

\* The list stays sorted and ahead of the value, and an object is off it before
\* it is reused.
LEMMA EventsStep == TimelineInv /\ [Next]_vars => EventsAhead'
<1> SUFFICES ASSUME TimelineInv, [Next]_vars PROVE EventsAhead'
  OBVIOUS
<1>a. TypeOK /\ EventsAhead
  BY DEF TimelineInv
<1>b. /\ Callers \subseteq Actors /\ Objs \subseteq Actors /\ Callers \intersect Objs = {}
      /\ events \in Seq(Objs) /\ Len(events) \in Nat /\ value \in Nat
      /\ \A i \in 1 .. Len(events) : events[i] \in Objs /\ seq[events[i]] \in Nat
      /\ seq \in [Objs -> Seqnos] /\ \A s \in Seqnos : s \in Nat
  BY <1>a, TimelineAssumption DEF TypeOK, Actors, Seqnos
<1>c. ASSUME events' = events, value' = value, seq' = seq,
             \A o \in Objs : at[o] \in {"wait", "retire"} => at'[o] \in {"wait", "retire"}
      PROVE  EventsAhead'
  BY <1>a, <1>b, <1>c DEF EventsAhead
<1> USE <1>a, <1>b, LeaveMove DEF timeline, object
<1>1. ASSUME NEW s \in Seqnos, Create(s) PROVE EventsAhead'
  BY <1>1 DEF Create, EventsAhead
<1>2. ASSUME DestroyRemove PROVE EventsAhead'
  <2>1. events' = events /\ value' = value /\ seq' = seq /\ at' = at
    BY <1>2 DEF DestroyRemove
  <2> QED
    BY <1>c, <2>1
<1>3. ASSUME DestroySweep PROVE EventsAhead'
  <2>1. events' = events /\ value' = value /\ seq' = seq /\ at' = at
    BY <1>3 DEF DestroySweep
  <2> QED
    BY <1>c, <2>1
<1>4. ASSUME DestroySignal PROVE EventsAhead'
  <2>1. events' = events /\ value' = value /\ seq' = seq /\ at' = at
    BY <1>4 DEF DestroySignal
  <2> QED
    BY <1>c, <2>1
<1>5. ASSUME NEW c \in Callers, ById(c) PROVE EventsAhead'
  <2>1. events' = events /\ value' = value /\ seq' = seq /\ Goto(c, "got")
    BY <1>5 DEF ById
  <2> QED
    BY <1>c, <2>1, ActorMove
<1>6. ASSUME NEW c \in Callers, GiveUp(c) PROVE EventsAhead'
  <2>1. events' = events /\ value' = value /\ seq' = seq /\ Goto(c, "idle")
    BY <1>6 DEF GiveUp
  <2> QED
    BY <1>c, <2>1, ActorMove
<1>7. ASSUME NEW c \in Callers, Query(c) PROVE EventsAhead'
  <2>1. events' = events /\ value' = value /\ seq' = seq /\ Goto(c, "idle")
    BY <1>7 DEF Query
  <2> QED
    BY <1>c, <2>1, ActorMove
<1>8. ASSUME NEW c \in Callers, NEW s \in Seqnos, IoctlSignal(c, s) PROVE EventsAhead'
  <2>1. CASE s < value
    <3>1. events' = events /\ value' = value /\ seq' = seq /\ Goto(c, "idle")
      BY <1>8, <2>1 DEF IoctlSignal, SignalBegin
    <3> QED
      BY <1>c, <3>1, ActorMove
  <2>2. CASE ~(s < value)
    <3>1. events' = Trim(s) /\ value' = s /\ seq' = seq /\ Goto(c, "begun")
      BY <1>8, <2>2 DEF IoctlSignal, SignalBegin
    <3>2. \A p \in Objs : at'[p] = at[p]
      BY <3>1, ActorMove
    <3>3. s >= value
      BY <2>2
    <3> QED
      BY <3>1, <3>2, <3>3, TrimmedAhead DEF EventsAhead
  <2> QED
    BY <2>1, <2>2
<1>9. ASSUME NEW c \in Callers, NEW f \in Fences, NEW s \in Seqnos,
             FenceAlloc(c, f, s)
      PROVE EventsAhead'
  <2>1. events' = events /\ value' = value /\ seq' = seq /\ Goto(c, "idle")
    BY <1>9 DEF FenceAlloc
  <2> QED
    BY <1>c, <2>1, ActorMove
<1>10. ASSUME NEW a \in Actors, SignalTake(a) PROVE EventsAhead'
  <2>1. events' = events /\ value' = value /\ seq' = seq
        /\ Goto(a, "taken") /\ at[a] = "begun"
    BY <1>10 DEF SignalTake
  <2> QED
    BY <1>c, <2>1, ActorMove
<1>11. ASSUME NEW a \in Actors, SignalEnd(a) PROVE EventsAhead'
  <2>1. events' = events /\ value' = value /\ seq' = seq
        /\ Goto(a, "idle") /\ at[a] = "taken"
    BY <1>11 DEF SignalEnd
  <2> QED
    BY <1>c, <2>1, ActorMove
<1>12. ASSUME NEW o \in Objs, Pop(o) PROVE EventsAhead'
  <2>1. /\ value' = value /\ seq' = seq /\ at[o] = "queued" /\ seq[o] \in Nat
        /\ Goto(o, IF sig[o] = 1 THEN "retire" ELSE "wait")
    BY <1>12 DEF Pop, PutSig
  <2>2. at'[o] \in {"wait", "retire"} /\ \A p \in Objs : p # o => at'[p] = at[p]
    BY <2>1, ActorMove
  <2>3. \A i \in 1 .. Len(events) : events[i] # o
    BY <2>1 DEF EventsAhead
  <2>4. CASE value >= seq[o]
    <3>1. events' = events
      BY <1>12, <2>4 DEF Pop
    <3> QED
      BY <1>c, <2>1, <2>2, <3>1
  <2>5. CASE ~(value >= seq[o])
    <3> DEFINE q == Insert(o)
    <3>1. events' = q /\ seq[o] > value
      BY <1>12, <2>1, <2>5 DEF Pop
    <3>2. PICK k \in 0 .. Len(events) :
             /\ q[k + 1] = o
             /\ \A i \in 1 .. k : q[i] = events[i] /\ seq[events[i]] <= seq[o]
             /\ \A i \in k + 1 .. Len(events) : q[i + 1] = events[i] /\ seq[events[i]] > seq[o]
      BY InsertBetween
    <3>3. q \in Seq(Objs) /\ Len(q) = Len(events) + 1
      BY InsertBetween
    <3> HIDE DEF q
    <3>4. \A i \in 1 .. Len(q) : \/ i \in 1 .. k /\ q[i] = events[i]
                                 \/ i = k + 1 /\ q[i] = o
                                 \/ i - 1 \in k + 1 .. Len(events) /\ q[i] = events[i - 1]
      <4> TAKE i \in 1 .. Len(q)
      <4>1. CASE i > k + 1
        <5>1. i - 1 \in k + 1 .. Len(events) /\ (i - 1) + 1 = i
          BY <3>3, <4>1
        <5> QED
          BY <3>2, <5>1
      <4>2. CASE i <= k + 1
        BY <3>2, <4>2
      <4> QED
        BY <4>1, <4>2
    <3>k. k \in Nat /\ k <= Len(events)
      BY <3>2
    <3>5. ASSUME NEW i \in 1 .. Len(q)
          PROVE  at'[q[i]] \in {"wait", "retire"} /\ seq[q[i]] > value
      <4>1. q[i] = o \/ \E m \in 1 .. Len(events) : q[i] = events[m]
        BY <3>4, <3>k
      <4>2. \A m \in 1 .. Len(events) :
               at'[events[m]] \in {"wait", "retire"} /\ seq[events[m]] > value
        BY <2>2, <2>3 DEF EventsAhead
      <4> QED
        BY <2>2, <3>1, <4>1, <4>2
    <3>6. ASSUME NEW i \in 1 .. Len(q), NEW j \in i + 1 .. Len(q)
          PROVE  seq[q[i]] <= seq[q[j]] /\ q[i] # q[j]
      <4>1. j \in 1 .. Len(q) /\ i < j /\ i \in Nat /\ j \in Nat /\ Len(events) \in Nat
        BY <3>3
      <4>2. CASE i \in 1 .. k /\ q[i] = events[i]
        <5>1. CASE j \in 1 .. k /\ q[j] = events[j]
          <6>1. i \in 1 .. Len(events) /\ j \in i + 1 .. Len(events)
            BY <3>k, <4>1, <4>2, <5>1
          <6> QED
            BY <4>2, <5>1, <6>1 DEF EventsAhead
        <5>2. CASE j = k + 1 /\ q[j] = o
          BY <2>3, <3>2, <4>2, <5>2
        <5>3. CASE j - 1 \in k + 1 .. Len(events) /\ q[j] = events[j - 1]
          <6>1. i \in 1 .. Len(events) /\ j - 1 \in i + 1 .. Len(events)
            BY ONLY <3>k, <4>1, <4>2, <5>3
          <6> QED
            BY <4>2, <5>3, <6>1 DEF EventsAhead
        <5> QED
          BY <3>4, <4>1, <5>1, <5>2, <5>3
      <4>3. CASE i = k + 1 /\ q[i] = o
        <5>1. j - 1 \in k + 1 .. Len(events) /\ q[j] = events[j - 1]
          <6>1. j \notin 1 .. k /\ j # k + 1
            BY ONLY <3>k, <4>1, <4>3
          <6> QED
            BY ONLY <3>4, <4>1, <6>1
        <5>2. j - 1 \in 1 .. Len(events)
          BY <3>k, <5>1
        <5>3. seq[events[j - 1]] > seq[o] /\ events[j - 1] # o /\ seq[events[j - 1]] \in Nat
          BY <2>3, <3>2, <5>1, <5>2
        <5> QED
          BY <2>1, <4>3, <5>1, <5>3
      <4>4. CASE i - 1 \in k + 1 .. Len(events) /\ q[i] = events[i - 1]
        <5>1. j - 1 \in k + 1 .. Len(events) /\ q[j] = events[j - 1]
          <6>1. j \notin 1 .. k /\ j # k + 1
            BY ONLY <3>k, <4>1, <4>4
          <6> QED
            BY ONLY <3>4, <4>1, <6>1
        <5>2. i - 1 \in 1 .. Len(events) /\ j - 1 \in (i - 1) + 1 .. Len(events)
          BY ONLY <3>k, <4>1, <4>4, <5>1
        <5> QED
          BY <4>4, <5>1, <5>2 DEF EventsAhead
      <4> QED
        BY <3>4, <4>2, <4>3, <4>4
    <3> QED
      BY <2>1, <3>1, <3>5, <3>6 DEF EventsAhead
  <2> QED
    BY <2>4, <2>5
<1>13. ASSUME NEW o \in Objs, ObjRetire(o) PROVE EventsAhead'
  <2>1. /\ at[o] = "retire" /\ seq[o] \in Seqnos /\ seq' = [seq EXCEPT ![o] = 0]
        /\ \A p \in Objs : p # o => seq'[p] = seq[p]
    BY <1>13 DEF ObjRetire
  <2>2. CASE seq[o] < value
    <3>1. events' = events /\ value' = value /\ Goto(o, "idle")
      BY <1>13, <2>2 DEF ObjRetire, SignalBegin
    <3>2. \A i \in 1 .. Len(events) : events[i] # o
      BY <2>2 DEF EventsAhead
    <3>3. \A i \in 1 .. Len(events) :
             seq'[events[i]] = seq[events[i]] /\ at'[events[i]] = at[events[i]]
      BY <2>1, <3>1, <3>2, ActorMove
    <3> QED
      BY <3>1, <3>3 DEF EventsAhead
  <2>3. CASE ~(seq[o] < value)
    <3> DEFINE t == Trim(seq[o])
    <3>1. events' = t /\ value' = seq[o] /\ Goto(o, "begun")
      BY <1>13, <2>3 DEF ObjRetire, SignalBegin
    <3>2. seq[o] >= value
      BY <2>1, <2>3
    <3>3. \A i \in 1 .. Len(t) :
              /\ t[i] \in Objs /\ at[t[i]] \in {"wait", "retire"} /\ seq[t[i]] > seq[o]
              /\ \A j \in i + 1 .. Len(t) : seq[t[i]] <= seq[t[j]] /\ t[i] # t[j]
      BY <2>1, <3>2, TrimmedAhead
    <3>4. t \in Seq(Objs) /\ Len(t) \in Nat
      BY <2>1, TrimSuffix
    <3> HIDE DEF t
    <3>5. \A i \in 1 .. Len(t) : t[i] # o /\ seq'[t[i]] = seq[t[i]] /\ at'[t[i]] = at[t[i]]
      BY <2>1, <3>1, <3>3, ActorMove
    <3>6. \A i \in 1 .. Len(t) : \A j \in i + 1 .. Len(t) : j \in 1 .. Len(t)
      BY <3>4
    <3> QED
      BY <3>1, <3>3, <3>5, <3>6 DEF EventsAhead
  <2> QED
    BY <2>2, <2>3
<1>14. ASSUME NEW o \in Objs, RetireCommands(o) PROVE EventsAhead'
  <2>1. events' = events /\ value' = value /\ seq' = seq /\ at' = at
    BY <1>14 DEF RetireCommands
  <2> QED
    BY <1>c, <2>1
<1>15. ASSUME NEW o \in Objs, EventFires(o) PROVE EventsAhead'
  <2>1. /\ events' = events /\ value' = value /\ seq' = seq
        /\ Goto(o, IF sig[o] = 1 THEN "retire" ELSE at[o])
    BY <1>15 DEF EventFires, PutSig
  <2>2. \A p \in Objs : at[p] \in {"wait", "retire"} => at'[p] \in {"wait", "retire"}
    BY <2>1, ActorMove
  <2> QED
    BY <1>c, <2>1, <2>2
<1>16. ASSUME NEW o \in Objs, NEW s \in Seqnos, NEW done \in BOOLEAN, AddTimeline(o, s,
   done) PROVE EventsAhead'
  <2>1. /\ events' = events /\ value' = value /\ seq' = [seq EXCEPT ![o] = s]
        /\ at[o] = "idle" /\ Goto(o, "queued")
    BY <1>16 DEF AddTimeline
  <2>2. \A i \in 1 .. Len(events) : events[i] # o
    BY <2>1 DEF EventsAhead
  <2>3. \A i \in 1 .. Len(events) :
           seq'[events[i]] = seq[events[i]] /\ at'[events[i]] = at[events[i]]
    BY <2>1, <2>2, ActorMove
  <2> QED
    BY <2>1, <2>3 DEF EventsAhead
<1>17. ASSUME NEW f \in Fences, Poll(f) PROVE EventsAhead'
  <2>1. events' = events /\ value' = value /\ seq' = seq /\ at' = at
    BY <1>17 DEF Poll
  <2> QED
    BY <1>c, <2>1
<1>18. ASSUME NEW f \in Fences, PutFence(f) PROVE EventsAhead'
  <2>1. events' = events /\ value' = value /\ seq' = seq /\ at' = at
    BY <1>18 DEF PutFence
  <2> QED
    BY <1>c, <2>1
<1>19. ASSUME NEW f \in Fences, Release(f) PROVE EventsAhead'
  <2>1. events' = events /\ value' = value /\ seq' = seq /\ at' = at
    BY <1>19 DEF Release
  <2> QED
    BY <1>c, <2>1
<1>20. CASE UNCHANGED vars
  BY <1>20, <1>c DEF vars
<1> QED
  BY <1>1, <1>2, <1>3, <1>4, <1>5, <1>6, <1>7, <1>8, <1>9, <1>10, <1>11, <1>12, <1>13,
     <1>14, <1>15, <1>16, <1>17, <1>18, <1>19, <1>20
     DEF Next, CallerSteps, ObjSteps, SignalSteps, Actors

-----------------------------------------------------------------------------
(* The invariant and what follows from it.                                 *)

\* The initial state satisfies the invariant.
LEMMA InitInv == Init => TimelineInv
<1> SUFFICES ASSUME Init PROVE TimelineInv
  OBVIOUS
<1>1. TypeOK
  BY InitType
<1>2. \A a \in Actors : at[a] = "idle"
  BY DEF Init
<1>3. \A f \in Fences : fence[f] = NoFence
  BY DEF Init
<1>4. Holders = {} /\ Used = {}
  BY <1>2, <1>3 DEF Holders, Used, NoFence
<1>5. Cardinality(Holders) = 0 /\ Cardinality(Used) = 0
  BY <1>4, FS_EmptySet
<1>6. TimelineRef
  BY <1>5 DEF TimelineRef, Init, Unit
<1>7. FenceRef(NoFence)
  BY DEF FenceRef, NoFence, Unit
<1>8. References
  BY <1>3, <1>6, <1>7, ReferencesParts
<1>9. FenceInv /\ NoLostFence
  BY <1>3 DEF FenceInv, NoLostFence, NoFence
<1>10. OneSignaller /\ IdInv
  BY <1>2 DEF Init, OneSignaller, IdInv
<1>11. ObjInv
  BY <1>2 DEF Init, ObjInv, Actors
<1>12. EventsAhead
  BY DEF Init, EventsAhead
<1> QED
  BY <1>1, <1>8, <1>9, <1>10, <1>11, <1>12 DEF TimelineInv

\* Every step keeps it.
LEMMA InvStep == TimelineInv /\ [Next]_vars => TimelineInv'
<1> SUFFICES ASSUME TimelineInv, [Next]_vars PROVE TimelineInv'
  OBVIOUS
<1>1. TypeOK'
  BY TypeStep DEF TimelineInv
<1>2. TimelineRef'
  BY TimelineRefStep
<1>3. FenceInv' /\ \A f \in Fences : FenceRef(fence'[f])
  BY FenceStep
<1>4. References'
  BY <1>2, <1>3 DEF References, TimelineRef, FenceRef, Used
<1>5. OneSignaller' /\ NoLostFence' /\ ObjInv' /\ IdInv' /\ EventsAhead'
  BY SignallerStep, LostStep, ObjStep, EventsStep
<1> QED
  BY <1>1, <1>3, <1>4, <1>5 DEF TimelineInv

\* The invariant holds in every state a timeline reaches.
THEOREM TimelineInvariant == Spec => []TimelineInv
BY InitInv, InvStep, PTL DEF Spec

\* Every variable keeps its type: kref_put is never called on a timeline or a
\* fence without references, nor is sig_refcount put once too often.
THEOREM TypeCorrect == Spec => []TypeOK
<1>1. TimelineInv => TypeOK
  BY DEF TimelineInv
<1> QED
  BY <1>1, TimelineInvariant, PTL

\* Nothing of a timeline or a fence is used after it is freed: the references
\* are exactly those of the ioctls, objects, fences and lists that use it.
THEOREM ReferencesHeld == Spec => []References
<1>1. TimelineInv => References
  BY DEF TimelineInv
<1> QED
  BY <1>1, TimelineInvariant, PTL

\* No fence is lost between the check of its value in kgsl_timeline_fence_alloc
\* and the list that kgsl_timeline_signal looks at.
THEOREM NoFenceLost == Spec => []NoLostFence
<1>1. TimelineInv => NoLostFence
  BY DEF TimelineInv
<1> QED
  BY <1>1, TimelineInvariant, PTL

\* The list of events is sorted, ahead of the value, and without an object that
\* has signaled.
THEOREM EventsAlwaysAhead == Spec => []EventsAhead
<1>1. TimelineInv => EventsAhead
  BY DEF TimelineInv
<1> QED
  BY <1>1, TimelineInvariant, PTL

-----------------------------------------------------------------------------
(* What a query returns.                                                   *)

\* QueryValue is the greatest of the value and of the sequence numbers of the
\* events that have passed.
QueryIsGreatest ==
    /\ QueryValue \in Nat /\ value <= QueryValue
    /\ \A i \in 1 .. Len(events) : passed[events[i]] => seq[events[i]] <= QueryValue
    /\ \/ QueryValue = value
       \/ \E i \in 1 .. Len(events) : passed[events[i]] /\ QueryValue = seq[events[i]]

\* It is, as the list is sorted and ahead of the value.
LEMMA QueryGreatest == TypeOK /\ EventsAhead => QueryIsGreatest
<1> SUFFICES ASSUME TypeOK, EventsAhead PROVE QueryIsGreatest
  OBVIOUS
<1> DEFINE hit == {i \in 1 .. Len(events) : passed[events[i]]}
<1>1. /\ Len(events) \in Nat /\ value \in Nat
      /\ \A i \in 1 .. Len(events) : seq[events[i]] \in Nat
  BY TimelineAssumption DEF TypeOK, Seqnos
<1>2. CASE hit = {}
  BY <1>1, <1>2 DEF QueryValue, QueryIsGreatest
<1>3. CASE hit # {}
  <2> DEFINE m == Max(hit)
  <2>1. hit \in SUBSET (0 .. Len(events))
    BY <1>1
  <2>2. m \in hit /\ \A y \in hit : y <= m
    BY <1>1, <1>3, <2>1, MaxGreatest
  <2>3. QueryValue = seq[events[m]]
    BY <1>3 DEF QueryValue
  <2> HIDE DEF m
  <2>4. \A i \in hit : i # m => m \in i + 1 .. Len(events)
    BY <1>1, <2>2
  <2>5. \A i \in hit : seq[events[i]] <= seq[events[m]]
    BY <1>1, <2>2, <2>4 DEF EventsAhead
  <2>6. seq[events[m]] > value
    BY <2>2 DEF EventsAhead
  <2> QED
    BY <1>1, <2>2, <2>3, <2>5, <2>6 DEF QueryIsGreatest
<1> QED
  BY <1>2, <1>3

\* A step keeps every passed event of the list, or raises the value to it; it
\* lowers no value.
LEMMA PassedKept ==
    ASSUME TimelineInv, Next, ref > 0
    PROVE  /\ value <= value'
           /\ \A i \in 1 .. Len(events) : passed[events[i]] =>
                 \/ seq[events[i]] <= value'
                 \/ \E j \in 1 .. Len(events') :
                       passed'[events'[j]] /\ seq'[events'[j]] = seq[events[i]]
<1> DEFINE Kept == /\ value <= value'
                   /\ \A i \in 1 .. Len(events) : passed[events[i]] =>
                         \/ seq[events[i]] <= value'
                         \/ \E j \in 1 .. Len(events') :
                               passed'[events'[j]] /\ seq'[events'[j]] = seq[events[i]]
<1> SUFFICES Kept
  OBVIOUS
<1>a. TypeOK /\ EventsAhead
  BY DEF TimelineInv
<1>b. /\ events \in Seq(Objs) /\ Len(events) \in Nat /\ value \in Nat
      /\ \A i \in 1 .. Len(events) : events[i] \in Objs /\ seq[events[i]] \in Nat
      /\ seq \in [Objs -> Seqnos] /\ passed \in [Objs -> BOOLEAN]
      /\ \A s \in Seqnos : s \in Nat
  BY <1>a, TimelineAssumption DEF TypeOK, Seqnos
<1>c. ASSUME events' = events, value' = value,
             \A i \in 1 .. Len(events) : /\ seq'[events[i]] = seq[events[i]]
                                         /\ passed[events[i]] => passed'[events[i]]
      PROVE  Kept
  BY <1>b, <1>c
<1>d. ASSUME NEW s \in Seqnos, events' = Trim(s), value' = s, s >= value,
             \A i \in 1 .. Len(Trim(s)) : /\ seq'[Trim(s)[i]] = seq[Trim(s)[i]]
                                          /\ passed'[Trim(s)[i]] = passed[Trim(s)[i]]
      PROVE  Kept
  <2>1. PICK d \in 0 .. Len(events) :
           /\ Len(Trim(s)) = Len(events) - d
           /\ \A i \in 1 .. d : seq[events[i]] <= s
           /\ \A i \in 1 .. Len(Trim(s)) : Trim(s)[i] = events[i + d]
    BY <1>a, TrimSuffix
  <2>2. ASSUME NEW i \in 1 .. Len(events), passed[events[i]], i > d
        PROVE  \E j \in 1 .. Len(events') :
                  passed'[events'[j]] /\ seq'[events'[j]] = seq[events[i]]
    <3>1. i - d \in 1 .. Len(Trim(s)) /\ (i - d) + d = i
      BY <1>b, <2>1, <2>2
    <3>2. Trim(s)[i - d] = events[i]
      BY <2>1, <3>1
    <3>3. passed'[events'[i - d]] /\ seq'[events'[i - d]] = seq[events[i]]
      BY <1>d, <2>2, <3>1, <3>2
    <3> QED
      BY <1>d, <3>1, <3>3
  <2>3. \A i \in 1 .. Len(events) : i > d \/ seq[events[i]] <= s
    BY <1>b, <2>1
  <2>4. value <= value'
    BY <1>b, <1>d
  <2> QED
    BY <1>d, <2>2, <2>3, <2>4
<1> HIDE DEF Kept
<1> USE <1>a, <1>b DEF timeline, object
<1>1. ASSUME NEW s \in Seqnos, Create(s) PROVE Kept
  BY <1>1 DEF Create
<1>2. ASSUME DestroyRemove PROVE Kept
  <2>1. events' = events /\ value' = value /\ seq' = seq /\ passed' = passed
    BY <1>2 DEF DestroyRemove
  <2> QED
    BY <1>c, <2>1
<1>3. ASSUME DestroySweep PROVE Kept
  <2>1. events' = events /\ value' = value /\ seq' = seq /\ passed' = passed
    BY <1>3 DEF DestroySweep
  <2> QED
    BY <1>c, <2>1
<1>4. ASSUME DestroySignal PROVE Kept
  <2>1. events' = events /\ value' = value /\ seq' = seq /\ passed' = passed
    BY <1>4 DEF DestroySignal
  <2> QED
    BY <1>c, <2>1
<1>5. ASSUME NEW c \in Callers, ById(c) PROVE Kept
  <2>1. events' = events /\ value' = value /\ seq' = seq /\ passed' = passed
    BY <1>5 DEF ById
  <2> QED
    BY <1>c, <2>1
<1>6. ASSUME NEW c \in Callers, GiveUp(c) PROVE Kept
  <2>1. events' = events /\ value' = value /\ seq' = seq /\ passed' = passed
    BY <1>6 DEF GiveUp
  <2> QED
    BY <1>c, <2>1
<1>7. ASSUME NEW c \in Callers, Query(c) PROVE Kept
  <2>1. events' = events /\ value' = value /\ seq' = seq /\ passed' = passed
    BY <1>7 DEF Query
  <2> QED
    BY <1>c, <2>1
<1>8. ASSUME NEW c \in Callers, NEW s \in Seqnos, IoctlSignal(c, s) PROVE Kept
  <2>1. seq' = seq /\ passed' = passed
    BY <1>8 DEF IoctlSignal
  <2>2. CASE s < value
    BY <1>8, <1>c, <2>1, <2>2 DEF IoctlSignal, SignalBegin
  <2>3. CASE ~(s < value)
    <3>1. events' = Trim(s) /\ value' = s /\ s >= value
      BY <1>8, <2>3 DEF IoctlSignal, SignalBegin
    <3> QED
      BY <1>d, <2>1, <3>1
  <2> QED
    BY <2>2, <2>3
<1>9. ASSUME NEW c \in Callers, NEW f \in Fences, NEW s \in Seqnos,
             FenceAlloc(c, f, s)
      PROVE Kept
  <2>1. events' = events /\ value' = value /\ seq' = seq /\ passed' = passed
    BY <1>9 DEF FenceAlloc
  <2> QED
    BY <1>c, <2>1
<1>10. ASSUME NEW a \in Actors, SignalTake(a) PROVE Kept
  <2>1. events' = events /\ value' = value /\ seq' = seq /\ passed' = passed
    BY <1>10 DEF SignalTake
  <2> QED
    BY <1>c, <2>1
<1>11. ASSUME NEW a \in Actors, SignalEnd(a) PROVE Kept
  <2>1. events' = events /\ value' = value /\ seq' = seq /\ passed' = passed
    BY <1>11 DEF SignalEnd
  <2> QED
    BY <1>c, <2>1
<1>12. ASSUME NEW o \in Objs, Pop(o) PROVE Kept
  <2>1. value' = value /\ seq' = seq /\ passed' = passed
    BY <1>12 DEF Pop
  <2>2. CASE value >= seq[o]
    BY <1>12, <1>c, <2>1, <2>2 DEF Pop
  <2>3. CASE ~(value >= seq[o])
    <3>1. events' = Insert(o)
      BY <1>12, <2>3 DEF Pop
    <3>2. PICK k \in 0 .. Len(events) :
             /\ Insert(o)[k + 1] = o
             /\ \A i \in 1 .. k : Insert(o)[i] = events[i] /\ seq[events[i]] <= seq[o]
             /\ \A i \in k + 1 .. Len(events) :
                   Insert(o)[i + 1] = events[i] /\ seq[events[i]] > seq[o]
      BY InsertBetween
    <3>3. Len(Insert(o)) = Len(events) + 1
      BY InsertBetween
    <3>4. ASSUME NEW i \in 1 .. Len(events)
          PROVE  \E j \in 1 .. Len(events') : events'[j] = events[i]
      <4>1. CASE i <= k
        <5>1. i \in 1 .. k /\ i \in 1 .. Len(events')
          BY <3>1, <3>3, <4>1
        <5> QED
          BY <3>1, <3>2, <5>1
      <4>2. CASE i > k
        <5>1. i \in k + 1 .. Len(events) /\ i + 1 \in 1 .. Len(events')
          BY <3>1, <3>3, <4>2
        <5> QED
          BY <3>1, <3>2, <5>1
      <4> QED
        BY <3>2, <4>1, <4>2
    <3> QED
      BY <2>1, <3>4 DEF Kept
  <2> QED
    BY <2>2, <2>3
<1>13. ASSUME NEW o \in Objs, ObjRetire(o) PROVE Kept
  <2>1. /\ seq[o] \in Seqnos
        /\ \A p \in Objs : p # o => seq'[p] = seq[p] /\ passed'[p] = passed[p]
    BY <1>13 DEF ObjRetire
  <2>2. CASE seq[o] < value
    <3>1. events' = events /\ value' = value
      BY <1>13, <2>2 DEF ObjRetire, SignalBegin
    <3>2. \A i \in 1 .. Len(events) : events[i] # o
      BY <2>2 DEF EventsAhead
    <3> QED
      BY <1>c, <2>1, <3>1, <3>2
  <2>3. CASE ~(seq[o] < value)
    <3> DEFINE s == seq[o]
    <3>1. events' = Trim(s) /\ value' = s /\ s >= value
      BY <1>13, <2>1, <2>3 DEF ObjRetire, SignalBegin
    <3>2. \A i \in 1 .. Len(Trim(s)) : Trim(s)[i] \in Objs /\ seq[Trim(s)[i]] > s
      BY <2>1, <3>1, TrimmedAhead
    <3>3. \A i \in 1 .. Len(Trim(s)) : Trim(s)[i] # o
      BY <2>1, <3>2
    <3>4. \A i \in 1 .. Len(Trim(s)) : /\ seq'[Trim(s)[i]] = seq[Trim(s)[i]]
                                       /\ passed'[Trim(s)[i]] = passed[Trim(s)[i]]
      BY <2>1, <3>2, <3>3
    <3>5. s \in Seqnos
      BY <2>1
    <3> HIDE DEF s
    <3> QED
      BY <1>d, <3>1, <3>4, <3>5
  <2> QED
    BY <2>2, <2>3
<1>14. ASSUME NEW o \in Objs, RetireCommands(o) PROVE Kept
  <2>1. events' = events /\ value' = value /\ seq' = seq /\ passed' = [passed EXCEPT ![o] = TRUE]
    BY <1>14 DEF RetireCommands
  <2>2. \A i \in 1 .. Len(events) : passed[events[i]] => passed'[events[i]]
    BY <2>1
  <2> QED
    BY <1>c, <2>1, <2>2
<1>15. ASSUME NEW o \in Objs, EventFires(o) PROVE Kept
  <2>1. events' = events /\ value' = value /\ seq' = seq /\ passed' = passed
    BY <1>15 DEF EventFires
  <2> QED
    BY <1>c, <2>1
<1>16. ASSUME NEW o \in Objs, NEW s \in Seqnos, NEW done \in BOOLEAN, AddTimeline(o, s,
   done) PROVE Kept
  <2>1. /\ events' = events /\ value' = value /\ seq' = [seq EXCEPT ![o] = s]
        /\ passed' = [passed EXCEPT ![o] = done] /\ at[o] = "idle"
    BY <1>16 DEF AddTimeline
  <2>2. \A i \in 1 .. Len(events) : events[i] # o
    BY <2>1 DEF EventsAhead
  <2>3. \A i \in 1 .. Len(events) : /\ seq'[events[i]] = seq[events[i]]
                                    /\ passed[events[i]] => passed'[events[i]]
    BY <2>1, <2>2
  <2> QED
    BY <1>c, <2>1, <2>3
<1>17. ASSUME NEW f \in Fences, Poll(f) PROVE Kept
  <2>1. events' = events /\ value' = value /\ seq' = seq /\ passed' = passed
    BY <1>17 DEF Poll
  <2> QED
    BY <1>c, <2>1
<1>18. ASSUME NEW f \in Fences, PutFence(f) PROVE Kept
  <2>1. events' = events /\ value' = value /\ seq' = seq /\ passed' = passed
    BY <1>18 DEF PutFence
  <2> QED
    BY <1>c, <2>1
<1>19. ASSUME NEW f \in Fences, Release(f) PROVE Kept
  <2>1. events' = events /\ value' = value /\ seq' = seq /\ passed' = passed
    BY <1>19 DEF Release
  <2> QED
    BY <1>c, <2>1
<1> QED
  BY <1>1, <1>2, <1>3, <1>4, <1>5, <1>6, <1>7, <1>8, <1>9, <1>10, <1>11, <1>12, <1>13,
     <1>14, <1>15, <1>16, <1>17, <1>18, <1>19
     DEF Next, CallerSteps, ObjSteps, SignalSteps, Actors

\* A query of a timeline never returns less than an earlier one, although it
\* looks ahead at events whose signal is still to come.
THEOREM QueriesMonotone == Spec => QueryMonotone
<1>1. QueryIsGreatest /\ QueryIsGreatest' /\ TimelineInv /\ TimelineInv' /\ [Next]_vars =>
          [ref > 0 => QueryValue' >= QueryValue]_vars
  <2> SUFFICES ASSUME QueryIsGreatest, QueryIsGreatest', TimelineInv, TimelineInv', Next, ref > 0
               PROVE  QueryValue' >= QueryValue
    OBVIOUS
  <2>1. /\ QueryValue \in Nat
        /\ \/ QueryValue = value
           \/ \E i \in 1 .. Len(events) : passed[events[i]] /\ QueryValue = seq[events[i]]
    BY DEF QueryIsGreatest
  <2>2. /\ QueryValue' \in Nat /\ value' <= QueryValue'
        /\ \A i \in 1 .. Len(events') : passed'[events'[i]] => seq'[events'[i]] <= QueryValue'
    BY DEF QueryIsGreatest
  <2>3. value \in Nat /\ value' \in Nat
    BY TimelineAssumption DEF TimelineInv, TypeOK, Seqnos
  <2>4. CASE QueryValue = value
    BY <2>1, <2>2, <2>3, <2>4, PassedKept
  <2>5. CASE QueryValue # value
    <3>1. PICK i \in 1 .. Len(events) : passed[events[i]] /\ QueryValue = seq[events[i]]
      BY <2>1, <2>5
    <3>2. \/ seq[events[i]] <= value'
          \/ \E j \in 1 .. Len(events') : passed'[events'[j]] /\ seq'[events'[j]] = seq[events[i]]
      BY <3>1, PassedKept
    <3> QED
      BY <2>1, <2>2, <2>3, <3>1, <3>2
  <2> QED
    BY <2>4, <2>5
<1>2. TimelineInv => QueryIsGreatest
  BY QueryGreatest DEF TimelineInv
<1> QED
  BY <1>1, <1>2, TimelineInvariant, PTL DEF Spec, QueryMonotone
=============================================================================

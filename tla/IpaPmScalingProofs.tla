------------------------- MODULE IpaPmScalingProofs -------------------------
(***************************************************************************)
(* Proofs about the client table and the clock scaling of the power        *)
(* manager, for any finite set of names, numbers of handles, pipes and     *)
(* exceptions, and any throughputs.                                        *)
(***************************************************************************)
EXTENDS IpaPmScaling, FiniteSetTheorems, WellFoundedInduction, TLAPS

\* The types; what the sums are does not matter.
BaseType ==
    /\ slot \in [Handles -> Names \union {NoName}]
    /\ stage \in [Handles -> {"new", "named", "done", "failed"}]
    /\ act \in [Handles -> BOOLEAN]
    /\ tput \in [Handles -> Tputs] /\ groupTput \in [Shared -> Tputs]
    /\ byPipe \in [Pipes -> Handles \union {NoHandle}]
    /\ pending \in [ExIdx -> Nat]
    /\ mask \in [ExIdx -> SUBSET Handles]
    /\ clkOn \in BOOLEAN

\* An active handle is one whose registration is over.
SlotInv == \A h \in Handles : act[h] => Ready(h)

\* The mask of an exception holds handles whose name is the list and that have
\* been through add_client_to_exception_list; "pending" counts what is missing.
MaskInv ==
    \A i \in ExIdx :
        /\ \A h \in mask[i] :
              Used(h) /\ stage[h] \in {"done", "failed"} /\ Matches(slot[h], i)
        /\ pending[i] + Cardinality(mask[i]) = Cardinality(Exceptions[i].clients)

PipeInv == \A p \in Pipes : byPipe[p] # NoHandle => Used(byPipe[p])

\* A client that votes keeps the clocks on.
ClockInv == Voted => clkOn

\* The inductive invariant of the table.
TableInv == BaseType /\ SlotInv /\ MaskInv /\ PipeInv /\ ClockInv

-----------------------------------------------------------------------------
(* Sets of handles.                                                        *)

\* Sets of handles are finite, and so are the lists of exceptions.
LEMMA Finite ==
    /\ IsFiniteSet(Handles) /\ Cardinality({}) = 0
    /\ \A S \in SUBSET Handles : IsFiniteSet(S) /\ Cardinality(S) \in Nat
    /\ \A i \in ExIdx : /\ IsFiniteSet(Exceptions[i].clients)
                        /\ Cardinality(Exceptions[i].clients) \in Nat \ {0}
                        /\ Exceptions[i].clients \subseteq Names
<1>1. IsFiniteSet(Handles)
  BY ScalingAssumption, FS_Interval DEF Handles
<1>2. \A S \in SUBSET Handles : IsFiniteSet(S)
  BY <1>1, FS_Subset
<1>3. ASSUME NEW i \in ExIdx
      PROVE  /\ IsFiniteSet(Exceptions[i].clients)
             /\ Cardinality(Exceptions[i].clients) \in Nat \ {0}
             /\ Exceptions[i].clients \subseteq Names
  <2>1. Exceptions[i].clients \in SUBSET Names /\ Exceptions[i].clients # {}
    BY ScalingAssumption
  <2>2. IsFiniteSet(Exceptions[i].clients)
    BY <2>1, ScalingAssumption, FS_Subset
  <2>3. Cardinality(Exceptions[i].clients) # 0
    BY <2>1, <2>2, FS_EmptySet
  <2> QED
    BY <2>1, <2>2, <2>3, FS_CardinalityType
<1> QED
  BY <1>1, <1>2, <1>3, FS_CardinalityType, FS_EmptySet

\* A handle that matches the list is the only one in the mask, and then nothing
\* is missing.
LEMMA MatchedMask ==
    ASSUME BaseType, MaskInv, NEW i \in ExIdx, NEW h \in mask[i]
    PROVE  /\ h \in Handles /\ Used(h) /\ slot[h] \in Names
           /\ Exceptions[i].clients = {slot[h]} /\ mask[i] = {h} /\ pending[i] = 0
<1>1. h \in Handles /\ Used(h) /\ Exceptions[i].clients = {slot[h]}
  BY DEF MaskInv, Matches, BaseType
<1>2. slot[h] \in Names
  BY <1>1 DEF BaseType, Used
<1>3. Cardinality(Exceptions[i].clients) = 1
  BY <1>1, FS_Singleton
<1>4. mask[i] \in SUBSET Handles
  BY DEF BaseType
<1>5. IsFiniteSet(mask[i]) /\ Cardinality(mask[i]) \in Nat
  BY <1>4, Finite
<1>6. Cardinality(mask[i]) # 0
  BY <1>5, FS_EmptySet
<1>7. pending[i] \in Nat /\ pending[i] + Cardinality(mask[i]) = Cardinality(Exceptions[i].clients)
  BY DEF BaseType, MaskInv
<1>8. Cardinality(mask[i]) = 1 /\ pending[i] = 0
  BY <1>3, <1>5, <1>6, <1>7
<1>9. \E x : mask[i] = {x}
  BY <1>5, <1>8, FS_Singleton
<1> QED
  BY <1>1, <1>2, <1>8, <1>9

\* Without such a handle something is missing.
LEMMA EmptyMask ==
    ASSUME BaseType, MaskInv, NEW i \in ExIdx, mask[i] = {}
    PROVE  pending[i] = Cardinality(Exceptions[i].clients) /\ pending[i] # 0
<1>1. /\ pending[i] \in Nat
      /\ pending[i] + Cardinality(mask[i]) = Cardinality(Exceptions[i].clients)
  BY DEF BaseType, MaskInv
<1> QED
  BY <1>1, Finite

-----------------------------------------------------------------------------
(* The table.                                                              *)

\* A step that touches neither the masks nor what they rest on keeps them.
LEMMA MaskKept ==
    ASSUME BaseType, MaskInv, pending' = pending, mask' = mask,
           \A i \in ExIdx : \A h \in mask[i] :
               slot'[h] = slot[h] /\ stage'[h] \in {"done", "failed"}
    PROVE  MaskInv'
BY DEF MaskInv, Used

\* The element taken by ipa_pm_register is in no mask.
LEMMA RegisterStep ==
    ASSUME TableInv, NEW n \in Names, NEW h \in Handles, RegisterAt(n, h)
    PROVE  TableInv'
<1>1. BaseType /\ SlotInv /\ MaskInv /\ PipeInv /\ ClockInv
  BY DEF TableInv
<1>2. /\ ~Used(h) /\ ~act[h]
      /\ slot' = [slot EXCEPT ![h] = n] /\ stage' = [stage EXCEPT ![h] = "new"]
      /\ UNCHANGED <<byPipe, pending, mask, act, tput, groupTput, clkOn>>
  BY <1>1 DEF RegisterAt, clock, demand, SlotInv, Ready
<1>3. /\ slot' \in [Handles -> Names \union {NoName}] /\ slot'[h] = n /\ n # NoName
      /\ stage' \in [Handles -> {"new", "named", "done", "failed"}]
      /\ \A g \in Handles : g # h => slot'[g] = slot[g] /\ stage'[g] = stage[g]
  BY <1>1, <1>2, ScalingAssumption DEF BaseType
<1>4. BaseType'
  BY <1>1, <1>2, <1>3 DEF BaseType
<1>5. SlotInv'
  BY <1>1, <1>2, <1>3 DEF SlotInv, Ready, Used
<1>6. MaskInv'
  <2>1. ASSUME NEW i \in ExIdx, NEW g \in mask[i]
        PROVE  slot'[g] = slot[g] /\ stage'[g] \in {"done", "failed"}
    <3>1. g \in Handles /\ Used(g) /\ stage[g] \in {"done", "failed"}
      BY <1>1 DEF MaskInv, BaseType
    <3> QED
      BY <1>2, <1>3, <3>1
  <2> QED
    BY <1>1, <1>2, <2>1, MaskKept
<1>7. PipeInv'
  BY <1>1, <1>2, <1>3 DEF PipeInv, Used, BaseType
<1>8. ClockInv'
  BY <1>1, <1>2, <1>3 DEF ClockInv, Voted, Used
<1> QED
  BY <1>4, <1>5, <1>6, <1>7, <1>8 DEF TableInv

\* Nor is it when it is given its name.
LEMMA NameStep ==
    ASSUME TableInv, NEW h \in Handles, RegisterName(h)
    PROVE  TableInv'
<1>1. BaseType /\ SlotInv /\ MaskInv /\ PipeInv /\ ClockInv
  BY DEF TableInv
<1>2. PICK l \in {"named", "failed"} : stage' = [stage EXCEPT ![h] = l]
  BY DEF RegisterName
<1>3. /\ Used(h) /\ stage[h] = "new" /\ ~act[h]
      /\ UNCHANGED <<slot, byPipe, pending, mask, act, tput, groupTput, clkOn>>
  BY <1>1 DEF RegisterName, clock, demand, SlotInv, Ready
<1>4. /\ stage' \in [Handles -> {"new", "named", "done", "failed"}]
      /\ \A g \in Handles : g # h => stage'[g] = stage[g]
  BY <1>1, <1>2 DEF BaseType
<1>5. BaseType'
  BY <1>1, <1>3, <1>4 DEF BaseType
<1>6. SlotInv'
  BY <1>1, <1>3, <1>4 DEF SlotInv, Ready, Used
<1>7. MaskInv'
  <2>1. ASSUME NEW i \in ExIdx, NEW g \in mask[i]
        PROVE  slot'[g] = slot[g] /\ stage'[g] \in {"done", "failed"}
    <3>1. g \in Handles /\ stage[g] \in {"done", "failed"}
      BY <1>1 DEF MaskInv, BaseType
    <3> QED
      BY <1>3, <1>4, <3>1
  <2> QED
    BY <1>1, <1>3, <2>1, MaskKept
<1> QED
  BY <1>1, <1>3, <1>5, <1>6, <1>7 DEF TableInv, PipeInv, ClockInv, Voted, Used

\* What add_client_to_exception_list does to one exception.
LEMMA ListedStep ==
    ASSUME NEW h \in Handles, RegisterExceptions(h), NEW i \in ExIdx,
           pending[i] \in Nat
    PROVE  \/ pending'[i] = pending[i] /\ mask'[i] = mask[i]
           \/ /\ Matches(slot[h], i) /\ pending[i] # 0
              /\ pending'[i] = pending[i] - 1 /\ mask'[i] = mask[i] \union {h}
<1> DEFINE listed == {j \in ExIdx : Matches(slot[h], j)}
           full   == {j \in listed : pending[j] = 0}
           added  == {j \in listed : \A m \in full : j < m}
<1>1. /\ pending' = [j \in ExIdx |-> IF j \in added THEN pending[j] - 1 ELSE pending[j]]
      /\ mask' = [j \in ExIdx |-> IF j \in added THEN mask[j] \union {h} ELSE mask[j]]
  BY DEF RegisterExceptions
<1>2. i \in added => i \in listed /\ i \notin full
  <2>1. i \in Nat
    BY ScalingAssumption
  <2> QED
    BY <2>1
<1> QED
  BY <1>1, <1>2

\* add_client_to_exception_list adds a handle where one is missing.
LEMMA ExceptionsStep ==
    ASSUME TableInv, NEW h \in Handles, RegisterExceptions(h)
    PROVE  TableInv'
<1>1. BaseType /\ SlotInv /\ MaskInv /\ PipeInv /\ ClockInv
  BY DEF TableInv
<1>2. PICK l \in {"done", "failed"} : stage' = [stage EXCEPT ![h] = l]
  BY DEF RegisterExceptions
<1>3. /\ Used(h) /\ stage[h] = "named" /\ ~act[h]
      /\ UNCHANGED <<slot, byPipe, act, tput, groupTput, clkOn>>
      /\ pending' = [i \in ExIdx |-> pending'[i]] /\ mask' = [i \in ExIdx |-> mask'[i]]
  BY <1>1 DEF RegisterExceptions, clock, demand, SlotInv, Ready
<1>4. /\ stage' \in [Handles -> {"new", "named", "done", "failed"}]
      /\ stage'[h] \in {"done", "failed"}
      /\ \A g \in Handles : g # h => stage'[g] = stage[g]
  BY <1>1, <1>2 DEF BaseType
<1>5. ASSUME NEW i \in ExIdx
      PROVE  /\ pending'[i] \in Nat /\ mask'[i] \in SUBSET Handles
             /\ \A g \in mask'[i] :
                   slot'[g] # NoName /\ stage'[g] \in {"done", "failed"} /\ Matches(slot'[g], i)
             /\ pending'[i] + Cardinality(mask'[i]) = Cardinality(Exceptions[i].clients)
  <2>1. /\ pending[i] \in Nat /\ mask[i] \in SUBSET Handles
        /\ pending[i] + Cardinality(mask[i]) = Cardinality(Exceptions[i].clients)
    BY <1>1 DEF BaseType, MaskInv
  <2>2. ASSUME NEW g \in mask[i]
        PROVE  /\ g # h /\ slot'[g] # NoName
               /\ stage'[g] \in {"done", "failed"} /\ Matches(slot'[g], i)
    <3>1. g \in Handles /\ Used(g) /\ stage[g] \in {"done", "failed"} /\ Matches(slot[g], i)
      BY <1>1, <2>1 DEF MaskInv
    <3>2. g # h
      BY <1>3, <3>1
    <3> QED
      BY <1>3, <1>4, <3>1, <3>2 DEF Used
  <2>3. CASE pending'[i] = pending[i] /\ mask'[i] = mask[i]
    BY <2>1, <2>2, <2>3
  <2>4. CASE /\ Matches(slot[h], i) /\ pending[i] # 0
             /\ pending'[i] = pending[i] - 1 /\ mask'[i] = mask[i] \union {h}
    <3>1. h \notin mask[i]
      BY <2>2
    <3>2. IsFiniteSet(mask[i]) /\ Cardinality(mask[i]) \in Nat
      BY <2>1, Finite
    <3>3. Cardinality(mask[i] \union {h}) = Cardinality(mask[i]) + 1
      BY <3>1, <3>2, FS_AddElement
    <3>4. Matches(slot'[h], i) /\ slot'[h] # NoName
      BY <1>3, <2>4 DEF Used
    <3>5. pending'[i] \in Nat /\ pending'[i] + Cardinality(mask'[i]) = Cardinality(Exceptions[i].clients)
      BY <2>1, <2>4, <3>2, <3>3
    <3> QED
      BY <1>4, <2>1, <2>2, <2>4, <3>4, <3>5
  <2> QED
    BY <2>1, <2>3, <2>4, ListedStep
<1>6. BaseType'
  BY <1>1, <1>3, <1>4, <1>5 DEF BaseType
<1>7. SlotInv'
  BY <1>1, <1>3, <1>4 DEF SlotInv, Ready, Used
<1>8. MaskInv'
  BY <1>5 DEF MaskInv, Used
<1> QED
  BY <1>1, <1>3, <1>6, <1>7, <1>8 DEF TableInv, PipeInv, ClockInv, Voted, Used

\* ipa_pm_deregister keeps the table exact.
LEMMA DeregisterStep ==
    ASSUME TableInv, NEW h \in Handles, Deregister(h)
    PROVE  TableInv'
<1>1. BaseType /\ SlotInv /\ MaskInv /\ PipeInv /\ ClockInv
  BY DEF TableInv
<1>2. /\ Used(h) /\ ~act[h]
      /\ slot' = [slot EXCEPT ![h] = NoName] /\ stage' = [stage EXCEPT ![h] = "done"]
      /\ byPipe' = [p \in Pipes |-> IF byPipe[p] = h THEN NoHandle ELSE byPipe[p]]
      /\ pending' = [i \in ExIdx |-> IF h \in mask[i] THEN pending[i] + 1 ELSE pending[i]]
      /\ mask' = [i \in ExIdx |-> mask[i] \ {h}]
      /\ tput' = [tput EXCEPT ![h] = 0]
      /\ UNCHANGED <<act, groupTput, clkOn>>
  BY DEF Deregister, clock
<1>3. /\ slot' \in [Handles -> Names \union {NoName}] /\ slot'[h] = NoName
      /\ stage' \in [Handles -> {"new", "named", "done", "failed"}]
      /\ tput' \in [Handles -> Tputs]
      /\ \A g \in Handles : g # h => slot'[g] = slot[g] /\ stage'[g] = stage[g]
  BY <1>1, <1>2, ScalingAssumption DEF BaseType, Tputs
<1>4. ASSUME NEW i \in ExIdx
      PROVE  /\ \A g \in mask'[i] :
                   slot'[g] # NoName /\ stage'[g] \in {"done", "failed"} /\ Matches(slot'[g], i)
             /\ pending'[i] + Cardinality(mask'[i]) = Cardinality(Exceptions[i].clients)
             /\ pending'[i] \in Nat /\ mask'[i] \in SUBSET Handles
  <2>0. mask[i] \in SUBSET Handles
    BY <1>1 DEF BaseType
  <2>1. ASSUME NEW g \in mask'[i]
        PROVE  slot'[g] # NoName /\ stage'[g] \in {"done", "failed"} /\ Matches(slot'[g], i)
    <3>1. g \in mask[i] /\ g \in Handles /\ g # h
      BY <1>2, <2>0
    <3>2. Used(g) /\ stage[g] \in {"done", "failed"} /\ Matches(slot[g], i)
      BY <1>1, <3>1 DEF MaskInv
    <3> QED
      BY <1>3, <3>1, <3>2 DEF Used
  <2>2. CASE h \in mask[i]
    <3>1. mask[i] = {h} /\ pending[i] = 0 /\ Exceptions[i].clients = {slot[h]}
      BY <1>1, <2>2, MatchedMask
    <3>2. Cardinality(Exceptions[i].clients) = 1
      BY <3>1, FS_Singleton
    <3>3. mask'[i] = {} /\ pending'[i] = 1
      BY <1>2, <2>2, <3>1
    <3>4. Cardinality(mask'[i]) = 0
      BY <3>3, Finite
    <3> QED
      BY <2>1, <3>2, <3>3, <3>4
  <2>3. CASE h \notin mask[i]
    <3>1. mask'[i] = mask[i] /\ pending'[i] = pending[i]
      BY <1>2, <2>3
    <3> QED
      BY <1>1, <2>1, <3>1 DEF MaskInv, BaseType
  <2> QED
    BY <2>2, <2>3
<1>5. BaseType'
  <2>1. mask' \in [ExIdx -> SUBSET Handles]
    BY <1>2, <1>4
  <2>2. pending' \in [ExIdx -> Nat]
    <3>1. pending' = [i \in ExIdx |-> pending'[i]]
      BY <1>2
    <3> QED
      BY <1>4, <3>1
  <2>3. byPipe' \in [Pipes -> Handles \union {NoHandle}]
    BY <1>1, <1>2 DEF BaseType
  <2> QED
    BY <1>1, <1>2, <1>3, <2>1, <2>2, <2>3 DEF BaseType
<1>6. SlotInv'
  BY <1>1, <1>2, <1>3 DEF SlotInv, Ready, Used
<1>7. MaskInv'
  BY <1>4 DEF MaskInv, Used
<1>8. PipeInv'
  BY <1>1, <1>2, <1>3 DEF PipeInv, Used, BaseType
<1>9. ClockInv'
  BY <1>1, <1>2, <1>3 DEF ClockInv, Voted, Used
<1> QED
  BY <1>5, <1>6, <1>7, <1>8, <1>9 DEF TableInv

\* What the other steps leave alone.
LEMMA TableKept ==
    ASSUME TableInv, slot' = slot, stage' = stage, pending' = pending, mask' = mask,
           BaseType', PipeInv', \A h \in Handles : act'[h] => Ready(h), ClockInv'
    PROVE  TableInv'
<1>1. SlotInv'
  BY DEF TableInv, SlotInv, Used, Ready
<1>2. MaskInv'
  BY DEF TableInv, MaskInv, Used
<1> QED
  BY <1>1, <1>2 DEF TableInv

\* A scaling changes no client and no entry of the table.
LEMMA ScaleKeeps ==
    ASSUME NEW k \in Contexts, Scale(k)
    PROVE  UNCHANGED <<slot, stage, byPipe, pending, mask, act, tput, groupTput, clkOn>>
BY DEF Scale, ScaleTest, ScaleSum, ScalePlan, ScaleVote, ScaleArg, ScaleSet, table, demand, clock

\* Every step keeps the table exact.
LEMMA TableStep ==
    ASSUME TableInv, [Next]_vars
    PROVE  TableInv'
<1>0. BaseType /\ SlotInv /\ MaskInv /\ PipeInv /\ ClockInv
  BY DEF TableInv
<1>1. ASSUME NEW n \in Names, NEW h \in Handles, RegisterAt(n, h) PROVE TableInv'
  BY <1>1, RegisterStep
<1>2. ASSUME NEW h \in Handles, Deregister(h) PROVE TableInv'
  BY <1>2, DeregisterStep
<1>2a. ASSUME NEW h \in Handles, RegisterName(h) PROVE TableInv'
  BY <1>2a, NameStep
<1>2b. ASSUME NEW h \in Handles, RegisterExceptions(h) PROVE TableInv'
  BY <1>2b, ExceptionsStep
<1>3. ASSUME NEW h \in Handles, NEW p \in Pipes, AssociatePipe(h, p) PROVE TableInv'
  <2>1. /\ byPipe' = [byPipe EXCEPT ![p] = h] /\ Used(h)
        /\ UNCHANGED <<slot, stage, pending, mask, act, tput, groupTput, clkOn>>
    BY <1>3 DEF AssociatePipe, Ready, demand, clock
  <2>2. BaseType'
    BY <1>0, <2>1 DEF BaseType
  <2>3. PipeInv' /\ ClockInv'
    BY <1>0, <2>1 DEF PipeInv, ClockInv, Voted, Used, BaseType
  <2> QED
    BY <1>0, <2>1, <2>2, <2>3, TableKept DEF SlotInv
<1>4. ASSUME NEW k \in Contexts, NEW h \in Handles, NEW v \in Tputs, SetThroughput(k, h, v)
      PROVE  TableInv'
  <2>1. UNCHANGED <<slot, stage, byPipe, pending, mask, act, clkOn>>
    BY <1>4 DEF SetThroughput, table, clock
  <2>2. tput' \in [Handles -> Tputs]
    BY <1>0, <1>4 DEF SetThroughput, BaseType
  <2>3. groupTput' \in [Shared -> Tputs]
    BY <1>0, <1>4 DEF SetThroughput, BaseType
  <2>4. BaseType'
    BY <1>0, <2>1, <2>2, <2>3 DEF BaseType
  <2>5. PipeInv' /\ ClockInv'
    BY <1>0, <2>1 DEF PipeInv, ClockInv, Voted, Used
  <2> QED
    BY <1>0, <2>1, <2>4, <2>5, TableKept DEF SlotInv
<1>5. ASSUME NEW k \in Contexts, NEW h \in Handles, Activate(k, h) PROVE TableInv'
  <2>1. /\ UNCHANGED <<slot, stage, byPipe, pending, mask, tput, groupTput>> /\ Ready(h)
        /\ act' = [act EXCEPT ![h] = TRUE] /\ clkOn' = (clkOn \/ slot[h] \notin SkipVote)
    BY <1>5 DEF Activate, table
  <2>2. act' \in [Handles -> BOOLEAN] /\ clkOn' \in BOOLEAN
    BY <1>0, <2>1 DEF BaseType
  <2>3. BaseType'
    BY <1>0, <2>1, <2>2 DEF BaseType
  <2>4. PipeInv'
    BY <1>0, <2>1 DEF PipeInv, Used
  <2>5. \A g \in Handles : act'[g] => act[g] \/ g = h
    BY <1>0, <2>1 DEF BaseType
  <2>6. ClockInv'
    BY <1>0, <2>1, <2>5 DEF ClockInv, Voted, Used, BaseType
  <2>7. \A g \in Handles : act'[g] => Ready(g)
    BY <1>0, <2>1, <2>5 DEF SlotInv
  <2> QED
    BY <2>1, <2>3, <2>4, <2>6, <2>7, TableKept
<1>6. ASSUME NEW k \in Contexts, NEW h \in Handles, Deactivate(k, h) PROVE TableInv'
  <2>1. /\ UNCHANGED <<slot, stage, byPipe, pending, mask, tput, groupTput, clkOn>>
        /\ act' = [act EXCEPT ![h] = FALSE]
    BY <1>6 DEF Deactivate, table, clock
  <2>2. BaseType'
    BY <1>0, <2>1 DEF BaseType
  <2>3. PipeInv'
    BY <1>0, <2>1 DEF PipeInv, Used
  <2>4. \A g \in Handles : act'[g] => act[g]
    BY <1>0, <2>1 DEF BaseType
  <2>5. ClockInv'
    BY <1>0, <2>1, <2>4 DEF ClockInv, Voted, Used
  <2>6. \A g \in Handles : act'[g] => Ready(g)
    BY <1>0, <2>4 DEF SlotInv
  <2> QED
    BY <2>1, <2>2, <2>3, <2>5, <2>6, TableKept
<1>7. ASSUME NEW k \in Contexts, Scale(k) PROVE TableInv'
  <2>1. UNCHANGED <<slot, stage, byPipe, pending, mask, act, tput, groupTput, clkOn>>
    BY <1>7, ScaleKeeps
  <2>2. BaseType' /\ PipeInv' /\ ClockInv'
    BY <1>0, <2>1 DEF BaseType, PipeInv, ClockInv, Voted, Used
  <2> QED
    BY <1>0, <2>1, <2>2, TableKept DEF SlotInv
<1>8. ASSUME GateClocks \/ OpenClocks PROVE TableInv'
  <2>1. /\ UNCHANGED <<slot, stage, byPipe, pending, mask, act, tput, groupTput>>
        /\ clkOn' \in BOOLEAN /\ (clkOn' \/ ~Voted)
    BY <1>8 DEF GateClocks, OpenClocks, table, demand
  <2>2. BaseType' /\ PipeInv' /\ ClockInv'
    BY <1>0, <2>1 DEF BaseType, PipeInv, ClockInv, Voted, Used
  <2> QED
    BY <1>0, <2>1, <2>2, TableKept DEF SlotInv
<1>9. CASE UNCHANGED vars
  <2>1. UNCHANGED <<slot, stage, byPipe, pending, mask, act, tput, groupTput, clkOn>>
    BY <1>9 DEF vars, table, demand, clock
  <2>2. BaseType' /\ PipeInv' /\ ClockInv'
    BY <1>0, <2>1 DEF BaseType, PipeInv, ClockInv, Voted, Used
  <2> QED
    BY <1>0, <2>1, <2>2, TableKept DEF SlotInv
<1> QED
  BY <1>1, <1>2, <1>2a, <1>2b, <1>3, <1>4, <1>5, <1>6, <1>7, <1>8, <1>9 DEF Next

\* The empty table is exact.
LEMMA TableInit == Init => TableInv
<1> SUFFICES ASSUME Init PROVE TableInv
  OBVIOUS
<1>1. /\ \A h \in Handles : ~Used(h) /\ ~act[h]
      /\ \A i \in ExIdx : mask[i] = {} /\ pending[i] = Cardinality(Exceptions[i].clients)
      /\ \A p \in Pipes : byPipe[p] = NoHandle
  BY DEF Init, Used
<1>2. BaseType
  <2>1. pending \in [ExIdx -> Nat]
    BY Finite DEF Init
  <2>2. 0 \in Tputs
    BY ScalingAssumption DEF Tputs
  <2> QED
    BY <2>1, <2>2 DEF Init, BaseType
<1>3. MaskInv
  <2> SUFFICES ASSUME NEW i \in ExIdx
               PROVE  /\ mask[i] = {}
                      /\ pending[i] + Cardinality(mask[i]) = Cardinality(Exceptions[i].clients)
    BY DEF MaskInv
  <2>1. mask[i] = {} /\ pending[i] = Cardinality(Exceptions[i].clients)
    BY <1>1
  <2>2. pending[i] + Cardinality(mask[i]) = Cardinality(Exceptions[i].clients)
    BY <2>1, Finite
  <2> QED
    BY <1>1, <2>1, <2>2
<1> QED
  BY <1>1, <1>2, <1>3 DEF TableInv, SlotInv, PipeInv, ClockInv, Voted

\* The invariant holds in every state the table reaches.
THEOREM TableInvariant == Spec => []TableInv
BY TableInit, TableStep, PTL DEF Spec

\* What refers to clients by handle stays exact however names are registered,
\* deregistered and their handles reused: the exceptions of ipa_pm.c:543-604 and
\* the pipe array.
THEOREM TableAlwaysExact == Spec => []TableExact
<1>1. TableInv => TableExact
  <2> SUFFICES ASSUME TableInv PROVE TableExact
    OBVIOUS
  <2>1. BaseType /\ SlotInv /\ MaskInv /\ PipeInv
    BY DEF TableInv
  <2>2. \A i \in ExIdx : \A h \in mask[i] : slot[h] \in Exceptions[i].clients
    BY <2>1, MatchedMask
  <2> QED
    BY <2>1, <2>2 DEF TableExact, MaskInv, PipeInv
<1> QED
  BY <1>1, TableInvariant, PTL

-----------------------------------------------------------------------------
(* The exceptions.                                                         *)

\* A set of natural numbers has a least element.
LEMMA LeastNat ==
    ASSUME NEW S \in SUBSET Nat, S # {}
    PROVE  \E x \in S : \A y \in S : x <= y
<1>1. PICK x \in S : \A y \in S : <<y, x>> \notin OpToRel(<, Nat)
  BY NatLessThanWellFounded, WFMin, Zenon
<1>2. \A y \in S : ~(y < x)
  BY <1>1 DEF OpToRel
<1> QED
  BY <1>2

\* The loop of set_current_threshold stops at the first exception that passes.
LEMMA FirstPassing ==
    ASSUME NEW S \in SUBSET ExIdx, NEW i \in S
    PROVE  FirstOf(S) \in S /\ FirstOf(S) \in 1 .. i
<1>1. S \in SUBSET Nat /\ S # {} /\ i \in Nat /\ \A j \in S : j >= 1
  BY ScalingAssumption
<1>2. \E j \in S : \A m \in S : j <= m
  BY <1>1, LeastNat
<1>3. FirstOf(S) \in S /\ \A m \in S : FirstOf(S) <= m
  BY <1>1, <1>2 DEF FirstOf
<1>4. FirstOf(S) \in Nat /\ FirstOf(S) >= 1 /\ FirstOf(S) <= i
  BY <1>1, <1>3
<1> QED
  BY <1>1, <1>3, <1>4

\* The thresholds of an exception are in use only while every client of its
\* list is active, for lists of any length.
THEOREM ExceptionsSound == Spec => []ExceptionSound
<1>1. TableInv => ExceptionSound
  <2> SUFFICES ASSUME TableInv, NEW i \in ExIdx, CurrentThreshold = i,
                      NEW n \in Exceptions[i].clients
               PROVE  Active(n)
    BY DEF ExceptionSound
  <2>1. BaseType /\ SlotInv /\ MaskInv
    BY DEF TableInv
  <2> DEFINE passing == {j \in ExIdx : Applies(j)}
  <2>2. i # 0
    BY ScalingAssumption
  <2>3. passing # {}
    BY <2>2 DEF CurrentThreshold, FirstOf
  <2>4. PICK j \in passing : TRUE
    BY <2>3
  <2>5. passing \in SUBSET ExIdx
    OBVIOUS
  <2>6. FirstOf(passing) \in passing
    BY <2>4, <2>5, FirstPassing
  <2>7. Applies(i)
    BY <2>6 DEF CurrentThreshold
  <2>8. mask[i] # {}
    BY <2>1, <2>7, EmptyMask DEF Applies
  <2>9. PICK h \in mask[i] : TRUE
    BY <2>8
  <2>10. h \in Handles /\ Exceptions[i].clients = {slot[h]}
    BY <2>1, <2>9, MatchedMask
  <2> QED
    BY <2>7, <2>9, <2>10 DEF Applies, Active
<1> QED
  BY <1>1, TableInvariant, PTL

-----------------------------------------------------------------------------
(* The vote.                                                               *)

\* The aggregate is that of the same throughputs as long as the active clients
\* and their throughputs are the same.
LEMMA SumKept ==
    ASSUME \A h \in Handles : act'[h] = act[h],
           \A h \in Handles : act[h] => slot'[h] = slot[h] /\ tput'[h] = tput[h],
           groupTput' = groupTput
    PROVE  CalculateThroughput' = CalculateThroughput
<1>1. \A h \in Handles : \A g \in 1 .. h - 1 : g \in Handles
  BY ScalingAssumption DEF Handles
<1>2. \A h \in Handles : Counts(h)' = Counts(h)
  BY <1>1 DEF Counts, IsDefault
<1>3. \A h \in Handles : Counts(h) => Tput(h)' = Tput(h)
  BY DEF Counts, Tput, IsDefault
<1>4. Asked' = Asked
  BY <1>2, <1>3 DEF Asked
<1> QED
  BY <1>4 DEF CalculateThroughput, ClientTputs

\* The thresholds are the same as long as the same exceptions pass.
LEMMA ThresholdKept ==
    ASSUME \A i \in ExIdx : Applies(i)' <=> Applies(i)
    PROVE  CurrentThreshold' = CurrentThreshold
BY DEF CurrentThreshold

\* Registrations and deregistrations change neither: they concern inactive
\* clients, and an exception they complete or break did not pass and does not.
LEMMA DemandKept ==
    ASSUME TableInv,
           \/ \E n \in Names, h \in Handles : RegisterAt(n, h)
           \/ \E h \in Handles : \/ RegisterName(h) \/ RegisterExceptions(h) \/ Deregister(h)
                                 \/ \E p \in Pipes : AssociatePipe(h, p)
    PROVE  /\ CalculateThroughput' = CalculateThroughput
           /\ CurrentThreshold' = CurrentThreshold
           /\ Voted' = Voted /\ UNCHANGED <<threshold, curVote, plan, ctx, old, late>>
<1>0. BaseType /\ SlotInv /\ MaskInv
  BY DEF TableInv
<1> DEFINE Goal == /\ CalculateThroughput' = CalculateThroughput
                   /\ CurrentThreshold' = CurrentThreshold
                   /\ Voted' = Voted /\ UNCHANGED <<threshold, curVote, plan, ctx, old, late>>
<1>1. ASSUME NEW n \in Names, NEW h \in Handles, RegisterAt(n, h) PROVE Goal
  <2>1. /\ ~act[h] /\ slot' = [slot EXCEPT ![h] = n]
        /\ UNCHANGED <<pending, mask, act, tput, groupTput, threshold, curVote, plan, ctx, old, late>>
    BY <1>0, <1>1 DEF RegisterAt, clock, demand, history, SlotInv, Ready
  <2>2. \A g \in Handles : act[g] => slot'[g] = slot[g] /\ tput'[g] = tput[g]
    BY <1>0, <2>1 DEF BaseType
  <2>3. CalculateThroughput' = CalculateThroughput
    BY <2>1, <2>2, SumKept
  <2>4. \A i \in ExIdx : Applies(i)' <=> Applies(i)
    BY <2>1 DEF Applies
  <2>5. Voted' = Voted
    BY <1>0, <2>1, <2>2 DEF Voted, Used, SlotInv, Ready
  <2> QED
    BY <2>1, <2>3, <2>4, <2>5, ThresholdKept
<1>2. ASSUME NEW h \in Handles, Deregister(h) PROVE Goal
  <2>1. /\ ~act[h] /\ slot' = [slot EXCEPT ![h] = NoName] /\ tput' = [tput EXCEPT ![h] = 0]
        /\ pending' = [i \in ExIdx |-> IF h \in mask[i] THEN pending[i] + 1 ELSE pending[i]]
        /\ mask' = [i \in ExIdx |-> mask[i] \ {h}]
        /\ UNCHANGED <<act, groupTput, threshold, curVote, plan, ctx, old, late>>
    BY <1>2 DEF Deregister, clock, history
  <2>2. \A g \in Handles : act[g] => slot'[g] = slot[g] /\ tput'[g] = tput[g]
    BY <1>0, <2>1 DEF BaseType
  <2>3. CalculateThroughput' = CalculateThroughput
    BY <2>1, <2>2, SumKept
  <2>4. ASSUME NEW i \in ExIdx PROVE Applies(i)' <=> Applies(i)
    <3>1. CASE h \in mask[i]
      <4>1. ~Applies(i)
        BY <2>1, <3>1 DEF Applies
      <4>2. pending[i] \in Nat /\ pending'[i] = pending[i] + 1
        BY <1>0, <2>1, <3>1 DEF BaseType
      <4>3. pending'[i] # 0
        BY <4>2
      <4>4. ~Applies(i)'
        BY <4>3 DEF Applies
      <4> QED
        BY <4>1, <4>4
    <3>2. CASE h \notin mask[i]
      <4>1. mask'[i] = mask[i] /\ pending'[i] = pending[i] /\ act' = act
        BY <2>1, <3>2
      <4> QED
        BY <4>1 DEF Applies
    <3> QED
      BY <3>1, <3>2
  <2>5. Voted' = Voted
    BY <1>0, <2>1, <2>2 DEF Voted, Used, SlotInv, Ready
  <2> QED
    BY <2>1, <2>3, <2>4, <2>5, ThresholdKept
<1>3. ASSUME NEW h \in Handles,
             RegisterName(h) \/ \E p \in Pipes : AssociatePipe(h, p)
      PROVE  Goal
  <2>1. UNCHANGED <<slot, pending, mask, act, tput, groupTput, threshold, curVote, plan, ctx, old, late>>
    BY <1>3 DEF RegisterName, AssociatePipe, clock, demand, history
  <2>2. CalculateThroughput' = CalculateThroughput
    BY <2>1, SumKept
  <2>3. \A i \in ExIdx : Applies(i)' <=> Applies(i)
    BY <2>1 DEF Applies
  <2> QED
    BY <2>1, <2>2, <2>3, ThresholdKept DEF Voted, Used
<1>4. ASSUME NEW h \in Handles, RegisterExceptions(h) PROVE Goal
  <2>1. /\ ~act[h]
        /\ UNCHANGED <<slot, act, tput, groupTput, threshold, curVote, plan, ctx, old, late>>
    BY <1>0, <1>4 DEF RegisterExceptions, clock, demand, history, SlotInv, Ready
  <2>2. CalculateThroughput' = CalculateThroughput
    BY <2>1, SumKept
  <2>3. ASSUME NEW i \in ExIdx PROVE Applies(i)' <=> Applies(i)
    <3>1. pending[i] \in Nat
      BY <1>0 DEF BaseType
    <3>2. CASE pending'[i] = pending[i] /\ mask'[i] = mask[i]
      BY <2>1, <3>2 DEF Applies
    <3>3. CASE pending[i] # 0 /\ mask'[i] = mask[i] \union {h}
      BY <2>1, <3>3 DEF Applies
    <3> QED
      BY <1>4, <3>1, <3>2, <3>3, ListedStep
  <2> QED
    BY <2>1, <2>2, <2>3, ThresholdKept DEF Voted, Used
<1> QED
  BY <1>1, <1>2, <1>3, <1>4

\* Every plan is numbered from 1 on.
LEMMA PlanPositive ==
    ASSUME NEW sum, NEW i \in ExIdx \union {0}
    PROVE  PlanOf(sum, i) # 0
<1>1. Threshold(i) \in Seq(Nat)
  BY ScalingAssumption DEF Threshold
<1>2. DOMAIN Threshold(i) = 1 .. Len(Threshold(i)) /\ Len(Threshold(i)) \in Nat
  BY <1>1
<1>3. IsFiniteSet(DOMAIN Threshold(i))
  BY <1>2, FS_Interval
<1> DEFINE reached == {j \in DOMAIN Threshold(i) : sum >= Threshold(i)[j]}
<1>4. IsFiniteSet(reached)
  BY <1>3, FS_Subset
<1>5. Cardinality(reached) \in Nat
  BY <1>4, FS_CardinalityType
<1>6. PlanOf(sum, i) = 1 + Cardinality(reached)
  BY DEF PlanOf
<1> QED
  BY <1>5, <1>6

\* The thresholds to use are those of an exception, or the default.
LEMMA ThresholdType == CurrentThreshold \in ExIdx \union {0}
<1> DEFINE passing == {j \in ExIdx : Applies(j)}
<1>1. CASE passing = {}
  BY <1>1 DEF CurrentThreshold, FirstOf
<1>2. CASE passing # {}
  <2>1. PICK j \in passing : TRUE
    BY <1>2
  <2>2. passing \in SUBSET ExIdx
    OBVIOUS
  <2>3. FirstOf(passing) \in passing
    BY <2>1, <2>2, FirstPassing
  <2> QED
    BY <2>3 DEF CurrentThreshold
<1> QED
  BY <1>1, <1>2

\* The contexts are records.
CtxType ==
    /\ ctx = [k \in Contexts |-> ctx[k]]
    /\ \A k \in Contexts : ctx[k] = [at |-> ctx[k].at, tput |-> ctx[k].tput, idx |-> ctx[k].idx]

\* k is at one of pcs and nobody has overtaken it.
Fresh(k, pcs) == ctx[k].at \in pcs /\ k \notin old

Wanted == PlanOf(CalculateThroughput, CurrentThreshold)

\* From the sum to the vote: once no context has yet to take its sum, the newest
\* sum is that of the clients active now, the thresholds are theirs, and the plan
\* they call for is on its way or voted for, unless an older one is.
SumInv ==
    Voted /\ (\A k \in Contexts : ctx[k].at \notin {"test", "sum"}) =>
        /\ threshold = CurrentThreshold
        /\ \A k \in Contexts : Fresh(k, {"plan"}) => ctx[k].tput = CalculateThroughput
        /\ \A k \in Contexts : Fresh(k, {"vote"}) => ctx[k].idx = Wanted
        /\ \/ \E k \in Contexts : Fresh(k, {"plan", "vote"})
           \/ "vote" \in late \/ curVote = Wanted

\* From the vote to the clocks: the plan voted for is on its way to the clocks or
\* set, unless an older one is.
SetInv ==
    curVote # 0 =>
        /\ \A k \in Contexts : Fresh(k, {"arg", "set"}) => ctx[k].idx = curVote
        /\ \/ \E k \in Contexts : Fresh(k, {"arg", "set"})
           \/ "set" \in late \/ plan = curVote

VoteInv == CtxType /\ SumInv /\ SetInv

\* A demand that is the same, and a scaling that does nothing, keep all of it.
LEMMA VoteKept ==
    ASSUME VoteInv, CalculateThroughput' = CalculateThroughput,
           CurrentThreshold' = CurrentThreshold, Voted' => Voted,
           UNCHANGED <<threshold, curVote, plan, ctx, old, late>>
    PROVE  VoteInv'
<1>1. CtxType' /\ SetInv'
  BY DEF VoteInv, CtxType, SetInv, Fresh
<1>2. SumInv'
  BY DEF VoteInv, SumInv, Fresh, Wanted
<1> QED
  BY <1>1, <1>2 DEF VoteInv

\* What a step of a scaling does to the contexts.
LEMMA Moved ==
    ASSUME CtxType, NEW k \in Contexts, NEW l, NEW sum, NEW idx, Goto(k, At(l, sum, idx))
    PROVE  /\ ctx'[k] = [at |-> l, tput |-> sum, idx |-> idx]
           /\ ctx'[k].at = l /\ ctx'[k].tput = sum /\ ctx'[k].idx = idx
           /\ \A j \in Contexts : j # k => ctx'[j] = ctx[j]
           /\ CtxType'
<1>1. ctx' = [ctx EXCEPT ![k] = [at |-> l, tput |-> sum, idx |-> idx]]
  BY DEF Goto, At
<1>2. /\ ctx'[k] = [at |-> l, tput |-> sum, idx |-> idx]
      /\ \A j \in Contexts : j # k => ctx'[j] = ctx[j]
      /\ ctx' = [j \in Contexts |-> ctx'[j]]
  BY <1>1 DEF CtxType
<1>3. ctx'[k].at = l /\ ctx'[k].tput = sum /\ ctx'[k].idx = idx
  BY <1>2
<1>4. CtxType'
  BY <1>2, <1>3 DEF CtxType
<1> QED
  BY <1>2, <1>3, <1>4

\* A context that was idle and has to scale.
LEMMA VoteStart ==
    ASSUME VoteInv, NEW k \in Contexts, ctx[k].at = "idle", StartScaling(k),
           UNCHANGED <<curVote, plan, late>>
    PROVE  VoteInv'
<1>1. CtxType /\ SetInv
  BY DEF VoteInv
<1>2. /\ ctx'[k].at = "test" /\ CtxType'
      /\ \A j \in Contexts : j # k => ctx'[j] = ctx[j]
      /\ old' = old \ {k}
  BY <1>1, Moved DEF StartScaling
<1>3. SumInv'
  BY <1>2 DEF SumInv
<1>4. \A j \in Contexts : /\ Fresh(j, {"arg", "set"})' <=> Fresh(j, {"arg", "set"})
                          /\ Fresh(j, {"arg", "set"}) => ctx'[j] = ctx[j]
  BY <1>2 DEF Fresh
<1>5. SetInv'
  BY <1>1, <1>4 DEF SetInv
<1> QED
  BY <1>2, <1>3, <1>5 DEF VoteInv

\* A step after the vote leaves what comes before it alone.
LEMMA SumKeptBy ==
    ASSUME SumInv, NEW k \in Contexts, ctx[k].at \notin {"test", "sum", "plan", "vote"},
           ctx'[k].at \notin {"test", "sum", "plan", "vote"},
           \A j \in Contexts : j # k => ctx'[j] = ctx[j] /\ (j \in old' <=> j \in old),
           CalculateThroughput' = CalculateThroughput, CurrentThreshold' = CurrentThreshold,
           Voted' = Voted, "vote" \in late => "vote" \in late',
           UNCHANGED <<threshold, curVote>>
    PROVE  SumInv'
<1>1. \A j \in Contexts : /\ ctx'[j].at \in {"test", "sum"} <=> ctx[j].at \in {"test", "sum"}
                          /\ Fresh(j, {"plan"})' <=> Fresh(j, {"plan"})
                          /\ Fresh(j, {"vote"})' <=> Fresh(j, {"vote"})
                          /\ Fresh(j, {"plan", "vote"})' <=> Fresh(j, {"plan", "vote"})
                          /\ Fresh(j, {"plan"}) \/ Fresh(j, {"vote"}) => ctx'[j] = ctx[j]
  BY DEF Fresh
<1>2. Wanted' = Wanted
  BY DEF Wanted
<1> QED
  BY <1>1, <1>2 DEF SumInv

\* The same of what follows the vote.
LEMMA SetKeptBy ==
    ASSUME SetInv, NEW k \in Contexts, ctx[k].at \notin {"arg", "set"},
           ctx'[k].at \notin {"arg", "set"},
           \A j \in Contexts : j # k => ctx'[j] = ctx[j],
           \A j \in Contexts : j # k /\ ctx[j].at \in {"arg", "set"} => (j \in old' <=> j \in old),
           "set" \in late => "set" \in late', UNCHANGED <<curVote, plan>>
    PROVE  SetInv'
<1>1. \A j \in Contexts : /\ Fresh(j, {"arg", "set"})' <=> Fresh(j, {"arg", "set"})
                          /\ Fresh(j, {"arg", "set"}) => ctx'[j] = ctx[j]
  BY DEF Fresh
<1> QED
  BY <1>1 DEF SetInv

\* Every step of a scaling.
LEMMA VoteScale ==
    ASSUME TableInv, VoteInv, NEW k \in Contexts, Scale(k)
    PROVE  VoteInv'
<1>1. BaseType /\ ClockInv /\ CtxType /\ SumInv /\ SetInv
  BY DEF TableInv, VoteInv
<1>2. UNCHANGED <<slot, stage, byPipe, pending, mask, act, tput, groupTput, clkOn>>
  BY ScaleKeeps
<1>3. CalculateThroughput' = CalculateThroughput
  BY <1>2, SumKept
<1>4. CurrentThreshold' = CurrentThreshold
  BY <1>2, ThresholdKept DEF Applies
<1>5. Voted' = Voted
  BY <1>2 DEF Voted, Used
<1>6. Wanted' = Wanted
  BY <1>3, <1>4 DEF Wanted
<1>7. ASSUME ScaleTest(k) PROVE VoteInv'
  <2>1. ctx[k].at = "test" /\ UNCHANGED <<threshold, curVote, plan, old, late>>
    BY <1>7 DEF ScaleTest, clock, history
  <2>2. \/ clkOn /\ Goto(k, At("sum", 0, 0))
        \/ ~clkOn /\ Goto(k, At("idle", 0, 0))
    BY <1>7 DEF ScaleTest, Idle
  <2>3. /\ CtxType' /\ \A j \in Contexts : j # k => ctx'[j] = ctx[j]
        /\ ctx'[k].at \in {"sum", "idle"} /\ (clkOn => ctx'[k].at = "sum")
    BY <1>1, <2>2, Moved
  <2>4. SumInv'
    BY <1>1, <1>5, <2>3 DEF SumInv, ClockInv
  <2>5. SetInv'
    BY <1>1, <2>1, <2>3, SetKeptBy
  <2> QED
    BY <2>3, <2>4, <2>5 DEF VoteInv
<1>8. ASSUME ScaleSum(k) PROVE VoteInv'
  <2>1. /\ ctx[k].at = "sum" /\ UNCHANGED <<curVote, plan, late>>
        /\ threshold' = CurrentThreshold
        /\ old' = (old \ {k}) \union {j \in Contexts \ {k} : ctx[j].at \in {"plan", "vote"}}
    BY <1>8 DEF ScaleSum, Overtake
  <2>2. /\ CtxType' /\ \A j \in Contexts : j # k => ctx'[j] = ctx[j]
        /\ ctx'[k].at = "plan" /\ ctx'[k].tput = CalculateThroughput
    BY <1>1, <1>8, Moved DEF ScaleSum
  <2>3. SumInv'
    <3>1. Fresh(k, {"plan", "vote"})' /\ ~Fresh(k, {"vote"})'
      BY <2>1, <2>2 DEF Fresh
    <3>2. \A j \in Contexts : j # k => ~Fresh(j, {"plan"})' /\ ~Fresh(j, {"vote"})'
      BY <2>1, <2>2 DEF Fresh
    <3> QED
      BY <1>3, <1>4, <2>1, <2>2, <3>1, <3>2 DEF SumInv
  <2>4. SetInv'
    BY <1>1, <2>1, <2>2, SetKeptBy
  <2> QED
    BY <2>2, <2>3, <2>4 DEF VoteInv
<1>9. ASSUME ScalePlan(k) PROVE VoteInv'
  <2>1. ctx[k].at = "plan" /\ UNCHANGED <<threshold, curVote, plan, old, late>>
    BY <1>9 DEF ScalePlan, clock, history
  <2>2. /\ CtxType' /\ \A j \in Contexts : j # k => ctx'[j] = ctx[j]
        /\ ctx'[k].at = "vote" /\ ctx'[k].idx = PlanOf(ctx[k].tput, threshold)
    <3>1. Goto(k, At("vote", 0, PlanOf(ctx[k].tput, threshold)))
      BY <1>9 DEF ScalePlan
    <3>2. ctx' = [ctx EXCEPT ![k] = [at |-> "vote", tput |-> 0, idx |-> PlanOf(ctx[k].tput, threshold)]]
      BY <3>1 DEF Goto, At
    <3>3. /\ ctx'[k] = [at |-> "vote", tput |-> 0, idx |-> PlanOf(ctx[k].tput, threshold)]
          /\ ctx' = [j \in Contexts |-> ctx'[j]]
          /\ \A j \in Contexts : j # k => ctx'[j] = ctx[j]
      BY <1>1, <3>2 DEF CtxType
    <3>4. ctx'[k].at = "vote" /\ ctx'[k].tput = 0 /\ ctx'[k].idx = PlanOf(ctx[k].tput, threshold)
      BY <3>3
    <3>5. CtxType'
      BY <1>1, <3>3, <3>4 DEF CtxType
    <3> QED
      BY <3>3, <3>4, <3>5
  <2>3. SumInv'
    <3>1. \A j \in Contexts : ctx'[j].at \in {"test", "sum"} <=> ctx[j].at \in {"test", "sum"}
      BY <2>1, <2>2
    <3>2. \A j \in Contexts : Fresh(j, {"plan", "vote"})' <=> Fresh(j, {"plan", "vote"})
      BY <2>1, <2>2 DEF Fresh
    <3>3. \A j \in Contexts : Fresh(j, {"plan"})' => Fresh(j, {"plan"}) /\ ctx'[j] = ctx[j]
      BY <2>1, <2>2 DEF Fresh
    <3>4. \A j \in Contexts : Fresh(j, {"vote"})' =>
              \/ Fresh(j, {"vote"}) /\ ctx'[j] = ctx[j]
              \/ j = k /\ Fresh(k, {"plan"})
      BY <2>1, <2>2 DEF Fresh
    <3>5. ctx[k].tput = CalculateThroughput /\ threshold = CurrentThreshold => ctx'[k].idx = Wanted
      BY <2>2 DEF Wanted
    <3> QED
      BY <1>1, <1>3, <1>4, <1>5, <1>6, <2>1, <3>1, <3>2, <3>3, <3>4, <3>5 DEF SumInv
  <2>4. SetInv'
    BY <1>1, <2>1, <2>2, SetKeptBy
  <2> QED
    BY <2>2, <2>3, <2>4 DEF VoteInv
<1>10. ASSUME ScaleVote(k) PROVE VoteInv'
  <2>1. /\ ctx[k].at = "vote" /\ curVote' = ctx[k].idx /\ UNCHANGED <<threshold, plan>>
        /\ late' = IF k \notin old THEN late \ {"vote"}
                   ELSE IF curVote # ctx[k].idx THEN late \union {"vote"} ELSE late
    BY <1>10 DEF ScaleVote, Last
  <2>2. /\ CtxType' /\ \A j \in Contexts : j # k => ctx'[j] = ctx[j]
        /\ curVote = ctx[k].idx => ctx'[k].at = "idle" /\ old' = old \ {k}
        /\ curVote # ctx[k].idx =>
              /\ ctx'[k].at = "arg" /\ ctx'[k].idx = ctx[k].idx
              /\ old' = (old \ {k}) \union {j \in Contexts \ {k} : ctx[j].at \in {"arg", "set"}}
    <3>1. CASE curVote = ctx[k].idx
      <4>1. Goto(k, At("idle", 0, 0)) /\ old' = old \ {k}
        BY <1>10, <3>1 DEF ScaleVote, Idle
      <4>2. CtxType' /\ ctx'[k].at = "idle" /\ \A j \in Contexts : j # k => ctx'[j] = ctx[j]
        BY <1>1, <4>1, Moved
      <4> QED
        BY <3>1, <4>1, <4>2
    <3>2. CASE curVote # ctx[k].idx
      <4>1. Goto(k, At("arg", 0, ctx[k].idx)) /\ Overtake(k, {"arg", "set"})
        BY <1>10, <3>2 DEF ScaleVote
      <4>2. /\ CtxType' /\ ctx'[k].at = "arg" /\ ctx'[k].idx = ctx[k].idx
            /\ \A j \in Contexts : j # k => ctx'[j] = ctx[j]
        <5>1. ctx' = [ctx EXCEPT ![k] = [at |-> "arg", tput |-> 0, idx |-> ctx[k].idx]]
          BY <4>1 DEF Goto, At
        <5>2. /\ ctx'[k] = [at |-> "arg", tput |-> 0, idx |-> ctx[k].idx]
              /\ ctx' = [j \in Contexts |-> ctx'[j]]
              /\ \A j \in Contexts : j # k => ctx'[j] = ctx[j]
          BY <1>1, <5>1 DEF CtxType
        <5>3. ctx'[k].at = "arg" /\ ctx'[k].tput = 0 /\ ctx'[k].idx = ctx[k].idx
          BY <5>2
        <5>4. CtxType'
          BY <1>1, <5>2, <5>3 DEF CtxType
        <5> QED
          BY <5>2, <5>3, <5>4
      <4>3. old' = (old \ {k}) \union {j \in Contexts \ {k} : ctx[j].at \in {"arg", "set"}}
        BY <4>1 DEF Overtake
      <4> QED
        BY <3>2, <4>2, <4>3
    <3> QED
      BY <3>1, <3>2
  <2>3. SumInv'
    <3>1. \A j \in Contexts : ctx'[j].at \in {"test", "sum"} <=> ctx[j].at \in {"test", "sum"}
      BY <2>1, <2>2
    <3>2. ~Fresh(k, {"plan"})' /\ ~Fresh(k, {"vote"})'
      BY <2>2 DEF Fresh
    <3>3. \A j \in Contexts : j # k =>
              /\ Fresh(j, {"plan"})' <=> Fresh(j, {"plan"})
              /\ Fresh(j, {"vote"})' <=> Fresh(j, {"vote"})
              /\ Fresh(j, {"plan", "vote"})' <=> Fresh(j, {"plan", "vote"})
      BY <2>2 DEF Fresh
    <3>4. CASE k \notin old
      <4>1. Fresh(k, {"vote"})
        BY <2>1, <3>4 DEF Fresh
      <4> QED
        BY <1>1, <1>3, <1>4, <1>5, <1>6, <2>1, <2>2, <3>1, <3>2, <3>3, <4>1 DEF SumInv
    <3>5. CASE k \in old
      <4>1. ~Fresh(k, {"plan", "vote"})
        BY <3>5 DEF Fresh
      <4>2. "vote" \in late' \/ (curVote' = curVote /\ late' = late)
        BY <2>1, <3>5
      <4> QED
        BY <1>1, <1>3, <1>4, <1>5, <1>6, <2>1, <2>2, <3>1, <3>2, <3>3, <4>1, <4>2 DEF SumInv
    <3> QED
      BY <3>4, <3>5
  <2>4. SetInv'
    <3>1. CASE curVote = ctx[k].idx
      <4>1. "set" \in late => "set" \in late'
        BY <2>1
      <4> QED
        BY <1>1, <2>1, <2>2, <3>1, <4>1, SetKeptBy
    <3>2. CASE curVote # ctx[k].idx
      <4>1. Fresh(k, {"arg", "set"})' /\ ctx'[k].idx = curVote'
        BY <2>1, <2>2, <3>2 DEF Fresh
      <4>2. \A j \in Contexts : j # k => ~Fresh(j, {"arg", "set"})'
        BY <2>2, <3>2 DEF Fresh
      <4> QED
        BY <4>1, <4>2 DEF SetInv
    <3> QED
      BY <3>1, <3>2
  <2> QED
    BY <2>2, <2>3, <2>4 DEF VoteInv
<1>11. ASSUME ScaleArg(k) PROVE VoteInv'
  <2>1. ctx[k].at = "arg" /\ UNCHANGED <<threshold, curVote, plan, old, late>>
    BY <1>11 DEF ScaleArg, clock, history
  <2>2. PICK idx \in {ctx[k].idx, curVote} : Goto(k, IF idx = 0 THEN Idle ELSE At("set", 0, idx))
    BY <1>11 DEF ScaleArg
  <2>3. \/ idx = 0 /\ Goto(k, At("idle", 0, 0))
        \/ idx # 0 /\ Goto(k, At("set", 0, idx))
    BY <2>2 DEF Idle
  <2>4. /\ CtxType' /\ \A j \in Contexts : j # k => ctx'[j] = ctx[j]
        /\ ctx'[k].at \in {"idle", "set"}
        /\ idx # 0 => ctx'[k].at = "set" /\ ctx'[k].idx = idx
    <3>1. CASE idx = 0 /\ Goto(k, At("idle", 0, 0))
      BY <1>1, <3>1, Moved
    <3>2. CASE idx # 0 /\ Goto(k, At("set", 0, idx))
      <4>1. Goto(k, At("set", 0, idx))
        BY <3>2
      <4>2. ctx' = [ctx EXCEPT ![k] = [at |-> "set", tput |-> 0, idx |-> idx]]
        BY <4>1 DEF Goto, At
      <4>3. /\ ctx'[k] = [at |-> "set", tput |-> 0, idx |-> idx]
            /\ ctx' = [j \in Contexts |-> ctx'[j]]
            /\ \A j \in Contexts : j # k => ctx'[j] = ctx[j]
        BY <1>1, <4>2 DEF CtxType
      <4>4. ctx'[k].at = "set" /\ ctx'[k].tput = 0 /\ ctx'[k].idx = idx
        BY <4>3
      <4>5. CtxType'
        BY <1>1, <4>3, <4>4 DEF CtxType
      <4> QED
        BY <4>3, <4>4, <4>5
    <3> QED
      BY <2>3, <3>1, <3>2
  <2>5. SumInv'
    BY <1>1, <1>3, <1>4, <1>5, <2>1, <2>4, SumKeptBy
  <2>6. SetInv'
    <3> SUFFICES ASSUME curVote # 0
                 PROVE  /\ \A j \in Contexts : Fresh(j, {"arg", "set"})' => ctx'[j].idx = curVote
                        /\ \/ \E j \in Contexts : Fresh(j, {"arg", "set"})'
                           \/ "set" \in late \/ plan = curVote
      BY <2>1 DEF SetInv
    <3>1. /\ \A j \in Contexts : Fresh(j, {"arg", "set"}) => ctx[j].idx = curVote
          /\ \/ \E j \in Contexts : Fresh(j, {"arg", "set"})
             \/ "set" \in late \/ plan = curVote
      BY <1>1 DEF SetInv
    <3>2. \A j \in Contexts : j # k => (Fresh(j, {"arg", "set"})' <=> Fresh(j, {"arg", "set"}))
      BY <2>1, <2>4 DEF Fresh
    <3>3. CASE k \in old
      <4>1. ~Fresh(k, {"arg", "set"}) /\ ~Fresh(k, {"arg", "set"})'
        BY <2>1, <3>3 DEF Fresh
      <4> QED
        BY <2>4, <3>1, <3>2, <4>1
    <3>4. CASE k \notin old
      <4>1. idx = curVote
        BY <2>1, <3>1, <3>4 DEF Fresh
      <4>2. Fresh(k, {"arg", "set"})' /\ ctx'[k].idx = curVote
        BY <2>1, <2>4, <3>4, <4>1 DEF Fresh
      <4> QED
        BY <2>4, <3>1, <3>2, <4>2
    <3> QED
      BY <3>3, <3>4
  <2> QED
    BY <2>4, <2>5, <2>6 DEF VoteInv
<1>12. ASSUME ScaleSet(k) PROVE VoteInv'
  <2>1. /\ ctx[k].at = "set" /\ plan' = ctx[k].idx /\ UNCHANGED <<threshold, curVote>>
        /\ old' = old \ {k}
        /\ late' = IF k \notin old THEN late \ {"set"}
                   ELSE IF plan # ctx[k].idx THEN late \union {"set"} ELSE late
    BY <1>12 DEF ScaleSet, Last
  <2>2. /\ CtxType' /\ \A j \in Contexts : j # k => ctx'[j] = ctx[j]
        /\ ctx'[k].at = "idle"
    BY <1>1, <1>12, Moved DEF ScaleSet, Idle
  <2>3. SumInv'
    <3>1. "vote" \in late => "vote" \in late'
      BY <2>1
    <3> QED
      BY <1>1, <1>3, <1>4, <1>5, <2>1, <2>2, <3>1, SumKeptBy
  <2>4. SetInv'
    <3>1. ~Fresh(k, {"arg", "set"})'
      BY <2>2 DEF Fresh
    <3>2. \A j \in Contexts : j # k => (Fresh(j, {"arg", "set"})' <=> Fresh(j, {"arg", "set"}))
      BY <2>1, <2>2 DEF Fresh
    <3>3. CASE k \in old
      <4>1. ~Fresh(k, {"arg", "set"})
        BY <3>3 DEF Fresh
      <4>2. "set" \in late' \/ (plan' = plan /\ late' = late)
        BY <2>1, <3>3
      <4> QED
        BY <1>1, <2>1, <2>2, <3>1, <3>2, <4>1, <4>2 DEF SetInv
    <3>4. CASE k \notin old
      <4>1. Fresh(k, {"arg", "set"})
        BY <2>1, <3>4 DEF Fresh
      <4> QED
        BY <1>1, <2>1, <2>2, <3>1, <3>2, <4>1 DEF SetInv
    <3> QED
      BY <3>3, <3>4
  <2> QED
    BY <2>2, <2>3, <2>4 DEF VoteInv
<1> QED
  BY <1>7, <1>8, <1>9, <1>10, <1>11, <1>12 DEF Scale

\* Every step, of any number of contexts.
LEMMA VoteStep ==
    ASSUME TableInv, VoteInv, [Next]_vars
    PROVE  VoteInv'
<1>0. BaseType /\ SlotInv /\ CtxType
  BY DEF TableInv, VoteInv
<1>d. ASSUME slot' = slot, act' = act, pending' = pending, mask' = mask
      PROVE  Voted' = Voted /\ CurrentThreshold' = CurrentThreshold
  BY <1>d, ThresholdKept DEF Voted, Used, Applies
<1>1. CASE \/ \E n \in Names, h \in Handles : RegisterAt(n, h)
           \/ \E h \in Handles : \/ RegisterName(h) \/ RegisterExceptions(h) \/ Deregister(h)
                                 \/ \E p \in Pipes : AssociatePipe(h, p)
  BY <1>1, DemandKept, VoteKept
<1>2. ASSUME NEW k \in Contexts, NEW h \in Handles, NEW v \in Tputs, SetThroughput(k, h, v)
      PROVE  VoteInv'
  <2>1. CASE act[h] \/ ~IsDefault(h)
    <3>1. ctx[k].at = "idle" /\ StartScaling(k) /\ UNCHANGED <<curVote, plan, late>>
      BY <1>2, <2>1 DEF SetThroughput, clock
    <3> QED
      BY <3>1, VoteStart
  <2>2. CASE ~(act[h] \/ ~IsDefault(h))
    <3>1. /\ tput' = [tput EXCEPT ![h] = v] /\ groupTput' = groupTput
          /\ UNCHANGED <<slot, pending, mask, act, threshold, curVote, plan, ctx, old, late>>
      BY <1>2, <2>2 DEF SetThroughput, table, clock
    <3>2. \A g \in Handles : act[g] => slot'[g] = slot[g] /\ tput'[g] = tput[g]
      BY <1>0, <2>2, <3>1 DEF BaseType
    <3>3. CalculateThroughput' = CalculateThroughput
      BY <3>1, <3>2, SumKept
    <3> QED
      BY <1>d, <3>1, <3>3, VoteKept
  <2> QED
    BY <2>1, <2>2
<1>3. ASSUME NEW k \in Contexts, NEW h \in Handles, Activate(k, h) \/ Deactivate(k, h)
      PROVE  VoteInv'
  <2>1. ctx[k].at = "idle" /\ StartScaling(k) /\ UNCHANGED <<curVote, plan, late>>
    BY <1>3 DEF Activate, Deactivate, clock
  <2> QED
    BY <2>1, VoteStart
<1>4. ASSUME NEW k \in Contexts, Scale(k) PROVE VoteInv'
  BY <1>4, VoteScale
<1>5. ASSUME GateClocks PROVE VoteInv'
  <2>1. /\ UNCHANGED <<slot, pending, mask, act, ctx>> /\ ~Voted /\ curVote' = 0
    BY <1>5 DEF GateClocks, table, demand, history
  <2>2. CtxType'
    BY <1>0, <2>1 DEF CtxType
  <2> QED
    BY <1>d, <2>1, <2>2 DEF VoteInv, SumInv, SetInv
<1>6. CASE OpenClocks \/ UNCHANGED vars
  <2>1. UNCHANGED <<slot, pending, mask, act, tput, groupTput, threshold, curVote, plan, ctx, old, late>>
    BY <1>6 DEF OpenClocks, vars, table, demand, clock, history
  <2>2. CalculateThroughput' = CalculateThroughput
    BY <2>1, SumKept
  <2> QED
    BY <1>d, <2>1, <2>2, VoteKept
<1> QED
  BY <1>1, <1>2, <1>3, <1>4, <1>5, <1>6 DEF Next

\* With any number of contexts that scale at a time, the plan voted for is the
\* one the throughputs of the clients active now call for, and the clocks follow
\* it, whenever no scaling runs: the sum is taken under the mutex and voted with
\* after it, while others register clients, change the demand and scale.  Only
\* a vote overtaken by a newer sum, or a plan by a newer vote, is excepted.
THEOREM VoteIsCurrent == Spec => []VoteCurrent
<1>1. Init => VoteInv
  <2> SUFFICES ASSUME Init PROVE VoteInv
    OBVIOUS
  <2>1. ~Voted /\ curVote = 0
    BY DEF Init, Voted
  <2>2. CtxType
    BY DEF Init, CtxType, Idle, At
  <2> QED
    BY <2>1, <2>2 DEF VoteInv, SumInv, SetInv
<1>2. TableInv /\ VoteInv /\ [Next]_vars => VoteInv'
  BY VoteStep
<1>3. VoteInv => VoteCurrent
  <2> SUFFICES ASSUME VoteInv, AtRest, Voted, InOrder
               PROVE  curVote = Wanted /\ plan = curVote
    BY DEF VoteCurrent, Wanted
  <2>1. \A k \in Contexts : ctx[k].at = "idle"
    BY DEF AtRest
  <2>2. curVote = Wanted
    BY <2>1 DEF VoteInv, SumInv, InOrder, Fresh
  <2>3. curVote # 0
    BY <2>2, ThresholdType, PlanPositive DEF Wanted
  <2>4. plan = curVote
    BY <2>1, <2>3 DEF VoteInv, SetInv, InOrder, Fresh
  <2> QED
    BY <2>2, <2>4
<1> QED
  BY <1>1, <1>2, <1>3, TableInvariant, PTL DEF Spec

=============================================================================

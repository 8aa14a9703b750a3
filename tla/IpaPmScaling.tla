---------------------------- MODULE IpaPmScaling ----------------------------
(***************************************************************************)
(* Clock scaling of the IPA power manager, ipa_v3/ipa_pm.c: the table of   *)
(* registered clients, their throughputs, the list of exceptions, and      *)
(* do_clk_scaling, which turns the throughputs of the active clients into  *)
(* the index of a clock plan.                                              *)
(*                                                                         *)
(* How a client becomes active is the subject of IpaPm; here it is one     *)
(* step.  The scaling that follows it sums up under the client mutex and   *)
(* votes after it, and several contexts scale at a time: the workqueue,    *)
(* the callers of synchronous operations and those of set_throughput.      *)
(*                                                                         *)
(* A definition marked "slip" is the next one with a plausible mistake in  *)
(* it.  Next uses none of them: they show that each property can fail.     *)
(***************************************************************************)
EXTENDS IpaPmTput, Integers, Sequences, FiniteSets, FiniteSetsExt

CONSTANTS Names,            \* client names
          NoName,           \* a free element of the clients array
          Group,            \* the group of each name
          SkipVote,         \* names registered with skip_clk_vote
          MaxClients,       \* handles are 1 .. MaxClients
          Pipes,            \* IPA pipes
          MaxTput,          \* bound on the throughputs
          DefaultThreshold, \* the thresholds used if no exception passes
          Exceptions,       \* sequence of [clients, threshold]
          Contexts          \* contexts that run do_clk_scaling

Handles == 1 .. MaxClients
NoHandle == 0
Tputs == 0 .. MaxTput
Shared == {Group[n] : n \in Names} \ {"default"}
ExIdx == DOMAIN Exceptions

ASSUME ScalingAssumption ==
    /\ IsFiniteSet(Names) /\ NoName \notin Names /\ SkipVote \subseteq Names
    /\ MaxClients \in Nat \ {0} /\ MaxTput \in Nat
    /\ DefaultThreshold \in Seq(Nat) /\ Len(DefaultThreshold) > 0
    /\ ExIdx = 1 .. Len(Exceptions) /\ Len(Exceptions) \in Nat
    /\ \A i \in ExIdx : /\ Exceptions[i].clients \in (SUBSET Names) \ {{}}
                        /\ Exceptions[i].threshold \in Seq(Nat)
                        /\ Len(Exceptions[i].threshold) = Len(DefaultThreshold)

VARIABLES slot,       \* clients[], by the name they are registered with
          stage,      \* how far the registration is; the name is set from "named" on
          act,        \* the client's state is active, and its bit is set
          tput,       \* throughput of a client of the default group, 0 in a free element
          groupTput,  \* group_tput
          byPipe,     \* clients_by_pipe
          pending,    \* of each exception: clients not registered
          mask,       \* of each exception: handles registered
          clkOn,      \* ipa_clk_vote
          threshold,  \* current_threshold: an exception, or 0 for the default
          curVote,    \* cur_vote
          plan,       \* the plan the clocks follow: bus_vote_idx, curr_ipa_clk_rate
          ctx,        \* what each context does, with its sum and its index
          old,        \* history: contexts another of which has taken a sum, or stored
                      \* a vote, after them
          late        \* history: an old one was the last to vote, or to set the plan

table == <<slot, stage, byPipe, pending, mask>>
demand == <<act, tput, groupTput>>
clock == <<clkOn, threshold, curVote, plan>>
history == <<old, late>>
vars == <<table, demand, clock, ctx, history>>

Plans == 0 .. Len(DefaultThreshold) + 1
At(l, sum, idx) == [at |-> l, tput |-> sum, idx |-> idx]
Idle == At("idle", 0, 0)

TypeOK ==
    /\ slot \in [Handles -> Names \union {NoName}]
    /\ stage \in [Handles -> {"new", "named", "done", "failed"}]
    /\ act \in [Handles -> BOOLEAN]
    /\ tput \in [Handles -> Tputs] /\ groupTput \in [Shared -> Tputs]
    /\ byPipe \in [Pipes -> Handles \union {NoHandle}]
    /\ pending \in [ExIdx -> 0 .. Cardinality(Names)]
    /\ mask \in [ExIdx -> SUBSET Handles]
    /\ clkOn \in BOOLEAN /\ threshold \in ExIdx \union {0}
    /\ curVote \in Plans /\ plan \in Plans \ {0}
    /\ ctx \in [Contexts -> [at : {"idle", "test", "sum", "plan", "vote", "arg", "set"},
                             tput : 0 .. MaxTput * MaxClients, idx : Plans]]
    /\ old \subseteq Contexts /\ late \subseteq {"vote", "set"}

Init ==
    /\ slot = [h \in Handles |-> NoName] /\ stage = [h \in Handles |-> "done"]
    /\ act = [h \in Handles |-> FALSE]
    /\ tput = [h \in Handles |-> 0] /\ groupTput = [g \in Shared |-> 0]
    /\ byPipe = [p \in Pipes |-> NoHandle]
    /\ pending = [i \in ExIdx |-> Cardinality(Exceptions[i].clients)]
    /\ mask = [i \in ExIdx |-> {}]
    /\ clkOn = TRUE /\ threshold = 0 /\ curVote = 0 /\ plan = 1
    /\ ctx = [k \in Contexts |-> Idle] /\ old = {} /\ late = {}

Used(h) == slot[h] # NoName
Ready(h) == Used(h) /\ stage[h] = "done"
IsDefault(h) == Group[slot[h]] = "default"
Tput(h) == IF IsDefault(h) THEN tput[h] ELSE groupTput[Group[slot[h]]]

-----------------------------------------------------------------------------
(* calculate_throughput.                                                   *)

\* A client counts if it is active and, in a shared group, the first that is.
Counts(h) ==
    act[h] /\ (IsDefault(h) \/ ~\E g \in 1 .. h - 1 : act[g] /\ Group[slot[g]] = Group[slot[h]])

\* What each client adds to the array; -1 if it adds nothing.
Asked == [h \in Handles |-> IF Counts(h) THEN Tput(h) ELSE -1]
Gathered(asked) == SelectSeq(asked, LAMBDA v : v >= 0)
ClientTputs == Gathered(Asked)

CalculateThroughput == Aggregate[ClientTputs]

-----------------------------------------------------------------------------
(* set_current_threshold and do_clk_scaling.                               *)

AppliesAlone(i) ==                      \* slip: the two masks exchanged
    pending[i] = 0 /\ \A h \in Handles : act[h] => h \in mask[i]

Applies(i) == pending[i] = 0 /\ \A h \in mask[i] : act[h]

FirstOf(passing) == IF passing = {} THEN 0 ELSE CHOOSE i \in passing : \A j \in passing : i <= j
CurrentThreshold == FirstOf({i \in ExIdx : Applies(i)})

Threshold(i) == IF i = 0 THEN DefaultThreshold ELSE Exceptions[i].threshold

\* The index of the plan: 1, and one more for each threshold reached.
PlanOf(sum, i) == 1 + Cardinality({j \in DOMAIN Threshold(i) : sum >= Threshold(i)[j]})

Goto(k, r) == ctx' = [ctx EXCEPT ![k] = r]
StartScaling(k) == Goto(k, At("test", 0, 0)) /\ old' = old \ {k}

\* Nothing is done while the clocks are gated.
ScaleTest(k) ==
    /\ ctx[k].at = "test"
    /\ Goto(k, IF clkOn THEN At("sum", 0, 0) ELSE Idle)
    /\ UNCHANGED <<table, demand, clock, history>>

\* k is now ahead of the others at one of pcs.
Overtake(k, pcs) == old' = (old \ {k}) \union {j \in Contexts \ {k} : ctx[j].at \in pcs}

\* k is the last to do what, which it has changed or found as it wants it.
Last(k, what, changed) ==
    late' = IF k \notin old THEN late \ {what} ELSE IF changed THEN late \union {what} ELSE late

\* Under the client mutex.
ScaleSum(k) ==
    /\ ctx[k].at = "sum"
    /\ Goto(k, At("plan", CalculateThroughput, 0)) /\ Overtake(k, {"plan", "vote"})
    /\ threshold' = CurrentThreshold
    /\ UNCHANGED <<table, demand, clkOn, curVote, plan, late>>

\* After it, with the thresholds that another sum may have replaced.
ScalePlan(k) ==
    /\ ctx[k].at = "plan"
    /\ Goto(k, At("vote", 0, PlanOf(ctx[k].tput, threshold)))
    /\ UNCHANGED <<table, demand, clock, history>>

\* An index that is voted for already is not set again.
ScaleVote(k) ==
    /\ ctx[k].at = "vote"
    /\ curVote' = ctx[k].idx /\ Last(k, "vote", curVote # ctx[k].idx)
    /\ IF curVote = ctx[k].idx
       THEN Goto(k, Idle) /\ old' = old \ {k}
       ELSE Goto(k, At("arg", 0, ctx[k].idx)) /\ Overtake(k, {"arg", "set"})
    /\ UNCHANGED <<table, demand, clkOn, threshold, plan>>

\* The argument is cur_vote, which is read again or not; 0 is refused.
ScaleArg(k) ==
    /\ ctx[k].at = "arg"
    /\ \E idx \in {ctx[k].idx, curVote} : Goto(k, IF idx = 0 THEN Idle ELSE At("set", 0, idx))
    /\ UNCHANGED <<table, demand, clock, history>>

\* ipa3_set_clock_plan_from_pm.
ScaleSet(k) ==
    /\ ctx[k].at = "set"
    /\ plan' = ctx[k].idx /\ Last(k, "set", plan # ctx[k].idx)
    /\ Goto(k, Idle) /\ old' = old \ {k}
    /\ UNCHANGED <<table, demand, clkOn, threshold, curVote>>

Scale(k) ==
    ScaleTest(k) \/ ScaleSum(k) \/ ScalePlan(k) \/ ScaleVote(k) \/ ScaleArg(k) \/ ScaleSet(k)

-----------------------------------------------------------------------------
(* The table of clients.                                                   *)

\* add_client_to_exception_list compares the name with the whole list.
Matches(n, i) == Exceptions[i].clients = {n}

\* ipa_pm_register: the lowest free element, unless the name is registered or
\* none is free.  The element has no name yet ...
RegisterAt(n, h) ==
    /\ ~Used(h) /\ (\A g \in 1 .. h - 1 : Used(g))
    /\ \A g \in Handles : slot[g] = n => stage[g] = "new"
    /\ slot' = [slot EXCEPT ![h] = n] /\ stage' = [stage EXCEPT ![h] = "new"]
    /\ UNCHANGED <<byPipe, pending, mask, demand, clock, ctx, history>>

\* ... it is given one without the mutex, and a wakeup source, or there is none ...
RegisterName(h) ==
    /\ Used(h) /\ stage[h] = "new"
    /\ \E l \in {"named", "failed"} : stage' = [stage EXCEPT ![h] = l]
    /\ UNCHANGED <<slot, byPipe, pending, mask, demand, clock, ctx, history>>

\* ... and add_client_to_exception_list stops with -EPERM at an exception that
\* has all its clients.
RegisterExceptions(h) ==
    LET listed == {i \in ExIdx : Matches(slot[h], i)}
        full   == {i \in listed : pending[i] = 0}
        added  == {i \in listed : \A j \in full : i < j}
    IN  /\ Used(h) /\ stage[h] = "named"
        /\ pending' = [i \in ExIdx |-> IF i \in added THEN pending[i] - 1 ELSE pending[i]]
        /\ mask' = [i \in ExIdx |-> IF i \in added THEN mask[i] \union {h} ELSE mask[i]]
        /\ stage' = [stage EXCEPT ![h] = IF full = {} THEN "done" ELSE "failed"]
        /\ UNCHANGED <<slot, byPipe, demand, clock, ctx, history>>

DeregisterPiped(h) ==                   \* slip: the pipes left alone
    /\ Used(h) /\ stage[h] \in {"done", "failed"} /\ ~act[h]
    /\ slot' = [slot EXCEPT ![h] = NoName] /\ stage' = [stage EXCEPT ![h] = "done"]
    /\ pending' = [i \in ExIdx |-> IF h \in mask[i] THEN pending[i] + 1 ELSE pending[i]]
    /\ mask' = [i \in ExIdx |-> mask[i] \ {h}]
    /\ tput' = [tput EXCEPT ![h] = 0]
    /\ UNCHANGED <<byPipe, act, groupTput, clock, ctx, history>>

\* ipa_pm_deregister, by the client or by a registration that failed.
Deregister(h) ==
    /\ Used(h) /\ stage[h] \in {"done", "failed"} /\ ~act[h]
    /\ byPipe' = [p \in Pipes |-> IF byPipe[p] = h THEN NoHandle ELSE byPipe[p]]
    /\ slot' = [slot EXCEPT ![h] = NoName] /\ stage' = [stage EXCEPT ![h] = "done"]
    /\ pending' = [i \in ExIdx |-> IF h \in mask[i] THEN pending[i] + 1 ELSE pending[i]]
    /\ mask' = [i \in ExIdx |-> mask[i] \ {h}]
    /\ tput' = [tput EXCEPT ![h] = 0]
    /\ UNCHANGED <<act, groupTput, clock, ctx, history>>

AssociatePipe(h, p) ==
    /\ Ready(h) /\ byPipe[p] = NoHandle
    /\ byPipe' = [byPipe EXCEPT ![p] = h]
    /\ UNCHANGED <<slot, stage, pending, mask, demand, clock, ctx, history>>

-----------------------------------------------------------------------------
(* What changes the demand, each followed by a scaling of its context.     *)

SetThroughputSilent(k, h, v) ==         \* slip: no scaling for a group
    /\ ctx[k].at = "idle" /\ Ready(h)
    /\ IF IsDefault(h)
       THEN tput' = [tput EXCEPT ![h] = v] /\ UNCHANGED groupTput
       ELSE groupTput' = [groupTput EXCEPT ![Group[slot[h]]] = v] /\ UNCHANGED tput
    /\ IF act[h] /\ IsDefault(h) THEN StartScaling(k) ELSE UNCHANGED <<ctx, old>>
    /\ UNCHANGED <<table, act, clock, late>>

SetThroughput(k, h, v) ==
    /\ ctx[k].at = "idle" /\ Ready(h)
    /\ IF IsDefault(h)
       THEN tput' = [tput EXCEPT ![h] = v] /\ UNCHANGED groupTput
       ELSE groupTput' = [groupTput EXCEPT ![Group[slot[h]]] = v] /\ UNCHANGED tput
    /\ IF act[h] \/ ~IsDefault(h) THEN StartScaling(k) ELSE UNCHANGED <<ctx, old>>
    /\ UNCHANGED <<table, act, clock, late>>

\* A vote of the client opens the clocks.
Activate(k, h) ==
    /\ ctx[k].at = "idle" /\ Ready(h) /\ ~act[h]
    /\ act' = [act EXCEPT ![h] = TRUE]
    /\ clkOn' = (clkOn \/ slot[h] \notin SkipVote)
    /\ StartScaling(k)
    /\ UNCHANGED <<table, tput, groupTput, threshold, curVote, plan, late>>

Deactivate(k, h) ==
    /\ ctx[k].at = "idle" /\ Ready(h) /\ act[h]
    /\ act' = [act EXCEPT ![h] = FALSE]
    /\ StartScaling(k)
    /\ UNCHANGED <<table, tput, groupTput, clock, late>>

Voted == \E h \in Handles : Used(h) /\ act[h] /\ slot[h] \notin SkipVote

\* ipa3_disable_clks, and a vote of somebody who is not a client.
GateClocks ==
    /\ clkOn /\ ~Voted
    /\ clkOn' = FALSE /\ curVote' = 0
    /\ UNCHANGED <<table, demand, threshold, plan, ctx, history>>

OpenClocks ==
    /\ ~clkOn
    /\ clkOn' = TRUE
    /\ UNCHANGED <<table, demand, threshold, curVote, plan, ctx, history>>

-----------------------------------------------------------------------------
Next ==
    \/ \E n \in Names, h \in Handles : RegisterAt(n, h)
    \/ \E h \in Handles : \/ RegisterName(h) \/ RegisterExceptions(h) \/ Deregister(h)
                          \/ \E p \in Pipes : AssociatePipe(h, p)
    \/ \E k \in Contexts, h \in Handles :
          \/ \E v \in Tputs : SetThroughput(k, h, v)
          \/ Activate(k, h) \/ Deactivate(k, h)
    \/ \E k \in Contexts : Scale(k)
    \/ GateClocks \/ OpenClocks

Spec == Init /\ [][Next]_vars

-----------------------------------------------------------------------------
(* Correctness.                                                            *)

AtRest == \A k \in Contexts : ctx[k].at = "idle"

\* The vote is of the newest sum, and the plan that of the newest vote.
InOrder == late = {}

\* Once no scaling runs and a client votes, the vote is the plan that the
\* throughputs of the clients active now call for, and the clocks follow it
\* (ipa_pm.c:352, "set the clock based on the activated clients"), however many
\* contexts scale at a time, unless one of them overtook another after the sum.
VoteCurrent ==
    AtRest /\ Voted /\ InOrder =>
        curVote = PlanOf(CalculateThroughput, CurrentThreshold) /\ plan = curVote

\* The same of every order.  It does not hold (README, 7).
VoteAlwaysCurrent ==
    AtRest /\ Voted =>
        curVote = PlanOf(CalculateThroughput, CurrentThreshold) /\ plan = curVote

ActiveDefault == {h \in Handles : Used(h) /\ act[h] /\ IsDefault(h)}
ActiveGroups == {Group[slot[h]] : h \in {g \in Handles : Used(g) /\ act[g] /\ ~IsDefault(g)}}

\* The sum of the demands takes each active client of the default group and
\* each shared group with an active client once, however many of its clients
\* are active and wherever they are in the array (ipa_pm.h:23, "other groups
\* share one throughput").
GroupsOnce ==
    SumSeq(ClientTputs) = MapThenSumSet(LAMBDA h : tput[h], ActiveDefault)
                          + MapThenSumSet(LAMBDA g : groupTput[g], ActiveGroups)

\* What refers to clients by handle survives every order of registrations,
\* deregistrations and reuses of a handle, also of registrations that overlap and
\* of those that fail: the mask of an exception holds
\* registered handles of its clients and "pending" counts the ones missing
\* (ipa_pm.c:543-604), and no pipe leads to a client that was freed
\* (ipa_pm.c:861, "nullify pointers in pipe array").
TableExact ==
    /\ \A i \in ExIdx :
          /\ \A h \in mask[i] : slot[h] \in Exceptions[i].clients
          /\ pending[i] + Cardinality(mask[i]) = Cardinality(Exceptions[i].clients)
    /\ \A p \in Pipes : byPipe[p] # NoHandle => Used(byPipe[p])

Active(n) == \E h \in Handles : slot[h] = n /\ act[h]

\* The thresholds of an exception are used only while all its clients are
\* active (ipa_pm.h:49, "comma separated client names"), whatever was registered,
\* failed to register or was deregistered before, and for lists too.
ExceptionSound ==
    \A i \in ExIdx : CurrentThreshold = i => \A n \in Exceptions[i].clients : Active(n)

\* The converse: they are used then, or those of an exception before it.  It does
\* not hold for a list, with which no name is equal (README, 7).
ExceptionInForce ==
    \A i \in ExIdx : (\A n \in Exceptions[i].clients : Active(n)) => CurrentThreshold \in 1 .. i

Largest(s) == CHOOSE x \in {s[i] : i \in DOMAIN s} : \A i \in DOMAIN s : s[i] <= x

\* The aggregated throughput counts what the clients exchange with one another
\* (ipa_pm.c:261): traffic that enters at one leaves at another, so it is at
\* most half of the sum and at most what all but the largest can take, and it
\* is at least half of that.
AggregateBounds ==
    ClientTputs # <<>> =>
        LET sum == SumSeq(ClientTputs)
            others == sum - Largest(ClientTputs)
            agg == CalculateThroughput
        IN  2 * agg <= sum /\ agg <= others /\ others <= 2 * agg

\* More demand never means a slower clock: between two scalings, the aggregate
\* would not fall if one of the clients asked for more, or if one or two others
\* became active, whatever their handles are (ipa_pm.c:209-276).
RisesTogether ==
    AtRest => \A v \in 0 .. MaxTput + 2 :
        LET more == Append(ClientTputs, v)
        IN  /\ \A i \in DOMAIN ClientTputs :
                  v > ClientTputs[i] =>
                      Aggregate[[ClientTputs EXCEPT ![i] = v]] >= CalculateThroughput
            /\ Aggregate[more] >= CalculateThroughput
            /\ \A w \in Tputs : Aggregate[Append(more, w)] >= Aggregate[more]
=============================================================================

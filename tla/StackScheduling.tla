--------------------------- MODULE StackScheduling --------------------------
(***************************************************************************)
(* schedule (stack-scheduling/src/lib.rs): for each block a sequence of    *)
(* stack operations, swaps and duplicates within reach and spills to       *)
(* memory included.  One action per operation of a block that begins or    *)
(* ends and per step of the algorithms that rearrange the stack.           *)
(***************************************************************************)
EXTENDS StackOps

(* greedy_shuffler: the stack that a block leaves, made from the bottom.   *)
(* The lowest `complete` values are in place.  Indices k count from the    *)
(* bottom, depths d from the top, both from 0.                             *)
Bottom(seq, k) == seq[Len(seq) - k]
From(seq, k) == SubSeq(seq, 1, Len(seq) - k)        \* index k and all above
Over(seq, k) == SubSeq(seq, 1, Len(seq) - k - 1)    \* above index k
Count(seq, v) == Cardinality({i \in DOMAIN seq : seq[i] = v})
DepthOf(s, k) == Len(s.stack) - k - 1

(* Where there are both a value and one that is wanted. *)
Paired(s, k) == k .. Min({Len(s.stack), Len(s.target)}) - 1

InPlace(s, k) ==
    LET v == Bottom(s.target, k)
    IN /\ Bottom(s.stack, k) = v
       /\ v \in ToSet(Over(s.target, k)) => v \in ToSet(Over(s.stack, k))

(* update_complete_at_bottom *)
Completed(s) ==
    LET open == {k \in Paired(s, s.complete) : ~InPlace(s, k)}
    IN [s EXCEPT !.complete = IF open # {} THEN Min(open)
                              ELSE @ + Cardinality(Paired(s, s.complete))]

IsUnneeded(s, v) == s.complete = Len(s.target) \/ v \notin ToSet(From(s.target, s.complete))

(* The lowest index that swaps reach and that is not complete. *)
Reach(s) == Len(s.stack) - 1 - Min({MaxSwapDepth, DepthOf(s, s.complete), Len(s.stack) - 1})

SwapTo(s, k) ==
    IF DepthOf(s, k) = 0 THEN s
    ELSE IF DepthOf(s, k) > MaxSwapDepth THEN Panicked(s) ELSE Swap(s, DepthOf(s, k))

(* swap_to_correct_position: where the top belongs. *)
HomesOfTop(s) ==
    {k \in Paired(s, Reach(s)) : Bottom(s.stack, k) # Top(s) /\ Bottom(s.target, k) = Top(s)}

IsExtra(s, v) == Count(From(s.stack, s.complete), v) > Count(From(s.target, s.complete), v)
ExtrasInReach(s) == {k \in Reach(s) .. Len(s.stack) - 1 : IsExtra(s, Bottom(s.stack, k))}
IsDuplicate(s, v) == Count(From(s.stack, s.complete), v) >= 2

(* Only the values from `complete` on count; all are out of place below    *)
(* what can be reached, so that something must go.                         *)
MustShrink(s) == MaxSwapDepth + 1 < Len(s.stack) - s.complete

Shrunk(s) ==
    IF IsUnneeded(s, Top(s)) THEN Pop(s)
    ELSE IF HomesOfTop(s) # {} THEN SwapTo(s, Min(HomesOfTop(s)))
    ELSE IF IsExtra(s, Top(s)) THEN Pop(s)
    ELSE IF ExtrasInReach(s) # {} THEN Pop(SwapTo(s, Min(ExtrasInReach(s))))
    ELSE IF IsDuplicate(s, Top(s)) THEN Pop(s)
    ELSE SpillTop(s)

(* exchange_via_top: two values of which one lies where the other belongs. *)
Sources(s, dest) ==
    {k \in Paired(s, Reach(s)) :
        Bottom(s.stack, k) # Bottom(s.target, k) /\ Bottom(s.stack, k) = Bottom(s.target, dest)}
Destinations(s) ==
    {k \in Paired(s, Reach(s)) : Bottom(s.stack, k) # Bottom(s.target, k) /\ Sources(s, k) # {}}
ExchangeViaTop(s) ==
    LET dest == Min(Destinations(s)) IN SwapTo(SwapTo(s, Min(Sources(s, dest))), dest)

(* Another value may be pushed if the one that goes out of reach is in     *)
(* place and not needed any more.                                          *)
CanPush(s) ==
    LET horizon == Len(s.stack) - 1 - MaxSwapDepth
        v == Bottom(s.target, horizon)
    IN Len(s.stack) > MaxSwapDepth =>
          /\ Bottom(s.stack, horizon) = v
          /\ v \in ToSet(Over(s.target, horizon)) =>
                v \in ToSet(Over(s.stack, horizon)) \/ IsSpilled(s, v)

(* unspill_unavailable_horizon: the last chance to put a value in its place.*)
Horizon(s) == Len(s.stack) - MaxSwapDepth
HorizonIsLost(s) ==
    /\ Len(s.stack) >= MaxSwapDepth
    /\ LET v == Bottom(s.target, Horizon(s))
       IN v # Bottom(s.stack, Horizon(s)) /\ v \notin ToSet(SubSeq(s.stack, 1, MaxSwapDepth))

(* dup_needed: of the lowest value wanted that has too few copies in reach. *)
Duplicable(s) ==
    LET reach == Min({MaxDupDepth, Len(s.stack) - 1})
        low == Len(s.stack) - 1 - reach
        near == SubSeq(s.stack, 1, reach + 1)
    IN {k \in Paired(s, low) :
           LET v == Bottom(s.target, k)
           IN v \in ToSet(near) /\ Count(near, v) < Count(From(s.target, low), v)}
DupNeeded(s) == Dup(s, Depth(s, Bottom(s.target, Min(Duplicable(s)))))

(* unspill_needed: the lowest value wanted of which no copy is in reach. *)
Unavailable(s) ==
    {k \in s.complete .. Len(s.target) - 1 :
        Bottom(s.target, k) \notin ToSet(SubSeq(s.stack, 1, Min({MaxDupDepth + 1, Len(s.stack)})))}

MustGrow(s) == s.complete < Len(s.target)

Pushed(s) ==
    IF HorizonIsLost(s) THEN Unspill(s, Bottom(s.target, Horizon(s)))
    ELSE IF s.stack # <<>> /\ Duplicable(s) # {} THEN DupNeeded(s)
    ELSE IF Unavailable(s) # {} THEN Unspill(s, Bottom(s.target, Min(Unavailable(s))))
    ELSE Panicked(s)

Grown(s) ==
    LET incomplete == Len(s.stack) > s.complete
    IN IF incomplete /\ IsUnneeded(s, Top(s)) THEN Pop(s)
       ELSE IF incomplete /\ HomesOfTop(s) # {} THEN SwapTo(s, Min(HomesOfTop(s)))
       ELSE IF incomplete /\ Destinations(s) # {} THEN ExchangeViaTop(s)
       ELSE IF incomplete /\ IsExtra(s, Top(s)) THEN Pop(s)
       ELSE IF CanPush(s) THEN Pushed(s)
       ELSE SpillTop(s)

MustCleanUp(s) == Len(s.stack) > Len(s.target)

StartShuffle(s, target) ==
    Completed([stack |-> s.stack, spilled |-> s.spilled, code |-> s.code, alloc |-> s.alloc,
               panic |-> s.panic, target |-> target, complete |-> 0])

-----------------------------------------------------------------------------
VARIABLES
    prog,      \* the program
    stage,     \* where the scheduler is
    block,     \* the block being scheduled
    layouts,   \* LayoutsTracker
    effects,   \* FunctionEffects
    graph,     \* the OpGraph of the block
    done,      \* its nodes that are complete
    node,      \* the one being scheduled
    s,         \* the stack, with the state of the algorithm at work on it
    steps,     \* the steps that algorithm has made
    nextAlloc, \* the next static allocation
    code       \* the stack operations of the blocks finished

vars == <<prog, stage, block, layouts, effects, graph, done, node, s, steps, nextAlloc, code>>

NoGraph == [inputs |-> 0, nodes |-> <<>>, end |-> <<>>, preds |-> <<>>, broken |-> FALSE]

SchedulingInit ==
    /\ stage = "start"
    /\ block = 1
    /\ layouts = None /\ effects = None
    /\ graph = NoGraph /\ done = {} /\ node = 0
    /\ s = NewStack(<<>>, 0)
    /\ steps = 0 /\ nextAlloc = 0
    /\ code = <<>>

MakeLayouts ==
    /\ stage = "start"
    /\ layouts' = Layouts(prog)
    /\ effects' = FunctionEffects(prog)
    /\ stage' = "blocks"
    /\ UNCHANGED <<prog, block, graph, done, node, s, steps, nextAlloc, code>>

(* A block without a layout is not reached. *)
SkipBlock ==
    /\ stage = "blocks" /\ block \in BlockIds(prog) /\ block \notin DOMAIN layouts.input
    /\ block' = block + 1
    /\ UNCHANGED <<prog, stage, layouts, effects, graph, done, node, s, steps, nextAlloc, code>>

BeginBlock ==
    /\ stage = "blocks" /\ block \in DOMAIN layouts.input
    /\ graph' = Graph(prog, block, layouts, effects)
    /\ stage' = IF graph'.broken THEN "panic" ELSE "operations"
    /\ done' = {}
    /\ s' = NewStack([i \in 1 .. graph'.inputs |-> i], nextAlloc)
    /\ UNCHANGED <<prog, block, layouts, effects, node, steps, nextAlloc, code>>

(* collect_next_completable_into *)
Completable(g, d) == {k \in DOMAIN g.nodes \ d : g.preds[k] \subseteq d}

HasDuplicates(seq) == Cardinality(ToSet(seq)) # Len(seq)

BeginOperation ==
    /\ stage = "operations" /\ Completable(graph, done) # {}
    /\ node' = Min(Completable(graph, done))
    /\ s' = Prepare(s, graph, done, graph.nodes[node'])
    /\ steps' = 0
    /\ stage' = IF HasDuplicates(s.stack) THEN "panic" ELSE "operands"
    /\ UNCHANGED <<prog, block, layouts, effects, graph, done, nextAlloc, code>>

PrepareOperands ==
    /\ stage = "operands" /\ s.status = "working"
    /\ s' = Progress(s)
    /\ steps' = steps + 1
    /\ stage' = IF s'.panic \/ steps' > StepLimit THEN "panic" ELSE stage
    /\ UNCHANGED <<prog, block, layouts, effects, graph, done, node, nextAlloc, code>>

EndOperation ==
    /\ stage = "operands" /\ s.status = "complete"
    /\ s' = Execute(s, graph.nodes[node])
    /\ done' = done \cup {node}
    /\ stage' = IF s'.panic THEN "panic" ELSE "operations"
    /\ UNCHANGED <<prog, block, layouts, effects, graph, node, steps, nextAlloc, code>>

(* After the last operation, unless it ends the execution. *)
BeginShuffle ==
    /\ stage = "operations" /\ Completable(graph, done) = {}
    /\ IF prog.blocks[block].ctl = LastOpTerminates
       THEN stage' = "end" /\ UNCHANGED s
       ELSE stage' = "shrink" /\ s' = StartShuffle(s, graph.end)
    /\ steps' = 0
    /\ UNCHANGED <<prog, block, layouts, effects, graph, done, node, nextAlloc, code>>

Shuffle(from, to, Continues(_), Step(_)) ==
    /\ stage = from
    /\ IF Continues(s)
       THEN /\ s' = Step(s)
            /\ steps' = steps + 1
            /\ stage' = IF s'.panic \/ steps' > StepLimit THEN "panic" ELSE stage
       ELSE stage' = to /\ steps' = 0 /\ UNCHANGED s
    /\ UNCHANGED <<prog, block, layouts, effects, graph, done, node, nextAlloc, code>>

Shrink == Shuffle("shrink", "grow", MustShrink, LAMBDA x : Completed(Shrunk(x)))
Grow == Shuffle("grow", "cleanup", MustGrow, LAMBDA x : Completed(Grown(x)))
CleanUp == Shuffle("cleanup", "end", MustCleanUp, Pop)

EndBlock ==
    /\ stage = "end"
    /\ code' = code @@ (block :> s.code)
    /\ nextAlloc' = nextAlloc + Len(s.spilled)
    /\ block' = block + 1
    /\ stage' = "blocks"
    /\ UNCHANGED <<prog, layouts, effects, graph, done, node, s, steps>>

Finish ==
    /\ stage = "blocks" /\ block = Len(prog.blocks) + 1
    /\ stage' = "done"
    /\ UNCHANGED <<prog, block, layouts, effects, graph, done, node, s, steps, nextAlloc, code>>

SchedulingNext ==
    MakeLayouts \/ SkipBlock \/ BeginBlock \/ BeginOperation \/ PrepareOperands \/ EndOperation
    \/ BeginShuffle \/ Shrink \/ Grow \/ CleanUp \/ EndBlock \/ Finish
=============================================================================

------------------------------ MODULE StackOps ------------------------------
(***************************************************************************)
(* The stack while a block is scheduled (stack-scheduling/src/stack.rs)    *)
(* and the two algorithms that rearrange it: greedy_intra_op_scheduler     *)
(* brings the operands of an operation to the top, greedy_shuffler makes   *)
(* the stack that the block must leave.                                    *)
(*                                                                         *)
(* `stack` has its top first.  Spilled values are kept by the number of    *)
(* their slot, and `code` is what has been emitted.                        *)
(***************************************************************************)
EXTENDS OpGraph

CONSTANTS
    MaxSwapDepth,    \* 16 in the code, whose duplicates reach one less far
    PathsBudget,     \* PERMUTE_PATHS_BUDGET: 100 in the code
    StepLimit        \* SCHEDULE_MAX_STEPS and LIMIT: 100 000 in the code

ASSUME StackAssumption ==
    MaxSwapDepth \in Nat \ {0} /\ PathsBudget \in Nat \ {0} /\ StepLimit \in Nat

MaxDupDepth == MaxSwapDepth - 1

(* TrackedStack *)
NewStack(stack, alloc) ==
    [stack |-> stack, spilled |-> <<>>, code |-> <<>>, alloc |-> alloc, panic |-> FALSE]

Top(s) == Head(s.stack)
Emit(s, op) == [s EXCEPT !.code = Append(@, op)]
Panicked(s) == [s EXCEPT !.panic = TRUE]

Pop(s) == Emit([s EXCEPT !.stack = Tail(@)], <<"pop">>)
Swap(s, d) == Emit([s EXCEPT !.stack[1] = s.stack[d + 1], !.stack[d + 1] = s.stack[1]], <<"swap", d>>)
Dup(s, d) == Emit([s EXCEPT !.stack = <<s.stack[d + 1]>> \o @], <<"dup", d>>)
SpillTop(s) ==
    Emit([s EXCEPT !.stack = Tail(@), !.spilled = Append(@, Top(s))],
         <<"store", s.alloc + Len(s.spilled)>>)

(* Mutation: the slot of the first value that was spilled. *)
SlotOf_First(s, v) == 1

IsSpilled(s, v) == v \in ToSet(s.spilled)
SlotOf(s, v) == Max({i \in DOMAIN s.spilled : s.spilled[i] = v})
Unspill(s, v) ==
    IF IsSpilled(s, v)
    THEN Emit([s EXCEPT !.stack = <<v>> \o @], <<"load", s.alloc + SlotOf(s, v) - 1>>)
    ELSE Panicked(s)

(* Its operands must be on top, in order. *)
Execute(s, node) ==
    LET n == Len(node.ins)
    IN IF n <= Len(s.stack) /\ SubSeq(s.stack, 1, n) = node.ins
       THEN Emit([s EXCEPT !.stack = node.outs \o SubSeq(@, n + 1, Len(@))], <<node.kind, node.op>>)
       ELSE Panicked(s)

-----------------------------------------------------------------------------
(* best_permute: swaps that bring as many values of the head of the stack  *)
(* as possible to their places.  A value that the operation does not need, *)
(* or one that a copy of remains, may go anywhere in the tail: 0.          *)
InTail == 0
PlaceOf(target, i) == IF i <= Len(target) THEN target[i] ELSE InTail

ExchangeTop(current, i, top) == [current EXCEPT ![1] = current[i], ![i] = top]

(* A swap that puts the top where it belongs, or one that gives up a top   *)
(* in place for a value that has another place to go to.                   *)
MakesProgress(target, current, preserve, allowTop, i) ==
    LET top == current[1]
        have == current[i]
        want == PlaceOf(target, i)
        HasPlace ==
            \E j \in 2 .. Len(current) :
                /\ \/ PlaceOf(target, j) = have
                   \/ PlaceOf(target, j) = InTail /\ have \in preserve
                /\ PlaceOf(target, j) # current[j]
    IN /\ have # want /\ have # top
       /\ IF top = PlaceOf(target, 1) THEN allowTop /\ HasPlace
          ELSE top = want \/ (top \in preserve /\ want = InTail)

Better(fixed, path, best) ==
    fixed > best.fixed \/ (fixed = best.fixed /\ Len(path) < Len(best.path))

(* expand_states: depth first, until `budget` paths have ended. *)
RECURSIVE Expand(_, _, _, _, _, _, _)
Expand(target, allowTop, acc, current, preserve, path, fixed) ==
    LET top == current[1]
        inPlace == top = PlaceOf(target, 1)
        steps == {i \in 2 .. Len(current) : MakesProgress(target, current, preserve, allowTop, i)}
        Released(i) == top \in preserve /\ PlaceOf(target, i) = InTail
        Fixed(i) == fixed + (IF current[i] = PlaceOf(target, 1) THEN 1 ELSE 0)
                          - (IF inPlace THEN 1 ELSE 0)
                          + (IF top = PlaceOf(target, i) \/ Released(i) THEN 1 ELSE 0)
        Follow(a, i) ==
            IF a.budget = 0 THEN a
            ELSE Expand(target, allowTop, a,
                        ExchangeTop(current, i, IF Released(i) THEN InTail ELSE top),
                        IF Released(i) THEN preserve \ {top} ELSE preserve, Append(path, i), Fixed(i))
        wanted == IF inPlace THEN {}
                  ELSE {i \in 2 .. Min({Len(current), Len(target)}) :
                           current[i] # target[i] /\ current[i] = target[1]}
        Fetch(a, i) ==
            IF a.budget = 0 THEN a
            ELSE Expand(target, allowTop, a, ExchangeTop(current, i, top), preserve,
                        Append(path, i), fixed + 1)
        Ascending(S) == SetToSortSeq(S, LAMBDA x, y : x < y)
    IN CASE steps # {} -> FoldLeft(Follow, acc, Ascending(steps))
         [] steps = {} /\ wanted # {} -> FoldLeft(Fetch, acc, Ascending(wanted))
         [] OTHER -> [best |-> IF Better(fixed, path, acc.best) THEN [fixed |-> fixed, path |-> path]
                               ELSE acc.best,
                      budget |-> acc.budget - 1]

(* The depths of the swaps. *)
BestPermute(s, allowTop) ==
    LET target == SubSeq(s.target, Len(s.target) - s.head + 1, Len(s.target))
        Place(i) ==
            IF i <= s.head
            THEN IF s.stack[i] # target[i] /\ s.stack[i] \notin ToSet(s.target) THEN InTail ELSE s.stack[i]
            ELSE IF s.stack[i] \in s.lastUses THEN s.stack[i] ELSE InTail
        current == [i \in DOMAIN s.stack |-> Place(i)]
        fixed == IF current[1] = target[1] THEN 1 ELSE 0
        found == Expand(target, allowTop, [best |-> [fixed |-> fixed, path |-> <<>>], budget |-> PathsBudget],
                        current, ToSet(s.preserve), <<>>, fixed)
    IN [i \in DOMAIN found.best.path |-> found.best.path[i] - 1]

-----------------------------------------------------------------------------
(* GreedyOperandPreparer: the top `head` values are to become the operands *)
(* (`target`), together with copies of those in `push`; `preserve` are     *)
(* values in the head that are needed later on as well.  `status` is       *)
(* "working" or "complete", and `again` while a step has had to spill.     *)
SwapRemove(seq, i) == IF i = Len(seq) THEN Front(seq) ELSE [Front(seq) EXCEPT ![i] = Last(seq)]
FirstIndex(seq, v) == CHOOSE i \in DOMAIN seq : seq[i] = v /\ \A j \in 1 .. i - 1 : seq[j] # v
Without(seq, v) == IF v \in ToSet(seq) THEN SwapRemove(seq, FirstIndex(seq, v)) ELSE seq

Prepare(s, g, done, node) ==
    LET target == node.ins
        lastUses == SelectSeq(s.stack, LAMBDA v : IsLastUse(g, done, v) /\ v \in ToSet(target))
        head == Len(lastUses)
        Rest(values, v) == RemoveAt(values, FirstIndex(values, v))
    IN [head |-> head, target |-> target, lastUses |-> ToSet(lastUses),
        preserve |-> SelectSeq(SubSeq(s.stack, 1, head),
                               LAMBDA v : v \in ToSet(target) /\ v \notin ToSet(lastUses)),
        push |-> Reverse(FoldLeft(Rest, target, lastUses)),
        status |-> "working", again |-> FALSE,
        stack |-> s.stack, spilled |-> s.spilled, code |-> s.code, alloc |-> s.alloc, panic |-> s.panic]

(* The head reaches one value further down when one of it is gone. *)
Promote(s) ==
    IF s.head = 0 THEN s
    ELSE IF s.head > Len(s.stack) THEN Panicked(s)
    ELSE LET promoted == s.stack[s.head]
         IN IF promoted \notin s.lastUses /\ promoted \in ToSet(s.target)
            THEN [s EXCEPT !.preserve = Append(@, promoted)] ELSE s

SpillOperand(s) ==
    LET v == Top(s)
        spilled == IF IsSpilled(s, v) THEN Pop(s) ELSE SpillTop(s)
    IN IF s.stack = <<>> THEN Panicked(s)
       ELSE IF s.head = 0 \/ v \notin ToSet(s.target) THEN Promote(spilled)
       ELSE IF v \in ToSet(s.preserve) THEN Promote([spilled EXCEPT !.preserve = Without(@, v)])
       ELSE [spilled EXCEPT !.push = Append(@, v), !.head = @ - 1]

Repeat(Act(_), s, n) == FoldLeft(LAMBDA acc, i : Act(acc), s, [i \in 1 .. n |-> i])

TrySwap(s, d) ==
    IF s.again THEN s
    ELSE IF d > MaxSwapDepth THEN [Repeat(SpillOperand, s, d + 1) EXCEPT !.again = TRUE]
    ELSE Swap([s EXCEPT !.preserve = IF s.head <= d THEN Without(@, Top(s)) ELSE @], d)

TrySwaps(s, depths) == FoldLeft(TrySwap, s, depths)

Depth(s, v) == FirstIndex(s.stack, v) - 1
OnStack(s, v) == v \in ToSet(s.stack)

TryPush(s, v) ==
    IF OnStack(s, v) /\ Depth(s, v) <= MaxDupDepth THEN [Dup(s, Depth(s, v)) EXCEPT !.head = @ + 1]
    ELSE IF IsSpilled(s, v) THEN [Unspill(s, v) EXCEPT !.head = @ + 1]
    ELSE IF ~OnStack(s, v) THEN Panicked(s)
    ELSE LET near == Repeat(SpillOperand, s, Depth(s, v) - MaxDupDepth)
         IN IF near.panic THEN near
            ELSE [Dup(near, MaxDupDepth) EXCEPT !.head = @ + 1, !.again = TRUE]

(* How urgent it is to push v: the lowest operand that lacks it. *)
LackingAt(s, v) ==
    LET delta == Len(s.target) - s.head
    IN {i \in DOMAIN s.target : s.target[i] = v /\ (i <= delta \/ s.stack[i - delta] # v)}
Urgency(s, v) == IF v \in ToSet(s.preserve) THEN Len(s.target) ELSE Max(LackingAt(s, v)) - 1

PushNext(s) ==
    IF s.push = <<>> \/ \E v \in ToSet(s.push) : v \notin ToSet(s.preserve) /\ LackingAt(s, v) = {}
    THEN Panicked(s)
    ELSE LET most == Max({Urgency(s, v) : v \in ToSet(s.push)})
             i == Max({j \in DOMAIN s.push : Urgency(s, s.push[j]) = most})
         IN TryPush([s EXCEPT !.push = SwapRemove(@, i)], s.push[i])

OperandsReady(s) ==
    s.head = Len(s.target) /\ \A i \in 1 .. Min({s.head, Len(s.stack)}) : s.stack[i] = s.target[i]

(* progress: one step of the preparation. *)
Progress(s0) ==
    LET s == [s0 EXCEPT !.again = FALSE]
        improving == IF s.head > 0 /\ Top(s) # s.target[Len(s.target) - s.head + 1]
                     THEN BestPermute(s, FALSE) ELSE <<>>
        permuted == TrySwaps(s, BestPermute(s, TRUE))
    IN CASE s.head > Len(s.stack) -> Panicked(s)
         [] s.head <= Len(s.stack) /\ OperandsReady(s) -> [s EXCEPT !.status = "complete"]
         [] s.head <= Len(s.stack) /\ ~OperandsReady(s) ->
               IF improving # <<>> THEN TrySwaps(s, improving)
               ELSE IF s.head < Len(s.target) THEN PushNext(s)
               ELSE IF permuted.again THEN permuted
               ELSE [permuted EXCEPT !.status = "complete"]
=============================================================================

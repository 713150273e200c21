---------------------------- MODULE SirAnalyses ----------------------------
(***************************************************************************)
(* The analyses of SIR programs (passes/src/analyses).                     *)
(***************************************************************************)
EXTENDS Sir, TLC

(* ReversePostOrder: `blocks` of each function visited, and `functions`. *)
RECURSIVE VisitFunction(_, _, _), VisitBlock(_, _, _, _)

VisitFunction(p, rpo, f) ==
    IF f \in DOMAIN rpo.blocks THEN rpo
    ELSE LET visited == VisitBlock(p, [rpo EXCEPT !.blocks = @ @@ (f :> <<>>)], f, Entry(p, f))
         IN [visited EXCEPT !.functions = <<f>> \o @]

VisitBlock(p, rpo, f, b) ==
    IF b \in rpo.visited THEN rpo
    ELSE LET Call(r, o) == IF IsCall(o) THEN VisitFunction(p, r, o.val) ELSE r
             Follow(r, to) == VisitBlock(p, r, f, to)
             called == FoldLeft(Call, [rpo EXCEPT !.visited = @ \cup {b}], OpsOf(p, b))
         IN [FoldLeft(Follow, called, Successors(p, b)) EXCEPT !.blocks[f] = <<b>> \o @]

NoOrder == [visited |-> {}, blocks |-> <<>>, functions |-> <<>>]

ReversePostOrder(p) ==
    LET init == VisitFunction(p, NoOrder, p.init)
    IN IF p.main = None THEN init ELSE VisitFunction(p, init, p.main)

BlocksRpo(rpo) == FlattenSeq([i \in 1 .. Len(rpo.functions) |-> rpo.blocks[rpo.functions[i]]])

(* What can be reached from a set along edges: next gives the successors. *)
RECURSIVE Reached(_, _)
Reached(next, from) ==
    LET more == from \cup UNION {next[x] : x \in from}
    IN IF more = from THEN from ELSE Reached(next, more)

Cfg(p) == [b \in BlockIds(p) |-> ToSet(Successors(p, b))]

(* ReachableBlocks *)
ReachableBlocks(rpo) == ToSet(BlocksRpo(rpo))

(* Predecessors: once per edge, in the order of the blocks. *)
Predecessors(p, reach) ==
    LET Edges(b, to) == [i \in 1 .. Len(SelectSeq(Successors(p, b), LAMBDA t : t = to)) |-> b]
    IN [to \in BlockIds(p) |->
           FlattenSeq([b \in BlockIds(p) |-> IF b \in reach THEN Edges(b, to) ELSE <<>>])]

(* Dominators: the immediate dominator of each block in order; an entry is *)
(* its own.                                                                *)

RECURSIVE Intersect(_, _, _, _)
Intersect(idom, position, b, c) ==
    IF b = c THEN b
    ELSE IF position[b] > position[c] THEN Intersect(idom, position, idom[b], c)
    ELSE Intersect(idom, position, b, idom[c])

Positions(order) == [b \in ToSet(order) |-> CHOOSE i \in 1 .. Len(order) : order[i] = b]

(* One sweep over the blocks of a function but its entry. *)
Sweep(preds, order, idom) ==
    LET Visit(dom, b) ==
            LET known == SelectSeq(preds[b], LAMBDA q : q \in DOMAIN dom)
                Common(d, q) == Intersect(dom, Positions(order), q, d)
            IN (b :> FoldLeft(Common, Head(known), Tail(known))) @@ dom
    IN FoldLeft(Visit, idom, Tail(order))

(* Mutation: one sweep is taken to be enough. *)
Settled_FirstSweep(preds, order, idom) == Sweep(preds, order, idom)

RECURSIVE Settled(_, _, _)
Settled(preds, order, idom) ==
    LET next == Sweep(preds, order, idom)
    IN IF next = idom THEN idom ELSE Settled(preds, order, next)

FunctionDominators(preds, order) == Settled(preds, order, Head(order) :> Head(order))

Dominators(rpo, preds) ==
    FoldLeft(LAMBDA idom, f : idom @@ FunctionDominators(preds, rpo.blocks[f]), <<>>, rpo.functions)

(* DefUse *)
Use(block, kind, at) == [block |-> block, kind |-> kind, at |-> at]

DefUse(p, rpo) ==
    LET Occurs(seq, l) == Len(SelectSeq(seq, LAMBDA x : x = l))
        OpUses(b, l) ==
            FlattenSeq([k \in 1 .. Len(p.blocks[b].ops) |->
                LET op == p.blocks[b].ops[k]
                IN [i \in 1 .. Occurs(p.ops[op].ins, l) |-> Use(b, "opUse", op)]])
        ControlUses(b, l) == IF l \in Condition(p.blocks[b].ctl) THEN <<Use(b, "controlUse", 0)>> ELSE <<>>
        OutputUses(b, l) ==
            FlattenSeq([i \in 1 .. Len(p.blocks[b].outs) |->
                IF p.blocks[b].outs[i] = l THEN <<Use(b, "outputUse", i)>> ELSE <<>>])
        order == BlocksRpo(rpo)
    IN [l \in Locals(p) |->
           FlattenSeq([i \in 1 .. Len(order) |->
               OpUses(order[i], l) \o ControlUses(order[i], l) \o OutputUses(order[i], l)])]

-----------------------------------------------------------------------------
(* What the legalizer accepts (legalizer.rs).  The checks run in the order *)
(* of the conjuncts of Legal, each relying on those before it; the first   *)
(* that fails decides.                                                     *)
Never(p, f) == p.functions[f].returns = None
InputsOf(p, f) == Len(p.blocks[Entry(p, f)].ins)
Terminates(o) == o.op \in {"stop", "invalid", "never"}
Defined(p, b) == p.blocks[b].ins \o FlattenSeq([i \in 1 .. Len(p.blocks[b].ops) |-> OpsOf(p, b)[i].outs])

EntryPointsAreValid(p) ==
    \A f \in {p.init, p.main} \ {None} : Never(p, f) /\ InputsOf(p, f) = 0

TerminatorsAreValid(p, b) ==
    LET ops == OpsOf(p, b)
    IN /\ p.blocks[b].ctl = LastOpTerminates => ops # <<>> /\ Terminates(Last(ops))
       /\ \A i \in 1 .. Len(ops) :
             Terminates(ops[i]) => i = Len(ops) /\ p.blocks[b].ctl = LastOpTerminates

CallsMatchReturns(p, b) ==
    \A o \in ToSet(OpsOf(p, b)) : IsCall(o) => (o.op = "never" <=> Never(p, o.val))

OperationsAreDisjoint(p) ==
    \A b, c \in BlockIds(p) : b # c => ToSet(p.blocks[b].ops) \cap ToSet(p.blocks[c].ops) = {}

BlocksAreValid(p) ==
    /\ IsProgram(p)
    /\ \A b \in BlockIds(p) : TerminatorsAreValid(p, b) /\ CallsMatchReturns(p, b)
    /\ OperationsAreDisjoint(p)

Body(p, f) == Reached(Cfg(p), {Entry(p, f)})

(* A block as a part of function f. *)
BlockFits(p, f, b) ==
    LET block == p.blocks[b]
    IN /\ block.ctl = InternalReturn => Len(block.outs) = p.functions[f].returns
       /\ \A o \in ToSet(OpsOf(p, b)) : IsCall(o) => Len(o.ins) = InputsOf(p, o.val)
       /\ \A to \in Cfg(p)[b] : Len(block.outs) = Len(p.blocks[to].ins)

CfgIsValid(p, functions) ==
    /\ \A f \in functions : \A b \in Body(p, f) : BlockFits(p, f, b)
    /\ \A f, g \in functions : f # g => Body(p, f) \cap Body(p, g) = {}

Callees(p, f) ==
    {o.val : o \in {o \in UNION {ToSet(OpsOf(p, b)) : b \in Body(p, f)} : IsCall(o)}}

CallsAreAcyclic(p, functions) ==
    LET calls == [f \in functions |-> Callees(p, f)]
    IN \A f \in functions : f \notin Reached(calls, calls[f])

IsSingleAssignment(p, order) ==
    LET defs == FlattenSeq([i \in 1 .. Len(order) |-> Defined(p, order[i])])
    IN \A i, j \in 1 .. Len(defs) : defs[i] = defs[j] => i = j

(* What block b uses after its first n operations and the inputs before. *)
UsesOf(p, b, n) ==
    IF n < Len(p.blocks[b].ops) THEN ToSet(OpsOf(p, b)[n + 1].ins)
    ELSE ToSet(p.blocks[b].outs) \cup Condition(p.blocks[b].ctl)

DefinedBefore(p, b, n) ==
    ToSet(p.blocks[b].ins) \cup UNION {ToSet(OpsOf(p, b)[i].outs) : i \in 1 .. n}

(* Locals are in scope below their definition in the tree of dominators.   *)
ScopesAreValid(p, idom) ==
    LET above[b \in DOMAIN idom] ==
            IF idom[b] = b THEN {} ELSE above[idom[b]] \cup ToSet(Defined(p, idom[b]))
    IN \A b \in DOMAIN idom : \A n \in 0 .. Len(p.blocks[b].ops) :
          UsesOf(p, b, n) \subseteq above[b] \cup DefinedBefore(p, b, n)

-----------------------------------------------------------------------------
(* What scopes stand for.  The blocks of f that an execution may enter     *)
(* while local l is not set:                                                  *)
EnteredWithout(p, f, l) ==
    LET next == [b \in BlockIds(p) |-> IF l \in ToSet(Defined(p, b)) THEN {} ELSE Cfg(p)[b]]
    IN Reached(next, {Entry(p, f)})

(* No path leads to a use of a local around all its definitions.           *)
UsesAreDefined(p, f) ==
    \A b \in Body(p, f) : \A n \in 0 .. Len(p.blocks[b].ops) :
        \A l \in UsesOf(p, b, n) \ DefinedBefore(p, b, n) : b \notin EnteredWithout(p, f, l)

-----------------------------------------------------------------------------
(* With the order and the dominators of the store. *)
Legal(p, rpo, idom) ==
    /\ EntryPointsAreValid(p)
    /\ BlocksAreValid(p)
    /\ CfgIsValid(p, ToSet(rpo.functions))
    /\ CallsAreAcyclic(p, ToSet(rpo.functions))
    /\ IsSingleAssignment(p, BlocksRpo(rpo))
    /\ ScopesAreValid(p, idom)

IsLegal(p) ==
    LET rpo == ReversePostOrder(p)
    IN Legal(p, rpo, Dominators(rpo, Predecessors(p, ReachableBlocks(rpo))))

-----------------------------------------------------------------------------
(* Only function entries have inputs and returning blocks outputs.         *)
IsPreSsa(p, f, visited) ==
    \A b \in visited :
        /\ b # Entry(p, f) => p.blocks[b].ins = <<>>
        /\ p.blocks[b].ctl # InternalReturn => p.blocks[b].outs = <<>>

(* Programs as the lowering from MIR makes them: locals are written several *)
(* times, never read before, and what is handed over at calls is all that  *)
(* is asked for.                                                           *)
IsLowered(p) ==
    LET functions == ToSet(ReversePostOrder(p).functions)
    IN /\ EntryPointsAreValid(p) /\ BlocksAreValid(p) /\ CallsAreAcyclic(p, functions)
       /\ \A f \in functions :
             /\ IsPreSsa(p, f, Body(p, f)) /\ UsesAreDefined(p, f)
             /\ \A g \in functions : f # g => Body(p, f) \cap Body(p, g) = {}
             /\ \A b \in Body(p, f) :
                   /\ p.blocks[b].ctl = InternalReturn => Len(p.blocks[b].outs) = p.functions[f].returns
                   /\ \A o \in ToSet(OpsOf(p, b)) : IsCall(o) => Len(o.ins) = InputsOf(p, o.val)
=============================================================================

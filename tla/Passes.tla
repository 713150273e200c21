------------------------------- MODULE Passes -------------------------------
(***************************************************************************)
(* The optimisation passes but SCCP (passes/src/optimizations), as         *)
(* functions of the program and of the analyses they ask the store for.    *)
(* `ok` is FALSE if an assertion or a lookup of the pass fails.            *)
(***************************************************************************)
EXTENDS SirAnalyses

CONSTANT InlineSize   \* DEFAULT_INLINE_SIZE_THRESHOLD

Changed(p) == [prog |-> p, ok |-> TRUE]

(* A map applied where it is defined. *)
Renamed(m, l) == IF l \in DOMAIN m THEN m[l] ELSE l
RenamedAll(m, locals) == [i \in 1 .. Len(locals) |-> Renamed(m, locals[i])]
OnCondition(m, ctl) == IF Condition(ctl) = {} THEN ctl ELSE [ctl EXCEPT !.cond = Renamed(m, @)]

(* The targets of a control in other blocks. *)
Retargeted(ctl, at) ==
    CASE ctl.kind = "goto" -> ContinuesTo(at[ctl.to])
      [] ctl.kind = "branch" -> Branches(ctl.cond, at[ctl.nonZero], at[ctl.zero])
      [] ctl.kind = "switch" ->
            Switch(ctl.cond, [i \in 1 .. Len(ctl.cases) |-> <<ctl.cases[i][1], at[ctl.cases[i][2]]>>],
                   IF ctl.fallback = None THEN None ELSE at[ctl.fallback])
      [] OTHER -> ctl

-----------------------------------------------------------------------------
(* CopyPropagation *)

(* Mutation: the second of two copies in a row stands for its destination. *)
CopyMap_Last(p, b) ==
    LET Insert(m, o) == IF o.op = "copy" THEN (o.ins[1] :> o.outs[1]) @@ m ELSE m
    IN FoldLeft(Insert, <<>>, OpsOf(p, b))

CopyMap(p, b) ==
    LET Insert(m, o) == IF o.op = "copy" THEN (o.outs[1] :> Renamed(m, o.ins[1])) @@ m ELSE m
    IN FoldLeft(Insert, <<>>, OpsOf(p, b))

CopiedOnce(p, b) ==
    LET copies == SelectSeq(OpsOf(p, b), LAMBDA o : o.op = "copy")
    IN \A i, j \in 1 .. Len(copies) : copies[i].outs = copies[j].outs => i = j

PropagateCopies(p, rpo) ==
    LET In(q, b) ==
            LET m == CopyMap(q, b)
                own == ToSet(q.blocks[b].ops)
            IN [q EXCEPT !.ops = [i \in 1 .. Len(q.ops) |->
                                     IF i \in own THEN [q.ops[i] EXCEPT !.ins = RenamedAll(m, @)]
                                     ELSE q.ops[i]],
                         !.blocks[b].outs = RenamedAll(m, @),
                         !.blocks[b].ctl = OnCondition(m, @)]
    IN [prog |-> FoldLeft(In, p, BlocksRpo(rpo)),
        ok |-> \A b \in ReachableBlocks(rpo) : CopiedOnce(p, b)]

-----------------------------------------------------------------------------
(* SwitchPeephole *)

(* A switch with the one case 0 and a fallback is a branch. *)
AsBranch(ctl) ==
    IF ctl.kind = "switch" /\ ctl.fallback # None /\ Len(ctl.cases) = 1 /\ ctl.cases[1][1] = 0
    THEN Branches(ctl.cond, ctl.fallback, ctl.cases[1][2]) ELSE ctl

SimplifySwitches(p, rpo) ==
    Changed([p EXCEPT !.blocks =
                [b \in BlockIds(p) |-> IF b \in ReachableBlocks(rpo)
                                       THEN [p.blocks[b] EXCEPT !.ctl = AsBranch(@)] ELSE p.blocks[b]]])

-----------------------------------------------------------------------------
(* UnusedOperationElimination *)

IsRemovableWhenUnused(o) == o.op \in {"const", "evm", "copy", "balance"} \cup Foldable
IsRemovable(p, uses, op) ==
    IsRemovableWhenUnused(p.ops[op]) /\ \A l \in ToSet(p.ops[op].outs) : uses[l] = <<>>

Noop == Op("noop", <<>>, <<>>, None)

(* Operations of the reachable blocks in the order of the walk. *)
OperationsRpo(p, rpo) ==
    FlattenSeq([i \in 1 .. Len(BlocksRpo(rpo)) |-> p.blocks[BlocksRpo(rpo)[i]].ops])

(* pending is a stack; what only a removed operation has used may follow.  *)
RECURSIVE Eliminated(_, _, _, _)
Eliminated(p, uses, order, pending) ==
    IF pending = <<>> THEN p
    ELSE LET op == Last(pending)
             ins == ToSet(p.ops[op].ins)
             left == [l \in DOMAIN uses |->
                         IF l \in ins THEN SelectSeq(uses[l], LAMBDA u : u.kind # "opUse" \/ u.at # op)
                         ELSE uses[l]]
             freed == SelectSeq(order, LAMBDA def :
                         ToSet(p.ops[def].outs) \cap ins # {} /\ IsRemovable(p, left, def))
         IN IF p.ops[op] = Noop THEN Eliminated(p, uses, order, Front(pending))
            ELSE Eliminated([p EXCEPT !.ops[op] = Noop], left, order, Front(pending) \o freed)

EliminateUnused(p, rpo, uses) ==
    LET order == OperationsRpo(p, rpo)
    IN Changed(Eliminated(p, uses, order, SelectSeq(order, LAMBDA op : IsRemovable(p, uses, op))))

-----------------------------------------------------------------------------
(* BasicBlockMerger *)

FunctionEntries(p, rpo) == {Entry(p, f) : f \in ToSet(rpo.functions)}

Absorbs(p, preds, entries, b) ==
    LET ctl == p.blocks[b].ctl IN ctl.kind = "goto" /\ preds[ctl.to] = <<b>> /\ ctl.to \notin entries

RECURSIVE Chain(_, _, _, _)
Chain(p, preds, entries, b) ==
    IF Absorbs(p, preds, entries, b) THEN <<b>> \o Chain(p, preds, entries, p.blocks[b].ctl.to) ELSE <<b>>

(* The inputs of a block set by copies of what its predecessor hands over. *)
InputCopies(p, from, to) ==
    [i \in 1 .. Len(p.blocks[to].ins) |->
        Op("copy", <<p.blocks[to].ins[i]>>, <<p.blocks[from].outs[i]>>, None)]

(* One edge from old to b becomes an edge from new. *)
ReplacePredecessor(preds, b, old, new) ==
    [preds EXCEPT ![b] = [@ EXCEPT ![CHOOSE i \in 1 .. Len(preds[b]) :
        /\ preds[b][i] = old
        /\ \A j \in 1 .. i - 1 : preds[b][j] # old] = new]]

MergeChain(p, preds, entries, head) ==
    LET chain == Chain(p, preds, entries, head)
        tail == Last(chain)
        ops == FlattenSeq([i \in 1 .. Len(chain) |->
                   OpsOf(p, chain[i])
                   \o (IF i < Len(chain) THEN InputCopies(p, chain[i], chain[i + 1]) ELSE <<>>)])
        cleared == [b \in DOMAIN preds |-> IF b \in ToSet(Tail(chain)) THEN <<>> ELSE preds[b]]
    IN [prog |-> [p EXCEPT !.ops = @ \o ops,
                           !.blocks[head].ops = [i \in 1 .. Len(ops) |-> Len(p.ops) + i],
                           !.blocks[head].outs = p.blocks[tail].outs,
                           !.blocks[head].ctl = p.blocks[tail].ctl],
        preds |-> FoldLeft(LAMBDA pr, b : ReplacePredecessor(pr, b, tail, head),
                           cleared, Successors(p, tail))]

(* The predecessors are edited along with the blocks. *)
MergeBlocks(p, rpo, preds) ==
    LET entries == FunctionEntries(p, rpo)
        Visit(m, b) ==
            IF (m.preds[b] # <<>> \/ b \in entries) /\ Absorbs(m.prog, m.preds, entries, b)
            THEN MergeChain(m.prog, m.preds, entries, b) ELSE m
    IN FoldLeft(Visit, [prog |-> p, preds |-> preds], BlocksRpo(rpo))

-----------------------------------------------------------------------------
(* Inliner *)

(* The calls of f in the order of the walk: the last is inlined first. *)
CallSites(p, rpo) ==
    [f \in FunctionIds(p) |->
        SelectSeq(OperationsRpo(p, rpo), LAMBDA op : IsCall(p.ops[op]) /\ p.ops[op].val = f)]

CallSiteBlocks(p, rpo) ==
    LET sites == {op \in ToSet(OperationsRpo(p, rpo)) : IsCall(p.ops[op])}
    IN [op \in sites |-> CHOOSE b \in ReachableBlocks(rpo) : op \in ToSet(p.blocks[b].ops)]

(* DefaultHeuristic *)
FunctionSize(p, f) ==
    FoldSet(LAMBDA b, size : size + Len(p.blocks[b].ops) + 1, 0, Body(p, f))

ShouldInline(n, f) ==
    LET count == Len(n.sites[f])
    IN count = 1 \/ (count > 1 /\ FunctionSize(n.prog, f) <= InlineSize)

(* BlockRemapper: a copy of blocks under new names.  An internal return    *)
(* becomes a jump to `back`, which is None for a callee that never returns. *)
Empty == [ins |-> <<>>, ops |-> <<>>, outs |-> <<>>, ctl |-> LastOpTerminates]

RemapBlockId(m, b) ==
    IF b \in DOMAIN m.blocks THEN m
    ELSE [m EXCEPT !.prog.blocks = Append(@, Empty), !.work = Append(@, b),
                   !.blocks = (b :> Len(m.prog.blocks) + 1) @@ @]

RemapLocal(m, l) ==
    IF l \in DOMAIN m.locals THEN m
    ELSE [m EXCEPT !.prog.nextLocal = @ + 1, !.locals = (l :> m.prog.nextLocal) @@ @]

LocalsOf(ops) == FlattenSeq([i \in 1 .. Len(ops) |-> ops[i].ins \o ops[i].outs])

(* Mutation: the copies share the locals of the callee. *)
RemapBlock_SameLocals(m, b) ==
    LET block == m.prog.blocks[b]
        ops == OpsOf(m.prog, b)
        placed == FoldLeft(RemapBlockId, m, Outgoing(block.ctl))
    IN [placed EXCEPT
            !.ok = @ /\ (block.ctl = InternalReturn => m.back # None),
            !.prog.ops = @ \o ops,
            !.prog.blocks[m.blocks[b]] =
                [ins |-> block.ins, ops |-> [i \in 1 .. Len(ops) |-> Len(m.prog.ops) + i],
                 outs |-> block.outs,
                 ctl |-> IF block.ctl = InternalReturn THEN ContinuesTo(m.back)
                         ELSE Retargeted(block.ctl, placed.blocks)]]

RemapBlock(m, b) ==
    LET block == m.prog.blocks[b]
        ops == OpsOf(m.prog, b)
        named == FoldLeft(RemapLocal, m, block.ins \o LocalsOf(ops) \o block.outs)
        placed == FoldLeft(RemapBlockId, named, Outgoing(block.ctl))
        Under(locals) == RenamedAll(named.locals, locals)
    IN [placed EXCEPT
            !.ok = @ /\ Condition(block.ctl) \subseteq DOMAIN named.locals
                     /\ (block.ctl = InternalReturn => m.back # None),
            !.prog.ops = @ \o [i \in 1 .. Len(ops) |-> [ops[i] EXCEPT !.ins = Under(@), !.outs = Under(@)]],
            !.prog.blocks[m.blocks[b]] =
                [ins |-> Under(block.ins), ops |-> [i \in 1 .. Len(ops) |-> Len(m.prog.ops) + i],
                 outs |-> Under(block.outs),
                 ctl |-> IF block.ctl = InternalReturn THEN ContinuesTo(m.back)
                         ELSE OnCondition(named.locals, Retargeted(block.ctl, placed.blocks))]]

RECURSIVE Remapped(_)
Remapped(m) ==
    IF m.work = <<>> \/ ~m.ok THEN m
    ELSE Remapped(RemapBlock([m EXCEPT !.work = Front(@)], Last(m.work)))

(* inline_callsite and inline_never_callsite: the block ends before the    *)
(* call and hands the arguments to the copy of the callee; what came after *)
(* the call is a block of its own that takes the results.                  *)
InlineCall(n, f) ==
    LET site == Last(n.sites[f])
        b == n.blocks[site]
        call == n.prog.ops[site]
        block == n.prog.blocks[b]
        at == CHOOSE k \in 1 .. Len(block.ops) : block.ops[k] = site
        after == SubSeq(block.ops, at + 1, Len(block.ops))
        moved == {op \in ToSet(after) : IsCall(n.prog.ops[op])}
        never == call.op = "never"
        join == Len(n.prog.blocks) + 1
        sites == [n.sites EXCEPT ![f] = Front(@)]
        cut == [n.prog EXCEPT
                   !.blocks[b].outs = call.ins,
                   !.blocks[b].ops = SubSeq(@, 1, at - 1),
                   !.blocks = IF never THEN @
                              ELSE Append(@, [ins |-> call.outs, ops |-> after,
                                              outs |-> block.outs, ctl |-> block.ctl])]
        copied == Remapped(RemapBlockId([prog |-> cut, back |-> IF never THEN None ELSE join, ok |-> TRUE,
                                         blocks |-> <<>>, locals |-> <<>>, work |-> <<>>], Entry(cut, f)))
    IN [prog |-> [copied.prog EXCEPT !.blocks[b].ctl = ContinuesTo(copied.blocks[Entry(cut, f)])],
        sites |-> sites,
        blocks |-> [op \in DOMAIN n.blocks \ {site} |-> IF op \in moved THEN join ELSE n.blocks[op]],
        ok |-> /\ n.ok /\ copied.ok
               /\ never => after = <<>> /\ block.ctl = LastOpTerminates
               /\ \A op \in moved : /\ op \in DOMAIN n.blocks /\ n.blocks[op] = b
                                    /\ op \in ToSet(sites[n.prog.ops[op].val])]

RECURSIVE InlineFunction(_, _)
InlineFunction(n, f) ==
    IF n.sites[f] = <<>> \/ ~n.ok THEN n ELSE InlineFunction(InlineCall(n, f), f)

Inline(p, rpo) ==
    LET Visit(n, f) == IF ShouldInline(n, f) THEN InlineFunction(n, f) ELSE n
    IN FoldLeft(Visit, [prog |-> p, sites |-> CallSites(p, rpo), blocks |-> CallSiteBlocks(p, rpo), ok |-> TRUE],
                Reverse(rpo.functions))

-----------------------------------------------------------------------------
(* Defragmenter: the order in which the walk meets blocks, functions and   *)
(* locals is the order of their new names.                                 *)

AppendNew(seq, x) == IF x \in ToSet(seq) THEN seq ELSE Append(seq, x)

(* push_block, with its assertion *)
PushBlock(reach, d, b) ==
    [d EXCEPT !.ok = @ /\ b \in reach, !.scheduled = @ \cup {b},
              !.work = IF b \in d.scheduled THEN @ ELSE Append(@, b)]

DiscoveryOrder(ctl) ==
    CASE ctl.kind = "branch" -> <<ctl.nonZero, ctl.zero>>
      [] ctl.kind = "switch" ->
            (IF ctl.fallback = None THEN <<>> ELSE <<ctl.fallback>>)
            \o [i \in 1 .. Len(ctl.cases) |-> ctl.cases[i][2]]
      [] OTHER -> Outgoing(ctl)

Kept(p, b) == SelectSeq(OpsOf(p, b), LAMBDA o : o # Noop)

EmitBlock(p, reach, d, b) ==
    LET block == p.blocks[b]
        calls == SelectSeq(Kept(p, b), IsCall)
        locals == FoldLeft(AppendNew, d.locals, block.ins \o LocalsOf(Kept(p, b)) \o block.outs)
        functions == FoldLeft(AppendNew, d.functions, [i \in 1 .. Len(calls) |-> calls[i].val])
        emitted == [d EXCEPT !.blocks = Append(@, b), !.locals = locals, !.functions = functions,
                             !.callees = @ \o SubSeq(functions, Len(d.functions) + 1, Len(functions)),
                             !.ok = @ /\ Condition(block.ctl) \subseteq ToSet(locals)]
    IN IF b \notin reach THEN d
       ELSE FoldLeft(LAMBDA e, to : PushBlock(reach, e, to), emitted, DiscoveryOrder(block.ctl))

RECURSIVE EmitBlocks(_, _, _)
EmitBlocks(p, reach, d) ==
    IF d.work = <<>> THEN d
    ELSE EmitBlocks(p, reach, EmitBlock(p, reach, [d EXCEPT !.work = Front(@)], Last(d.work)))

EmitFunction(p, reach, d, f) ==
    IF Entry(p, f) \in ToSet(d.blocks) THEN d
    ELSE EmitBlocks(p, reach, PushBlock(reach, [d EXCEPT !.functions = AppendNew(@, f)], Entry(p, f)))

RECURSIVE EmitFunctions(_, _, _)
EmitFunctions(p, reach, d) ==
    IF d.callees = <<>> THEN d
    ELSE EmitFunctions(p, reach, EmitFunction(p, reach, [d EXCEPT !.callees = Front(@)], Last(d.callees)))

(* patch_block_control: equal targets make a jump. *)
Patched(ctl, at, local) ==
    LET patched == OnCondition(local, Retargeted(ctl, at))
    IN IF ctl.kind = "branch" /\ patched.nonZero = patched.zero THEN ContinuesTo(patched.zero) ELSE patched

(* The program under its new names. *)
Defragmented(p, d) ==
    LET block == Positions(d.blocks)
        function == Positions(d.functions)
        local == Positions(d.locals)
        Copied(o) == [o EXCEPT !.ins = RenamedAll(local, @), !.outs = RenamedAll(local, @),
                               !.val = IF IsCall(o) THEN function[@] ELSE @]
        ops == [i \in 1 .. Len(d.blocks) |->
                   [k \in 1 .. Len(Kept(p, d.blocks[i])) |-> Copied(Kept(p, d.blocks[i])[k])]]
        before(i) == Len(FlattenSeq(SubSeq(ops, 1, i - 1)))
    IN [id |-> p.id, init |-> function[p.init],
        main |-> IF p.main = None THEN None ELSE function[p.main],
        functions |-> [i \in 1 .. Len(d.functions) |->
            [p.functions[d.functions[i]] EXCEPT !.entry = block[@]]],
        nextLocal |-> Len(d.locals) + 1,
        ops |-> FlattenSeq(ops),
        blocks |-> [i \in 1 .. Len(d.blocks) |->
            LET old == p.blocks[d.blocks[i]]
            IN [ins |-> RenamedAll(local, old.ins), outs |-> RenamedAll(local, old.outs),
                ops |-> [k \in 1 .. Len(ops[i]) |-> before(i) + k],
                ctl |-> Patched(old.ctl, block, local)]]]

Defragment(p, reach) ==
    LET d == EmitFunctions(p, reach,
                 [blocks |-> <<>>, functions |-> <<>>, locals |-> <<>>, scheduled |-> {}, work |-> <<>>, ok |-> TRUE,
                  callees |-> <<p.init>> \o (IF p.main = None THEN <<>> ELSE <<p.main>>)])
    IN [prog |-> IF d.ok THEN Defragmented(p, d) ELSE p, ok |-> d.ok]
=============================================================================

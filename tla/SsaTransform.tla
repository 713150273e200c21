---------------------------- MODULE SsaTransform ---------------------------
(***************************************************************************)
(* Construction of SSA form: PassManager::run_ssa_transform with the       *)
(* transforms of passes/src/transforms.  Critical edges are split, then a  *)
(* function whose entry has predecessors gets a new one, then each block   *)
(* is rewritten in reverse post order.  A block is filled when it has been *)
(* rewritten and sealed when all its predecessors are; a local that is     *)
(* read before it is written becomes an input of the block (a phi), for    *)
(* which every predecessor must hand over an output.  An output that is    *)
(* not known yet, because the predecessor is not filled, is `Missing`.     *)
(***************************************************************************)
EXTENDS SirSemantics, SirAnalyses

VARIABLES
    prog,      \* the program
    stage,     \* split, regularize, fill, legalize; then done or panic
    order,     \* blocks or functions that the stage has yet to visit
    preds,     \* the predecessors computed when the stage began
    enqueued,  \* blocks that PreSSAFunctionEntryRegularizer has met
    ssa        \* SSATransformer: defs, inputs, outputs, filled, unfilled

ssaVars == <<prog, stage, order, preds, enqueued, ssa>>

PredecessorsOf(p) == Predecessors(p, ReachableBlocks(ReversePostOrder(p)))

-----------------------------------------------------------------------------
(* CriticalEdgeSplitting *)

(* The forwarding block takes what the source hands over under new names.  *)
InsertForwardingBlock(p, source, target) ==
    LET n == Len(p.blocks[source].outs)
        locals == [i \in 1 .. n |-> p.nextLocal + i - 1]
    IN [p EXCEPT !.nextLocal = @ + n,
                 !.blocks = Append(@, [ins |-> locals, ops |-> <<>>, outs |-> locals,
                                       ctl |-> ContinuesTo(target)])]

(* The targets of a control in the order in which their edges are split.   *)
SplitOrder(ctl) ==
    CASE ctl.kind = "branch" -> <<ctl.nonZero, ctl.zero>>
      [] ctl.kind = "switch" -> Outgoing(ctl)
      [] OTHER -> <<>>

SplitTargets(p, pr, source) ==
    LET SplitEdge(acc, to) ==
            IF Len(pr[to]) > 1
            THEN LET split == InsertForwardingBlock(acc.prog, source, to)
                 IN [prog |-> split, to |-> Append(acc.to, Len(split.blocks))]
            ELSE [acc EXCEPT !.to = Append(@, to)]
    IN FoldLeft(SplitEdge, [prog |-> p, to |-> <<>>], SplitOrder(p.blocks[source].ctl))

(* Mutation: the fallback of a switch is not split. *)
SplitEdges_NotFallback(p, pr, b) ==
    LET ctl == p.blocks[b].ctl
        split == SplitTargets(p, pr, b)
        retargeted ==
            CASE ctl.kind = "branch" -> Branches(ctl.cond, split.to[1], split.to[2])
              [] ctl.kind = "switch" ->
                    Switch(ctl.cond, [i \in 1 .. Len(ctl.cases) |-> <<ctl.cases[i][1], split.to[i]>>],
                           ctl.fallback)
              [] OTHER -> ctl
    IN [split.prog EXCEPT !.blocks[b].ctl = retargeted]

SplitEdges(p, pr, b) ==
    LET ctl == p.blocks[b].ctl
        split == SplitTargets(p, pr, b)
        retargeted ==
            CASE ctl.kind = "branch" -> Branches(ctl.cond, split.to[1], split.to[2])
              [] ctl.kind = "switch" ->
                    Switch(ctl.cond, [i \in 1 .. Len(ctl.cases) |-> <<ctl.cases[i][1], split.to[i]>>],
                           IF ctl.fallback = None THEN None ELSE Last(split.to))
              [] OTHER -> ctl
    IN [split.prog EXCEPT !.blocks[b].ctl = retargeted]

Split ==
    /\ stage = "split" /\ order # <<>>
    /\ prog' = SplitEdges(prog, preds, Head(order))
    /\ order' = Tail(order)
    /\ UNCHANGED <<stage, preds, enqueued, ssa>>

StartRegularize ==
    /\ stage = "split" /\ order = <<>>
    /\ stage' = "regularize"
    /\ order' = ReversePostOrder(prog).functions
    /\ UNCHANGED <<prog, preds, enqueued, ssa>>

-----------------------------------------------------------------------------
(* PreSSAFunctionEntryRegularizer *)

(* The blocks of function f that no function before it has met. *)
Visited(p, f, met) ==
    LET next == [b \in BlockIds(p) |-> Cfg(p)[b] \ met]
    IN Reached(next, {Entry(p, f)})

(* The new entry takes over the inputs. *)
NewEntry(p, f) ==
    LET entry == Entry(p, f)
        block == [ins |-> p.blocks[entry].ins, ops |-> <<>>, outs |-> <<>>, ctl |-> ContinuesTo(entry)]
    IN [p EXCEPT !.blocks = Append([@ EXCEPT ![entry].ins = <<>>], block),
                 !.functions[f].entry = Len(p.blocks) + 1]

Regularized(p, f, visited) ==
    IF \E b \in visited : Entry(p, f) \in Cfg(p)[b] THEN NewEntry(p, f) ELSE p

RegularizeEntry ==
    /\ stage = "regularize" /\ order # <<>>
    /\ LET f == Head(order)
           visited == Visited(prog, f, enqueued)
       IN /\ enqueued' = enqueued \cup visited
          /\ IF IsPreSsa(prog, f, visited)
             THEN prog' = Regularized(prog, f, visited) /\ UNCHANGED stage
             ELSE stage' = "panic" /\ UNCHANGED prog
    /\ order' = Tail(order)
    /\ UNCHANGED <<preds, ssa>>

StartFill ==
    /\ stage = "regularize" /\ order = <<>>
    /\ stage' = "fill"
    /\ order' = BlocksRpo(ReversePostOrder(prog))
    /\ preds' = PredecessorsOf(prog)
    /\ ssa' = [defs |-> [b \in BlockIds(prog) |-> <<>>],
               inputs |-> [b \in BlockIds(prog) |-> <<>>],
               outputs |-> [b \in BlockIds(prog) |-> <<>>],
               filled |-> {},
               unfilled |-> [b \in BlockIds(prog) |-> Len(preds'[b])],
               next |-> prog.nextLocal]
    /\ UNCHANGED <<prog, enqueued>>

-----------------------------------------------------------------------------
(* SSATransformer *)
Missing(l) == [missing |-> TRUE, local |-> l]
Output(l) == [missing |-> FALSE, local |-> l]

Define(t, b, local, as) == [t EXCEPT !.defs[b] = (local :> as) @@ @]

DefineNew(t, b, local) == [Define(t, b, local, t.next) EXCEPT !.next = @ + 1]

(* Mutation: a block is taken for sealed when one predecessor is filled. *)
Sealed_OnePredecessor(t, b) == t.unfilled[b] <= 1

Sealed(t, b) == t.unfilled[b] = 0

(* read_variable: the local that holds `local` at the end of what is known *)
(* of block b.  If b is sealed all its predecessors are filled.            *)
RECURSIVE ReadVariable(_, _, _, _)
ReadVariable(t, pr, b, local) ==
    LET Supply(acc, pred) ==
            IF Sealed(t, b) \/ pred \in t.filled
            THEN LET read == ReadVariable(acc, pr, pred, local)
                 IN [read.t EXCEPT !.outputs[pred] = Append(@, Output(read.is))]
            ELSE [acc EXCEPT !.outputs[pred] = Append(@, Missing(local))]
        single == ReadVariable(t, pr, pr[b][1], local)
        phi == [DefineNew(t, b, local) EXCEPT !.inputs[b] = Append(@, t.next)]
    IN CASE local \in DOMAIN t.defs[b] -> [t |-> t, is |-> t.defs[b][local]]
         [] local \notin DOMAIN t.defs[b] /\ Sealed(t, b) /\ Len(pr[b]) = 1 ->
                [t |-> Define(single.t, b, local, single.is), is |-> single.is]
         [] OTHER -> [t |-> FoldLeft(Supply, phi, pr[b]), is |-> t.next]

(* Each local of a sequence, in order. *)
ReadAll(t, pr, b, locals) ==
    FoldLeft(LAMBDA acc, l : LET read == ReadVariable(acc.t, pr, b, l)
                             IN [t |-> read.t, is |-> Append(acc.is, read.is)],
             [t |-> t, is |-> <<>>], locals)

DefineAll(t, b, locals) ==
    [t |-> FoldLeft(LAMBDA acc, l : DefineNew(acc, b, l), t, locals),
     is |-> [i \in 1 .. Len(locals) |-> t.next + i - 1]]

RenameOp(acc, pr, b, op) ==
    LET ins == ReadAll(acc.t, pr, b, acc.prog.ops[op].ins)
        outs == DefineAll(ins.t, b, acc.prog.ops[op].outs)
    IN [t |-> outs.t,
        prog |-> [acc.prog EXCEPT !.ops[op].ins = ins.is, !.ops[op].outs = outs.is]]

(* The outputs that were missing when b was not filled. *)
Resolve(t, pr, b) ==
    LET Settle(acc, i) ==
            IF acc.outputs[b][i].missing
            THEN LET read == ReadVariable(acc, pr, b, acc.outputs[b][i].local)
                 IN [read.t EXCEPT !.outputs[b][i] = Output(read.is)]
            ELSE acc
    IN FoldLeft(Settle, t, [i \in 1 .. Len(t.outputs[b]) |-> i])

FilledBlock(p, t, pr, b) ==
    LET inputs == DefineAll(t, b, p.blocks[b].ins)
        Rename(acc, op) == RenameOp(acc, pr, b, op)
        ops == FoldLeft(Rename, [t |-> inputs.t, prog |-> p], p.blocks[b].ops)
        outs == ReadAll(ops.t, pr, b, p.blocks[b].outs)
        hasCondition == Condition(p.blocks[b].ctl) # {}
        cond == ReadVariable(outs.t, pr, b, p.blocks[b].ctl.cond)
        read == IF hasCondition THEN cond.t ELSE outs.t
        renamed == [ops.prog EXCEPT !.blocks[b].ins = inputs.is, !.blocks[b].outs = outs.is]
        FillEdge(unfilled, to) == [unfilled EXCEPT ![to] = @ - 1]
        filled == [read EXCEPT !.filled = @ \cup {b},
                               !.unfilled = FoldLeft(FillEdge, @, Successors(p, b))]
    IN [t |-> Resolve(filled, pr, b),
        prog |-> IF hasCondition THEN [renamed EXCEPT !.blocks[b].ctl.cond = cond.is] ELSE renamed]

FillBlock ==
    /\ stage = "fill" /\ order # <<>>
    /\ LET filled == FilledBlock(prog, ssa, preds, Head(order))
       IN /\ ssa' = filled.t
          /\ prog' = [filled.prog EXCEPT !.nextLocal = filled.t.next]
    /\ order' = Tail(order)
    /\ UNCHANGED <<stage, preds, enqueued>>

(* At last the phis become inputs and outputs of the blocks. *)
Finish ==
    /\ stage = "fill" /\ order = <<>>
    /\ LET reachable == ReachableBlocks(ReversePostOrder(prog))
           Phis(b) == [i \in 1 .. Len(ssa.outputs[b]) |-> ssa.outputs[b][i].local]
       IN IF \E b \in reachable : \E out \in ToSet(ssa.outputs[b]) : out.missing
          THEN stage' = "panic" /\ UNCHANGED prog
          ELSE /\ stage' = "legalize"
               /\ prog' = [prog EXCEPT !.blocks =
                      [b \in BlockIds(prog) |->
                          IF b \in reachable
                          THEN [@[b] EXCEPT !.ins = @ \o ssa.inputs[b], !.outs = @ \o Phis(b)]
                          ELSE @[b]]]
    /\ UNCHANGED <<order, preds, enqueued, ssa>>

Legalize ==
    /\ stage = "legalize"
    /\ stage' = IF IsLegal(prog) THEN "done" ELSE "panic"
    /\ UNCHANGED <<prog, order, preds, enqueued, ssa>>

SsaNext ==
    Split \/ StartRegularize \/ RegularizeEntry \/ StartFill \/ FillBlock \/ Finish \/ Legalize

-----------------------------------------------------------------------------
(* What the construction of SSA form promises, for programs as the         *)
(* lowering from MIR makes them: locals are written several times, and     *)
(* only function entries have inputs and returning blocks outputs.         *)
CONSTANT Programs

VARIABLE original   \* the program before the transform

allVars == <<ssaVars, original>>

ASSUME ProgramsAssumption == \A p \in Programs : IsLowered(p)

SsaInit ==
    /\ original \in Programs
    /\ prog = original
    /\ stage = "split"
    /\ order = BlocksRpo(ReversePostOrder(prog))
    /\ preds = PredecessorsOf(prog)
    /\ enqueued = {}
    /\ ssa = [defs |-> <<>>, inputs |-> <<>>, outputs |-> <<>>, filled |-> {}, unfilled |-> <<>>,
              next |-> prog.nextLocal]

Stopped == stage \in {"done", "panic"} /\ UNCHANGED ssaVars

SsaStep == (SsaNext \/ Stopped) /\ UNCHANGED original

SsaSpec == SsaInit /\ [][SsaStep]_allVars

-----------------------------------------------------------------------------
(* Renaming, phis and forwarding blocks do not change what a program does. *)
ExecutionPreserved ==
    stage = "done" => \A env \in Environments : SameBehaviour(original, prog, env, Steps)

(* Once edges are split and entries regular, a block with several          *)
(* successors is the only predecessor of each: an output added for a phi   *)
(* is never handed to a block that did not ask for it.  The release        *)
(* backend asserts the same of its input.                                  *)
EdgesAreSplit ==
    stage \in {"fill", "legalize", "done"} =>
        LET pr == PredecessorsOf(prog)
        IN \A b \in ReachableBlocks(ReversePostOrder(prog)) :
              Len(Successors(prog, b)) > 1 => \A to \in Cfg(prog)[b] : Len(pr[to]) = 1

(* Between two blocks, every predecessor hands over as many new outputs as *)
(* its successor has phis, and what is missing waits for the predecessor   *)
(* to be filled.                                                           *)
PhisAreSupplied ==
    stage = "fill" =>
        \A b \in ReachableBlocks(ReversePostOrder(prog)) :
            /\ \A q \in ToSet(preds[b]) : Len(ssa.outputs[q]) = Len(ssa.inputs[b])
            /\ b \in ssa.filled => \A out \in ToSet(ssa.outputs[b]) : ~out.missing

(* The assertions of the transforms hold and the legalizer accepts what    *)
(* they make: run_ssa_transform expects "IR is illegal after SSA           *)
(* transform" never to happen.                                             *)
ResultIsLegal == stage # "panic"

(* What one transform does to the program the next can rely on, the        *)
(* legalizer at the end included.                                          *)
HandoversAgree == EdgesAreSplit /\ PhisAreSupplied /\ ResultIsLegal
=============================================================================

-------------------------------- MODULE Sccp --------------------------------
(***************************************************************************)
(* Sparse conditional constant propagation                                 *)
(* (passes/src/optimizations/constant_propagation.rs).                     *)
(*                                                                         *)
(* Two work lists, of blocks found to be reachable and of locals whose     *)
(* value has changed, drive a lattice down to a fixed point.  What a       *)
(* handler of the code still has to do, in its order, is `todo`.           *)
(***************************************************************************)
EXTENDS Sir

Unknown == [kind |-> "unknown", val |-> None]
Overdefined == [kind |-> "over", val |-> None]
Const(w) == [kind |-> "const", val |-> w]
EvmConst(k) == [kind |-> "evm", val |-> k]
LatticeValue == {Unknown, Overdefined} \cup {Const(w) : w \in Word}
                                       \cup {EvmConst(k) : k \in EvmKinds}

VARIABLES
    prog,       \* the program
    functions,  \* functions_rpo
    uses,       \* DefUse: for each local the places where it is used
    lat,        \* lattice
    reachable,  \* the set of the ReachableBlocks analysis
    cfgWork,    \* cfg_worklist
    valueWork,  \* values_worklist
    todo,       \* steps of the running handler, in order
    sccp        \* idle, analysis, done or panic

sccpInputs == <<prog, functions, uses>>
sccpVars == <<sccpInputs, lat, reachable, cfgWork, valueWork, todo, sccp>>

Below(x, y) == x = y \/ x = Overdefined \/ y = Unknown

(* Mutations: two different constants meet in the newer one. *)
Meet_Newer(x, y) == IF Below(x, y) THEN x ELSE y
Meet(x, y) == IF Below(x, y) THEN x ELSE IF Below(y, x) THEN y ELSE Overdefined

(* UseKind *)
UseKinds == {"opUse", "controlUse", "outputUse"}

(* A step: visit operation i of a block (op); look at the edge from -> to  *)
(* (edge); let output i flow along it (flow, and after a test output);     *)
(* lower local i (sink); visit a use of a local.                           *)
Task(kind, from, to, i) == [kind |-> kind, from |-> from, to |-> to, i |-> i]
OpTasks(b) == [i \in 1 .. Len(prog.blocks[b].ops) |-> Task("op", b, b, prog.blocks[b].ops[i])]
EdgeTasks(b) == [i \in 1 .. Len(Successors(prog, b)) |-> Task("edge", b, Successors(prog, b)[i], 0)]
FlowTasks(b, to) ==
    LET ins == Len(prog.blocks[to].ins)
        outs == Len(prog.blocks[b].outs)
    IN [i \in 1 .. (IF ins < outs THEN ins ELSE outs) |-> Task("flow", b, to, i)]
OutputTasks(b, i) ==
    [k \in 1 .. Len(Successors(prog, b)) |-> Task("output", b, Successors(prog, b)[k], i)]
SinkTasks(op) == [i \in 1 .. Len(op.outs) |-> Task("sink", 0, 0, op.outs[i])]
UseTasks(l) == [k \in 1 .. Len(uses[l]) |-> Task(uses[l][k].kind, uses[l][k].block, uses[l][k].block, uses[l][k].at)]

-----------------------------------------------------------------------------
IsConst(l) == lat[l].kind = "const"

Evaluates(op) == op.op \in Foldable /\ \A i \in 1 .. Len(op.ins) : IsConst(op.ins[i])

EdgeReachable(from, to) ==
    LET ctl == prog.blocks[from].ctl
    IN CASE ctl.kind = "goto" -> ctl.to = to
         [] ctl.kind = "branch" ->
               LET v == lat[ctl.cond]
               IN CASE v.kind = "const" -> to = (IF v.val = 0 THEN ctl.zero ELSE ctl.nonZero)
                    [] v.kind = "evm" /\ v.val \in NonZeroKinds -> to = ctl.nonZero
                    [] v.kind = "unknown" -> FALSE
                    [] OTHER -> to \in {ctl.zero, ctl.nonZero}
         [] ctl.kind = "switch" ->
               IsConst(ctl.cond) => to = SwitchTarget(ctl, lat[ctl.cond].val)
         [] OTHER -> FALSE

(* A constant selects no target of the switch, and the code expects one. *)
NoTarget(b) ==
    LET ctl == prog.blocks[b].ctl
    IN ctl.kind = "switch" /\ IsConst(ctl.cond) /\ SwitchTarget(ctl, lat[ctl.cond].val) = None

Flow(l, v) ==
    /\ lat' = [lat EXCEPT ![l] = Meet(@, v)]
    /\ valueWork' = IF Meet(lat[l], v) = lat[l] THEN valueWork ELSE Append(valueWork, l)

NoFlow == UNCHANGED <<lat, valueWork>>

(* evaluate, or all outputs are overdefined. *)
Transfer(op, rest) ==
    \/ /\ Evaluates(op)
       /\ Flow(op.outs[1], Const(Evaluate(op.op, [i \in 1 .. Len(op.ins) |-> lat[op.ins[i]].val])))
       /\ todo' = rest
    \/ /\ ~Evaluates(op)
       /\ todo' = SinkTasks(op) \o rest
       /\ NoFlow

-----------------------------------------------------------------------------
(* analysis *)

(* reset and init_state *)
StartAnalysis ==
    /\ lat' = [l \in Locals(prog) |->
                  IF \E k \in 1 .. Len(functions) : \E i \in 1 .. Len(prog.blocks[Entry(prog, functions[k])].ins) :
                        prog.blocks[Entry(prog, functions[k])].ins[i] = l
                  THEN Overdefined ELSE Unknown]
    /\ cfgWork' = [k \in 1 .. Len(functions) |-> Entry(prog, functions[k])]
    /\ reachable' = {Entry(prog, functions[k]) : k \in 1 .. Len(functions)}
    /\ valueWork' = <<>> /\ todo' = <<>>
    /\ sccp' = "analysis"
    /\ UNCHANGED sccpInputs

Running == sccp = "analysis"

(* process_block: its operations, then its control. *)
TakeBlock ==
    /\ Running /\ todo = <<>> /\ valueWork = <<>> /\ cfgWork # <<>>
    /\ cfgWork' = Front(cfgWork)
    /\ todo' = OpTasks(Last(cfgWork)) \o EdgeTasks(Last(cfgWork))
    /\ UNCHANGED <<sccpInputs, lat, valueWork, reachable, sccp>>

(* process_values *)
TakeValue ==
    /\ Running /\ todo = <<>> /\ valueWork # <<>>
    /\ valueWork' = Front(valueWork)
    /\ todo' = UseTasks(Last(valueWork))
    /\ UNCHANGED <<sccpInputs, lat, cfgWork, reachable, sccp>>

Task_ == Head(todo)
Is(kind) == Running /\ todo # <<>> /\ Task_.kind = kind

(* One operation of process_operations. *)
VisitOp ==
    /\ Is("op")
    /\ LET op == prog.ops[Task_.i]
       IN \/ /\ op.op \in {"const", "evm"}
             /\ Flow(op.outs[1], IF op.op = "const" THEN Const(op.val) ELSE EvmConst(op.val))
             /\ todo' = Tail(todo)
          \/ op.op \notin {"const", "evm"} /\ Transfer(op, Tail(todo))
    /\ UNCHANGED <<sccpInputs, cfgWork, reachable, sccp>>

Sink ==
    /\ Is("sink")
    /\ Flow(Task_.i, Overdefined)
    /\ todo' = Tail(todo)
    /\ UNCHANGED <<sccpInputs, cfgWork, reachable, sccp>>

(* Mutation: a block is put on the work list each time it is reached. *)
VisitEdge_Again ==
    /\ Is("edge") /\ ~NoTarget(Task_.from)
    /\ IF EdgeReachable(Task_.from, Task_.to)
       THEN /\ cfgWork' = Append(cfgWork, Task_.to)
            /\ reachable' = reachable \cup {Task_.to}
            /\ todo' = FlowTasks(Task_.from, Task_.to) \o Tail(todo)
       ELSE todo' = Tail(todo) /\ UNCHANGED <<cfgWork, reachable>>
    /\ NoFlow
    /\ UNCHANGED <<sccpInputs, sccp>>

(* One edge of process_control, with mark_reachable. *)
VisitEdge ==
    /\ Is("edge") /\ ~NoTarget(Task_.from)
    /\ IF EdgeReachable(Task_.from, Task_.to)
       THEN /\ cfgWork' = IF Task_.to \in reachable THEN cfgWork ELSE Append(cfgWork, Task_.to)
            /\ reachable' = reachable \cup {Task_.to}
            /\ todo' = FlowTasks(Task_.from, Task_.to) \o Tail(todo)
       ELSE todo' = Tail(todo) /\ UNCHANGED <<cfgWork, reachable>>
    /\ NoFlow
    /\ UNCHANGED <<sccpInputs, sccp>>

FlowAlong == Flow(prog.blocks[Task_.to].ins[Task_.i], lat[prog.blocks[Task_.from].outs[Task_.i]])

(* One local of flow_outputs_to. *)
FlowOutput ==
    /\ Is("flow")
    /\ FlowAlong
    /\ todo' = Tail(todo)
    /\ UNCHANGED <<sccpInputs, cfgWork, reachable, sccp>>

(* One successor that a changed output may flow to. *)
FlowSingleOutput ==
    /\ Is("output") /\ ~NoTarget(Task_.from)
    /\ IF EdgeReachable(Task_.from, Task_.to) THEN FlowAlong ELSE NoFlow
    /\ todo' = Tail(todo)
    /\ UNCHANGED <<sccpInputs, cfgWork, reachable, sccp>>

(* Mutation: a changed output does not reach the successors. *)
VisitUse_NoOutputs ==
    /\ Running /\ todo # <<>> /\ Task_.kind \in UseKinds
    /\ \/ /\ Task_.from \notin reachable
          /\ todo' = Tail(todo) /\ NoFlow
       \/ /\ Task_.from \in reachable /\ Task_.kind = "opUse"
          /\ LET op == prog.ops[Task_.i]
             IN \/ /\ \A k \in 1 .. Len(op.outs) : lat[op.outs[k]] = Overdefined
                   /\ todo' = Tail(todo) /\ NoFlow
                \/ /\ \E k \in 1 .. Len(op.outs) : lat[op.outs[k]] # Overdefined
                   /\ Transfer(op, Tail(todo))
       \/ /\ Task_.from \in reachable /\ Task_.kind = "controlUse"
          /\ todo' = EdgeTasks(Task_.from) \o Tail(todo) /\ NoFlow
       \/ /\ Task_.from \in reachable /\ Task_.kind = "outputUse"
          /\ todo' = Tail(todo) /\ NoFlow
    /\ UNCHANGED <<sccpInputs, cfgWork, reachable, sccp>>

(* process_use *)
VisitUse ==
    /\ Running /\ todo # <<>> /\ Task_.kind \in UseKinds
    /\ \/ /\ Task_.from \notin reachable
          /\ todo' = Tail(todo) /\ NoFlow
       \/ /\ Task_.from \in reachable /\ Task_.kind = "opUse"
          /\ LET op == prog.ops[Task_.i]
             IN \/ /\ \A k \in 1 .. Len(op.outs) : lat[op.outs[k]] = Overdefined
                   /\ todo' = Tail(todo) /\ NoFlow
                \/ /\ \E k \in 1 .. Len(op.outs) : lat[op.outs[k]] # Overdefined
                   /\ Transfer(op, Tail(todo))
       \/ /\ Task_.from \in reachable /\ Task_.kind = "controlUse"
          /\ todo' = EdgeTasks(Task_.from) \o Tail(todo) /\ NoFlow
       \/ /\ Task_.from \in reachable /\ Task_.kind = "outputUse"
          /\ todo' = OutputTasks(Task_.from, Task_.i) \o Tail(todo) /\ NoFlow
    /\ UNCHANGED <<sccpInputs, cfgWork, reachable, sccp>>

NoMatchingCase ==
    /\ Is("edge") \/ Is("output")
    /\ NoTarget(Task_.from)
    /\ sccp' = "panic"
    /\ UNCHANGED <<sccpInputs, lat, reachable, cfgWork, valueWork, todo>>

AnalysisStep ==
    \/ TakeBlock \/ TakeValue
    \/ VisitOp \/ Sink \/ VisitEdge \/ FlowOutput \/ FlowSingleOutput \/ VisitUse
    \/ NoMatchingCase

AnalysisDone == Running /\ todo = <<>> /\ valueWork = <<>> /\ cfgWork = <<>>

-----------------------------------------------------------------------------
(* apply *)

SmallConst(l) == IsConst(l) /\ lat[l].val < SmallWords

(* rewrite_constants: operations with several outputs stay. *)
Rewritten(op) ==
    IF Len(op.outs) = 1 /\ SmallConst(op.outs[1])
    THEN SetConst(op.outs[1], lat[op.outs[1]].val) ELSE op

(* simplify_control *)
Simplified(ctl) ==
    CASE ctl.kind = "branch" /\ IsConst(ctl.cond) ->
             ContinuesTo(IF lat[ctl.cond].val = 0 THEN ctl.zero ELSE ctl.nonZero)
      [] ctl.kind = "switch" /\ IsConst(ctl.cond) ->
             ContinuesTo(SwitchTarget(ctl, lat[ctl.cond].val))
      [] OTHER -> ctl

InReachedBlock(i) == \E b \in reachable : \E k \in 1 .. Len(prog.blocks[b].ops) : prog.blocks[b].ops[k] = i

Applied ==
    [prog EXCEPT
        !.ops = [i \in 1 .. Len(prog.ops) |-> IF InReachedBlock(i) THEN Rewritten(prog.ops[i]) ELSE prog.ops[i]],
        !.blocks = [b \in BlockIds(prog) |->
                       IF b \in reachable THEN [prog.blocks[b] EXCEPT !.ctl = Simplified(@)]
                       ELSE prog.blocks[b]]]

Apply ==
    /\ AnalysisDone /\ \A b \in reachable : ~NoTarget(b)
    /\ prog' = Applied
    /\ sccp' = "done"
    /\ UNCHANGED <<functions, uses, lat, reachable, cfgWork, valueWork, todo>>

(* Only a switch without any target gets here: it has no edge to visit. *)
ApplyNoTarget ==
    /\ AnalysisDone /\ \E b \in reachable : NoTarget(b)
    /\ sccp' = "panic"
    /\ UNCHANGED <<sccpInputs, lat, reachable, cfgWork, valueWork, todo>>
=============================================================================

----------------------------- MODULE SccpProofs -----------------------------
(***************************************************************************)
(* Proofs about SCCP, for every program, use lists and word size.          *)
(*                                                                         *)
(* First part, types and descent: no step leaves the lattice or climbs.    *)
(*                                                                         *)
(* Second part, the fixed point.  The invariant: what does not yet agree   *)
(* with the lattice is owed, to a work list or to the steps of the running *)
(* handler.  So the lists lose nothing: a handler that drops an entry has  *)
(* made it agree.                                                          *)
(*                                                                         *)
(* Third part, soundness.  At the fixed point an execution and the         *)
(* lattice go together, step by step: every frame runs in a reached block  *)
(* and holds what the lattice says.  So rewriting by the lattice changes   *)
(* no execution.                                                           *)
(***************************************************************************)
EXTENDS SccpClient, SequenceLemmas

TypeInv == SccpTypeOK /\ (sccp # "done" => EdgesMatch(prog))
-----------------------------------------------------------------------------
(* What the tables of a program hold. *)
LEMMA Tables ==
    ASSUME IsProgram(prog)
    PROVE  /\ prog.ops \in Seq(Operations(prog))
           /\ prog.blocks \in Seq(BasicBlocks(prog))
           /\ prog.functions \in Seq(FunctionHeads(prog))
           /\ Len(prog.ops) \in Nat /\ Len(prog.blocks) \in Nat
           /\ BlockIds(prog) \subseteq Nat \ {0} /\ Locals(prog) \subseteq Nat \ {0}
           /\ \A b \in BlockIds(prog) : prog.blocks[b] \in BasicBlocks(prog)
           /\ \A i \in 1 .. Len(prog.ops) : prog.ops[i] \in Operations(prog)
           /\ \A f \in FunctionIds(prog) : Entry(prog, f) \in BlockIds(prog)
  <1>1. /\ prog.ops \in Seq(Operations(prog))
        /\ prog.blocks \in Seq(BasicBlocks(prog))
        /\ prog.functions \in Seq(FunctionHeads(prog))
        /\ prog.nextLocal \in Nat \ {0}
    BY DEF IsProgram
  <1>2. /\ Len(prog.ops) \in Nat /\ Len(prog.blocks) \in Nat
        /\ \A b \in 1 .. Len(prog.blocks) : prog.blocks[b] \in BasicBlocks(prog)
        /\ \A i \in 1 .. Len(prog.ops) : prog.ops[i] \in Operations(prog)
        /\ \A f \in 1 .. Len(prog.functions) : prog.functions[f] \in FunctionHeads(prog)
    BY <1>1, ElementOfSeq, LenProperties
  <1> QED
    BY <1>1, <1>2 DEF BlockIds, Locals, FunctionIds, FunctionHeads, Entry

LEMMA ControlTargets ==
    ASSUME IsProgram(prog), NEW c \in Controls(prog)
    PROVE  Outgoing(c) \in Seq(BlockIds(prog))
  <1>1. CASE c \in [kind : {"last", "iret"}] \cup [kind : {"goto"}, to : BlockIds(prog)]
                \cup [kind : {"branch"}, cond : Locals(prog), nonZero : BlockIds(prog), zero : BlockIds(prog)]
    BY <1>1 DEF Outgoing
  <1>2. CASE c \in [kind : {"switch"}, cond : Locals(prog), cases : Seq(Word \X BlockIds(prog)),
                    fallback : BlockIds(prog) \cup {None}]
    <2> DEFINE targets == [i \in 1 .. Len(c.cases) |-> c.cases[i][2]]
    <2>1. targets \in Seq(BlockIds(prog))
      <3>1. c.cases \in Seq(Word \X BlockIds(prog))
        BY <1>2
      <3>2. Len(c.cases) \in Nat /\ \A i \in 1 .. Len(c.cases) : c.cases[i] \in Word \X BlockIds(prog)
        BY <3>1, ElementOfSeq, LenProperties
      <3>3. \A i \in 1 .. Len(c.cases) : targets[i] \in BlockIds(prog)
        BY <3>2
      <3> QED
        BY <3>2, <3>3, SequenceOf
    <2>2. (IF c.fallback = None THEN <<>> ELSE <<c.fallback>>) \in Seq(BlockIds(prog))
      BY <1>2
    <2>3. Outgoing(c) = targets \o (IF c.fallback = None THEN <<>> ELSE <<c.fallback>>)
      BY <1>2 DEF Outgoing
    <2> QED
      BY <2>1, <2>2, <2>3, ConcatProperties
  <1> QED
    BY <1>1, <1>2 DEF Controls

LEMMA SuccessorsAreBlocks ==
    ASSUME IsProgram(prog), NEW b \in BlockIds(prog)
    PROVE  Successors(prog, b) \in Seq(BlockIds(prog))
  BY Tables, ControlTargets DEF BasicBlocks, Successors

(* The step at hand and the blocks it is about. *)
LEMMA CurrentTask ==
    ASSUME SccpTypeOK, todo # <<>>
    PROVE  /\ Task_ \in Tasks /\ Tail(todo) \in Seq(Tasks)
           /\ todo \in Seq(Tasks)
  BY HeadTailProperties DEF SccpTypeOK, Task_

(* Replacing the step at hand by others. *)
LEMMA Expand ==
    ASSUME SccpTypeOK, todo # <<>>, NEW s \in Seq(Tasks)
    PROVE  s \o Tail(todo) \in Seq(Tasks)
  BY CurrentTask, ConcatProperties

LEMMA OpTasksAreTasks ==
    ASSUME IsProgram(prog), NEW b \in BlockIds(prog)
    PROVE  OpTasks(b) \in Seq(Tasks)
  <1> DEFINE ops == prog.blocks[b].ops
  <1>1. Len(ops) \in Nat /\ \A i \in 1 .. Len(ops) : ops[i] \in 1 .. Len(prog.ops)
    BY Tables, ElementOfSeq, LenProperties DEF BasicBlocks
  <1>2. \A i \in 1 .. Len(ops) : Task("op", b, b, ops[i]) \in Tasks
    BY <1>1, Tables, SMTT(30) DEF Tasks, Task, IsOpTask, UseKinds
  <1> QED
    BY <1>1, <1>2, SequenceOf DEF OpTasks

LEMMA EdgeTasksAreTasks ==
    ASSUME IsProgram(prog), NEW b \in BlockIds(prog)
    PROVE  EdgeTasks(b) \in Seq(Tasks)
  <1> DEFINE succ == Successors(prog, b)
  <1>1. Len(succ) \in Nat /\ \A i \in 1 .. Len(succ) : succ[i] \in BlockIds(prog)
    BY SuccessorsAreBlocks, ElementOfSeq, LenProperties
  <1>2. \A i \in 1 .. Len(succ) : Task("edge", b, succ[i], 0) \in Tasks
    BY <1>1, Tables DEF Tasks, Task, IsEdgeTask, UseKinds
  <1> QED
    BY <1>1, <1>2, SequenceOf DEF EdgeTasks

LEMMA FlowTasksAreTasks ==
    ASSUME IsProgram(prog), NEW b \in BlockIds(prog), NEW to \in BlockIds(prog)
    PROVE  FlowTasks(b, to) \in Seq(Tasks)
  <1> DEFINE ins == Len(prog.blocks[to].ins)
             outs == Len(prog.blocks[b].outs)
             n == IF ins < outs THEN ins ELSE outs
  <1>1. ins \in Nat /\ outs \in Nat
    BY Tables, LenProperties DEF BasicBlocks
  <1>2. n \in Nat /\ n <= ins /\ n <= outs
    BY <1>1
  <1>3. \A i \in 1 .. n : Task("flow", b, to, i) \in Tasks
    BY <1>1, <1>2, Tables, SMTT(30) DEF Tasks, Task, IsFlow, IsOutput, IsEdgeTask, UseKinds
  <1> QED
    BY <1>2, <1>3, SequenceOf DEF FlowTasks

LEMMA OutputTasksAreTasks ==
    ASSUME IsProgram(prog), EdgesMatch(prog), NEW b \in BlockIds(prog),
           NEW i \in 1 .. Len(prog.blocks[b].outs)
    PROVE  OutputTasks(b, i) \in Seq(Tasks)
  <1> DEFINE succ == Successors(prog, b)
  <1>1. Len(succ) \in Nat /\ \A k \in 1 .. Len(succ) : succ[k] \in BlockIds(prog)
    BY SuccessorsAreBlocks, ElementOfSeq, LenProperties
  <1>2. \A k \in 1 .. Len(succ) : Len(prog.blocks[succ[k]].ins) = Len(prog.blocks[b].outs)
    BY DEF EdgesMatch
  <1>3. Len(prog.blocks[b].outs) \in Nat
    BY Tables, LenProperties DEF BasicBlocks
  <1>4. \A k \in 1 .. Len(succ) : Task("output", b, succ[k], i) \in Tasks
    BY <1>1, <1>2, <1>3, Tables, SMTT(30) DEF Tasks, Task, IsFlow, IsOutput, IsEdgeTask, UseKinds
  <1> QED
    BY <1>1, <1>4, SequenceOf DEF OutputTasks

LEMMA SinkTasksAreTasks ==
    ASSUME IsProgram(prog), NEW op \in Operations(prog)
    PROVE  SinkTasks(op) \in Seq(Tasks)
  <1>1. Len(op.outs) \in Nat /\ \A i \in 1 .. Len(op.outs) : op.outs[i] \in Locals(prog)
    BY ElementOfSeq, LenProperties DEF Operations
  <1>2. \A i \in 1 .. Len(op.outs) : Task("sink", 0, 0, op.outs[i]) \in Tasks
    BY <1>1, Tables DEF Tasks, Task, UseKinds
  <1> QED
    BY <1>1, <1>2, SequenceOf DEF SinkTasks

LEMMA UseTasksAreTasks ==
    ASSUME IsProgram(prog), uses \in [Locals(prog) -> Seq(Uses(prog))], NEW l \in Locals(prog)
    PROVE  UseTasks(l) \in Seq(Tasks)
  <1> DEFINE us == uses[l]
  <1>1. Len(us) \in Nat /\ \A k \in 1 .. Len(us) : us[k] \in Uses(prog)
    BY ElementOfSeq, LenProperties
  <1>2. ASSUME NEW u \in Uses(prog) PROVE Task(u.kind, u.block, u.block, u.at) \in Tasks
    BY Tables DEF Uses, Tasks, Task, IsOpTask, IsEdgeTask, IsOutput, UseKinds
  <1>3. \A k \in 1 .. Len(us) : Task(us[k].kind, us[k].block, us[k].block, us[k].at) \in Tasks
    BY <1>1, <1>2
  <1> QED
    BY <1>1, <1>3, SequenceOf DEF UseTasks
-----------------------------------------------------------------------------
(* A value that flows lowers one local, which is then to be propagated. *)
LEMMA MeetIsBelow ==
    ASSUME NEW x \in LatticeValue, NEW y \in LatticeValue
    PROVE  Meet(x, y) \in LatticeValue /\ Below(Meet(x, y), x) /\ Below(Meet(x, y), y)
  BY DEF Meet, Below, LatticeValue, Overdefined, Unknown

LEMMA FlowIsSafe ==
    ASSUME SccpTypeOK, NEW l \in Locals(prog), NEW v \in LatticeValue, Flow(l, v)
    PROVE  /\ lat' \in [Locals(prog) -> LatticeValue]
           /\ valueWork' \in Seq(Locals(prog))
           /\ \A k \in Locals(prog) : Below(lat'[k], lat[k])
  <1>1. lat \in [Locals(prog) -> LatticeValue] /\ valueWork \in Seq(Locals(prog))
    BY DEF SccpTypeOK
  <1>2. Meet(lat[l], v) \in LatticeValue /\ Below(Meet(lat[l], v), lat[l])
    BY <1>1, MeetIsBelow
  <1>3. \A x : Below(x, x)
    BY DEF Below
  <1> QED
    BY <1>1, <1>2, <1>3, AppendProperties DEF Flow

LEMMA NoFlowIsSafe ==
    ASSUME SccpTypeOK, NoFlow
    PROVE  /\ lat' \in [Locals(prog) -> LatticeValue]
           /\ valueWork' \in Seq(Locals(prog))
           /\ \A k \in Locals(prog) : Below(lat'[k], lat[k])
  BY DEF SccpTypeOK, NoFlow, Below

LEMMA ConstHoldsWord ==
    ASSUME NEW v \in LatticeValue, v.kind = "const"
    PROVE  v.val \in Word
  <1>1. v # Unknown /\ v # Overdefined
    BY DEF Unknown, Overdefined
  <1>2. \A k \in EvmKinds : v # EvmConst(k)
    BY DEF EvmConst
  <1>3. PICK w \in Word : v = Const(w)
    BY <1>1, <1>2 DEF LatticeValue
  <1> QED
    BY <1>3 DEF Const

LEMMA EvaluateIsWord ==
    ASSUME NEW op \in Operations(prog), SccpTypeOK, Evaluates(op)
    PROVE  Const(Evaluate(op.op, [i \in 1 .. Len(op.ins) |-> lat[op.ins[i]].val])) \in LatticeValue
  <1> DEFINE args == [i \in 1 .. Len(op.ins) |-> lat[op.ins[i]].val]
  <1>1. op.op \in Foldable /\ Len(op.ins) = (IF op.op = "add" THEN 2 ELSE 1)
    BY DEF Evaluates, Operations
  <1>2. \A i \in 1 .. Len(op.ins) : op.ins[i] \in Locals(prog)
    BY <1>1, ElementOfSeq DEF Operations
  <1>3. \A i \in 1 .. Len(op.ins) : args[i] \in Word
    <2> TAKE i \in 1 .. Len(op.ins)
    <2>1. lat[op.ins[i]] \in LatticeValue /\ lat[op.ins[i]].kind = "const"
      BY <1>2 DEF SccpTypeOK, Evaluates, IsConst
    <2> QED
      BY <2>1, ConstHoldsWord
  <1>4. Evaluate(op.op, args) \in Word
    <2>1. CASE op.op = "add"
      <3>1. args[1] \in Nat /\ args[2] \in Nat
        BY <1>1, <1>3, <2>1 DEF Word
      <3> QED
        BY <2>1, <3>1, SirAssumption DEF Evaluate, Word
    <2>2. CASE op.op # "add"
      BY <2>2, SirAssumption DEF Evaluate, Word
    <2> QED
      BY <2>1, <2>2
  <1> QED
    BY <1>4 DEF LatticeValue

LEMMA TransferIsSafe ==
    ASSUME SccpTypeOK, NEW op \in Operations(prog), NEW rest \in Seq(Tasks), Transfer(op, rest)
    PROVE  /\ lat' \in [Locals(prog) -> LatticeValue]
           /\ valueWork' \in Seq(Locals(prog))
           /\ \A k \in Locals(prog) : Below(lat'[k], lat[k])
           /\ todo' \in Seq(Tasks)
  <1>1. CASE Evaluates(op)
    <2>1. op.outs[1] \in Locals(prog)
      BY <1>1, ElementOfSeq DEF Evaluates, Operations
    <2> QED
      BY <1>1, <2>1, EvaluateIsWord, FlowIsSafe DEF Transfer
  <1>2. CASE ~Evaluates(op)
    BY <1>2, NoFlowIsSafe, SinkTasksAreTasks, ConcatProperties DEF Transfer, SccpTypeOK
  <1> QED
    BY <1>1, <1>2

LEMMA FlowAlongIsSafe ==
    ASSUME SccpTypeOK, todo # <<>>, IsFlow(Task_), FlowAlong
    PROVE  /\ lat' \in [Locals(prog) -> LatticeValue]
           /\ valueWork' \in Seq(Locals(prog))
           /\ \A k \in Locals(prog) : Below(lat'[k], lat[k])
  <1>1. IsProgram(prog) /\ lat \in [Locals(prog) -> LatticeValue]
    BY DEF SccpTypeOK
  <1>2. /\ prog.blocks[Task_.to].ins \in Seq(Locals(prog))
        /\ prog.blocks[Task_.from].outs \in Seq(Locals(prog))
    BY <1>1, Tables DEF BasicBlocks, IsFlow, IsOutput, IsEdgeTask
  <1>3. /\ prog.blocks[Task_.to].ins[Task_.i] \in Locals(prog)
        /\ prog.blocks[Task_.from].outs[Task_.i] \in Locals(prog)
    BY <1>2, ElementOfSeq DEF IsFlow, IsOutput
  <1> QED
    BY <1>1, <1>3, FlowIsSafe DEF FlowAlong
-----------------------------------------------------------------------------
(* The steps of the analysis keep the types and only lower the lattice. *)
Descends ==
    /\ \A l \in Locals(prog) : Below(lat'[l], lat[l])
    /\ reachable \subseteq reachable'

(* What a step of the analysis has to show: it leaves the inputs alone. *)
LEMMA SafeStep ==
    ASSUME TypeInv, UNCHANGED sccpInputs,
           lat' \in [Locals(prog) -> LatticeValue],
           \A l \in Locals(prog) : Below(lat'[l], lat[l]),
           reachable' \subseteq BlockIds(prog), reachable \subseteq reachable',
           cfgWork' \in Seq(BlockIds(prog)), valueWork' \in Seq(Locals(prog)),
           todo' \in Seq(Tasks), sccp' \in {"analysis", "panic"},
           sccp # "done"
    PROVE  TypeInv' /\ Descends
  <1>1. prog' = prog /\ functions' = functions /\ uses' = uses
    BY DEF sccpInputs
  <1>2. Tasks' = Tasks
    BY <1>1 DEF Tasks, IsOpTask, IsEdgeTask, IsOutput, IsFlow
  <1> QED
    BY <1>1, <1>2 DEF TypeInv, SccpTypeOK, Descends

LEMMA TakeBlockIsSafe ==
    ASSUME TypeInv, TakeBlock
    PROVE  TypeInv' /\ Descends
  <1>1. Last(cfgWork) \in BlockIds(prog) /\ Front(cfgWork) \in Seq(BlockIds(prog))
    BY DEF TypeInv, SccpTypeOK, TakeBlock, Last, Front
  <1>2. todo' \in Seq(Tasks)
    BY <1>1, OpTasksAreTasks, EdgeTasksAreTasks, ConcatProperties DEF TypeInv, SccpTypeOK, TakeBlock
  <1> QED
    BY <1>1, <1>2, SafeStep DEF TypeInv, SccpTypeOK, TakeBlock, Running, Below

LEMMA TakeValueIsSafe ==
    ASSUME TypeInv, TakeValue
    PROVE  TypeInv' /\ Descends
  <1>1. Last(valueWork) \in Locals(prog) /\ Front(valueWork) \in Seq(Locals(prog))
    BY DEF TypeInv, SccpTypeOK, TakeValue, Last, Front
  <1>2. todo' \in Seq(Tasks)
    BY <1>1, UseTasksAreTasks DEF TypeInv, SccpTypeOK, TakeValue
  <1> QED
    BY <1>1, <1>2, SafeStep DEF TypeInv, SccpTypeOK, TakeValue, Running, Below

LEMMA VisitOpIsSafe ==
    ASSUME TypeInv, VisitOp
    PROVE  TypeInv' /\ Descends
  <1> DEFINE op == prog.ops[Task_.i]
  <1>1. Task_ \in Tasks /\ Tail(todo) \in Seq(Tasks) /\ Running
    BY CurrentTask DEF TypeInv, VisitOp, Is
  <1>2. op \in Operations(prog)
    BY <1>1, Tables DEF TypeInv, SccpTypeOK, VisitOp, Is, Tasks, IsOpTask
  <1>3. /\ lat' \in [Locals(prog) -> LatticeValue]
        /\ valueWork' \in Seq(Locals(prog))
        /\ \A k \in Locals(prog) : Below(lat'[k], lat[k])
        /\ todo' \in Seq(Tasks)
    <2>1. CASE op.op \in {"const", "evm"}
      <3> DEFINE v == IF op.op = "const" THEN Const(op.val) ELSE EvmConst(op.val)
      <3>1. v \in LatticeValue
        BY <1>2, <2>1 DEF Operations, LatticeValue
      <3>2. op.outs[1] \in Locals(prog)
        BY <1>2, <2>1, ElementOfSeq DEF Operations
      <3>3. Flow(op.outs[1], v) /\ todo' = Tail(todo)
        BY <2>1 DEF VisitOp, Transfer
      <3> HIDE DEF v
      <3> QED
        BY <1>1, <3>1, <3>2, <3>3, FlowIsSafe DEF TypeInv
    <2>2. CASE op.op \notin {"const", "evm"}
      <3>1. Transfer(op, Tail(todo))
        BY <2>2 DEF VisitOp
      <3> QED
        BY <1>1, <1>2, <3>1, TransferIsSafe DEF TypeInv
    <2> QED
      BY <2>1, <2>2
  <1> QED
    BY <1>1, <1>3, SafeStep DEF TypeInv, SccpTypeOK, VisitOp, Running

LEMMA SinkIsSafe ==
    ASSUME TypeInv, Sink
    PROVE  TypeInv' /\ Descends
  <1>1. Task_ \in Tasks /\ Tail(todo) \in Seq(Tasks) /\ Running /\ Task_.i \in Locals(prog)
    BY CurrentTask DEF TypeInv, Sink, Is, Tasks
  <1>2. Overdefined \in LatticeValue
    BY DEF LatticeValue
  <1> QED
    BY <1>1, <1>2, FlowIsSafe, SafeStep DEF TypeInv, SccpTypeOK, Sink, Running

LEMMA VisitEdgeIsSafe ==
    ASSUME TypeInv, VisitEdge
    PROVE  TypeInv' /\ Descends
  <1>1. /\ Task_ \in Tasks /\ Tail(todo) \in Seq(Tasks) /\ Running
        /\ Task_.from \in BlockIds(prog) /\ Task_.to \in BlockIds(prog)
    BY CurrentTask DEF TypeInv, VisitEdge, Is, Tasks, IsEdgeTask
  <1> DEFINE to == Task_.to
             taken == EdgeReachable(Task_.from, to)
             work == Append(cfgWork, to)
             flows == FlowTasks(Task_.from, to)
  <1>2. /\ work \in Seq(BlockIds(prog)) /\ reachable \cup {to} \subseteq BlockIds(prog)
        /\ flows \in Seq(Tasks) /\ flows \o Tail(todo) \in Seq(Tasks)
    BY <1>1, AppendProperties, FlowTasksAreTasks, ConcatProperties DEF TypeInv, SccpTypeOK
  <1>3. /\ taken => /\ cfgWork' = (IF to \in reachable THEN cfgWork ELSE work)
                    /\ reachable' = reachable \cup {to}
                    /\ todo' = flows \o Tail(todo)
        /\ ~taken => todo' = Tail(todo) /\ cfgWork' = cfgWork /\ reachable' = reachable
        /\ NoFlow /\ UNCHANGED sccpInputs /\ UNCHANGED sccp
    BY DEF VisitEdge
  <1> HIDE DEF taken, work, flows, to
  <1>4. /\ todo' \in Seq(Tasks) /\ cfgWork' \in Seq(BlockIds(prog))
        /\ reachable \subseteq reachable' /\ reachable' \subseteq BlockIds(prog)
    BY <1>1, <1>2, <1>3 DEF TypeInv, SccpTypeOK
  <1> QED
    BY <1>1, <1>3, <1>4, NoFlowIsSafe, SafeStep DEF TypeInv, SccpTypeOK, Running

LEMMA FlowOutputIsSafe ==
    ASSUME TypeInv, FlowOutput
    PROVE  TypeInv' /\ Descends
  <1>1. Tail(todo) \in Seq(Tasks) /\ Running /\ IsFlow(Task_) /\ todo # <<>>
    BY CurrentTask DEF TypeInv, FlowOutput, Is, Tasks
  <1> QED
    BY <1>1, FlowAlongIsSafe, SafeStep DEF TypeInv, SccpTypeOK, FlowOutput, Running

LEMMA FlowSingleOutputIsSafe ==
    ASSUME TypeInv, FlowSingleOutput
    PROVE  TypeInv' /\ Descends
  <1>1. Tail(todo) \in Seq(Tasks) /\ Running /\ IsFlow(Task_) /\ todo # <<>>
    BY CurrentTask DEF TypeInv, FlowSingleOutput, Is, Tasks
  <1> QED
    BY <1>1, FlowAlongIsSafe, NoFlowIsSafe, SafeStep DEF TypeInv, SccpTypeOK, FlowSingleOutput, Running

LEMMA VisitUseIsSafe ==
    ASSUME TypeInv, VisitUse
    PROVE  TypeInv' /\ Descends
  <1>1. Task_ \in Tasks /\ Tail(todo) \in Seq(Tasks) /\ Running /\ todo # <<>>
    BY CurrentTask DEF TypeInv, VisitUse
  <1>2. /\ lat' \in [Locals(prog) -> LatticeValue]
        /\ valueWork' \in Seq(Locals(prog))
        /\ \A k \in Locals(prog) : Below(lat'[k], lat[k])
        /\ todo' \in Seq(Tasks)
    <2>1. CASE todo' = Tail(todo) /\ NoFlow
      BY <1>1, <2>1, NoFlowIsSafe DEF TypeInv
    <2>2. CASE Task_.kind = "opUse" /\ Transfer(prog.ops[Task_.i], Tail(todo))
      <3>1. prog.ops[Task_.i] \in Operations(prog)
        BY <1>1, <2>2, Tables DEF TypeInv, SccpTypeOK, Tasks, IsOpTask
      <3> QED
        BY <1>1, <2>2, <3>1, TransferIsSafe DEF TypeInv
    <2>3. CASE Task_.kind = "controlUse" /\ todo' = EdgeTasks(Task_.from) \o Tail(todo) /\ NoFlow
      <3>1. EdgeTasks(Task_.from) \in Seq(Tasks)
        BY <1>1, <2>3, EdgeTasksAreTasks DEF TypeInv, SccpTypeOK, Tasks, IsEdgeTask
      <3> QED
        BY <1>1, <2>3, <3>1, NoFlowIsSafe, ConcatProperties DEF TypeInv
    <2>4. CASE Task_.kind = "outputUse" /\ todo' = OutputTasks(Task_.from, Task_.i) \o Tail(todo) /\ NoFlow
      <3>1. OutputTasks(Task_.from, Task_.i) \in Seq(Tasks)
        BY <1>1, <2>4, OutputTasksAreTasks DEF TypeInv, SccpTypeOK, Tasks, IsOutput, IsEdgeTask, Running
      <3> QED
        BY <1>1, <2>4, <3>1, NoFlowIsSafe, ConcatProperties DEF TypeInv
    <2> QED
      BY <2>1, <2>2, <2>3, <2>4 DEF VisitUse
  <1> QED
    BY <1>1, <1>2, SafeStep DEF TypeInv, SccpTypeOK, VisitUse, Running

LEMMA NoMatchingCaseIsSafe ==
    ASSUME TypeInv, NoMatchingCase \/ ApplyNoTarget
    PROVE  TypeInv' /\ Descends
  BY SafeStep DEF TypeInv, SccpTypeOK, NoMatchingCase, ApplyNoTarget, Is, AnalysisDone, Running, Below,
      sccpInputs
-----------------------------------------------------------------------------
(* Applying the conclusions yields a program again. *)
LEMMA RewrittenIsOperation ==
    ASSUME SccpTypeOK, NEW op \in Operations(prog)
    PROVE  Rewritten(op) \in Operations(prog)
  <1>1. CASE Len(op.outs) = 1 /\ SmallConst(op.outs[1])
    <2>1. op.outs[1] \in Locals(prog)
      BY <1>1, ElementOfSeq DEF Operations
    <2>2. lat[op.outs[1]].val \in Word
      BY <1>1, <2>1, ConstHoldsWord DEF SccpTypeOK, SmallConst, IsConst
    <2> QED
      BY <1>1, <2>1, <2>2 DEF Rewritten, SetConst, Op, Operations, OpKinds, IsCall, Foldable
  <1>2. CASE ~(Len(op.outs) = 1 /\ SmallConst(op.outs[1]))
    BY <1>2 DEF Rewritten
  <1> QED
    BY <1>1, <1>2

LEMMA SwitchTargetIsBlock ==
    ASSUME SccpTypeOK, NEW c \in Controls(prog), c.kind = "switch", NEW w,
           SwitchTarget(c, w) # None
    PROVE  SwitchTarget(c, w) \in BlockIds(prog)
  <1> DEFINE hits == {i \in 1 .. Len(c.cases) : c.cases[i][1] = w}
             first(i) == i \in hits /\ \A j \in hits : i <= j
  <1>1. /\ c.cases \in Seq(Word \X BlockIds(prog))
        /\ c.fallback \in BlockIds(prog) \cup {None}
    BY DEF Controls
  <1>2. CASE hits = {}
    BY <1>1, <1>2 DEF SwitchTarget
  <1>3. CASE hits # {}
    <2>1. \E i \in hits : \A j \in hits : i <= j
      <3>1. hits \subseteq Nat
        BY <1>1, LenProperties
      <3> QED
        BY <1>3, <3>1, LeastElement
    <2>2. PICK i \in hits : SwitchTarget(c, w) = c.cases[i][2]
      BY <1>3, <2>1 DEF SwitchTarget
    <2>3. c.cases[i] \in Word \X BlockIds(prog)
      BY <1>1, <2>2, ElementOfSeq
    <2> QED
      BY <2>2, <2>3
  <1> QED
    BY <1>2, <1>3

LEMMA SimplifiedIsControl ==
    ASSUME SccpTypeOK, NEW b \in BlockIds(prog), ~NoTarget(b)
    PROVE  Simplified(prog.blocks[b].ctl) \in Controls(prog)
  <1> DEFINE c == prog.blocks[b].ctl
  <1>1. c \in Controls(prog)
    BY Tables DEF SccpTypeOK, BasicBlocks
  <1>2. CASE c.kind = "branch"
    <2>1. c.nonZero \in BlockIds(prog) /\ c.zero \in BlockIds(prog)
      BY <1>1, <1>2 DEF Controls
    <2> QED
      BY <1>1, <1>2, <2>1 DEF Simplified, Controls, ContinuesTo
  <1>3. CASE c.kind = "switch" /\ IsConst(c.cond)
    <2>1. SwitchTarget(c, lat[c.cond].val) \in BlockIds(prog)
      BY <1>1, <1>3, SwitchTargetIsBlock DEF NoTarget
    <2> QED
      BY <1>3, <2>1 DEF Simplified, Controls, ContinuesTo
  <1>4. CASE c.kind # "branch" /\ ~(c.kind = "switch" /\ IsConst(c.cond))
    BY <1>1, <1>4 DEF Simplified
  <1> QED
    BY <1>2, <1>3, <1>4

LEMMA ApplyIsSafe ==
    ASSUME TypeInv, Apply
    PROVE  TypeInv'
  <1> DEFINE ops == [i \in 1 .. Len(prog.ops) |->
                        IF InReachedBlock(i) THEN Rewritten(prog.ops[i]) ELSE prog.ops[i]]
             blocks == [b \in BlockIds(prog) |->
                        IF b \in reachable THEN [prog.blocks[b] EXCEPT !.ctl = Simplified(@)]
                        ELSE prog.blocks[b]]
  <1>1. IsProgram(prog) /\ SccpTypeOK
    BY DEF TypeInv, SccpTypeOK
  <1>2. ops \in Seq(Operations(prog)) /\ Len(ops) = Len(prog.ops)
    <2>1. \A i \in 1 .. Len(prog.ops) : ops[i] \in Operations(prog)
      BY <1>1, Tables, RewrittenIsOperation
    <2>2. DOMAIN ops = 1 .. Len(prog.ops) /\ ops = [i \in 1 .. Len(prog.ops) |-> ops[i]]
      OBVIOUS
    <2> HIDE DEF ops
    <2> QED
      BY <1>1, <2>1, <2>2, Tables, SequenceOf
  <1>3. blocks \in Seq(BasicBlocks(prog)) /\ Len(blocks) = Len(prog.blocks)
    <2>1. ASSUME NEW b \in BlockIds(prog) PROVE blocks[b] \in BasicBlocks(prog)
      <3>1. prog.blocks[b] \in BasicBlocks(prog)
        BY <1>1, Tables
      <3>2. b \in reachable => Simplified(prog.blocks[b].ctl) \in Controls(prog)
        BY <1>1, SimplifiedIsControl DEF Apply
      <3> QED
        BY <3>1, <3>2 DEF BasicBlocks
    <2>2. DOMAIN blocks = BlockIds(prog) /\ blocks = [b \in BlockIds(prog) |-> blocks[b]]
      OBVIOUS
    <2> HIDE DEF blocks
    <2> QED
      BY <1>1, <2>1, <2>2, Tables, SequenceOf DEF BlockIds
  <1>4. \A b \in BlockIds(prog) : blocks[b].outs = prog.blocks[b].outs /\ blocks[b].ins = prog.blocks[b].ins
    BY <1>1, Tables DEF BasicBlocks
  <1>5. prog' = [prog EXCEPT !.ops = ops, !.blocks = blocks]
    BY DEF Apply, Applied
  <1> HIDE DEF ops, blocks
  <1>6. /\ prog'.ops = ops /\ prog'.blocks = blocks
        /\ prog'.nextLocal = prog.nextLocal /\ prog'.functions = prog.functions
        /\ prog'.init = prog.init /\ prog'.main = prog.main /\ prog'.id = prog.id
    BY <1>1, <1>5 DEF IsProgram
  <1>7. /\ BlockIds(prog') = BlockIds(prog) /\ Locals(prog') = Locals(prog)
        /\ FunctionIds(prog') = FunctionIds(prog) /\ Len(prog'.ops) = Len(prog.ops)
    BY <1>2, <1>3, <1>6 DEF BlockIds, Locals, FunctionIds
  <1>8. /\ Operations(prog') = Operations(prog) /\ Controls(prog') = Controls(prog)
        /\ BasicBlocks(prog') = BasicBlocks(prog) /\ FunctionHeads(prog') = FunctionHeads(prog)
    <2>1. Operations(prog') = Operations(prog) /\ Controls(prog') = Controls(prog)
      BY <1>7 DEF Operations, Controls
    <2> QED
      BY <1>7, <2>1 DEF BasicBlocks, FunctionHeads
  <1>9. Uses(prog') = Uses(prog)
    BY <1>4, <1>6, <1>7 DEF Uses
  <1>10. IsProgram(prog')
    BY <1>1, <1>2, <1>3, <1>5, <1>7, <1>8 DEF IsProgram
  <1> QED
    BY <1>1, <1>7, <1>9, <1>10, EmptySeq DEF TypeInv, SccpTypeOK, Apply, AnalysisDone

LEMMA InitIsSafe ==
    ASSUME SccpInit
    PROVE  TypeInv
  <1>1. PICK in \in Inputs : prog = in.prog /\ functions = in.functions /\ uses = in.uses
    BY DEF SccpInit
  <1>2. IsInput(in)
    BY InputsAssumption
  <1> QED
    BY <1>1, <1>2, EmptySeq DEF SccpInit, IsInput, TypeInv, SccpTypeOK, LatticeValue

LEMMA StartIsSafe ==
    ASSUME TypeInv, StartAnalysis, sccp = "idle"
    PROVE  TypeInv'
  <1>1. IsProgram(prog) /\ functions \in Seq(FunctionIds(prog)) /\ UNCHANGED sccpInputs
    BY DEF TypeInv, SccpTypeOK, StartAnalysis
  <1>2. Len(functions) \in Nat /\ \A k \in 1 .. Len(functions) : Entry(prog, functions[k]) \in BlockIds(prog)
    BY <1>1, Tables, ElementOfSeq, LenProperties
  <1>3. cfgWork' \in Seq(BlockIds(prog)) /\ reachable' \subseteq BlockIds(prog)
    BY <1>2, SequenceOf DEF StartAnalysis
  <1>4. lat' \in [Locals(prog) -> LatticeValue]
    BY DEF StartAnalysis, LatticeValue
  <1> QED
    BY <1>1, <1>3, <1>4, EmptySeq DEF TypeInv, SccpTypeOK, StartAnalysis, sccpInputs

LEMMA AnalysisStepIsSafe ==
    ASSUME TypeInv, AnalysisStep \/ ApplyNoTarget
    PROVE  TypeInv' /\ Descends
  BY TakeBlockIsSafe, TakeValueIsSafe, VisitOpIsSafe, SinkIsSafe, VisitEdgeIsSafe, FlowOutputIsSafe,
     FlowSingleOutputIsSafe, VisitUseIsSafe, NoMatchingCaseIsSafe DEF AnalysisStep

LEMMA TypeInvIsInductive ==
    ASSUME TypeInv, [SccpNext]_sccpVars
    PROVE  TypeInv'
  <1>1. CASE SccpNext
    BY <1>1, StartIsSafe, AnalysisStepIsSafe, ApplyIsSafe DEF SccpNext
  <1>2. CASE UNCHANGED sccpVars
    BY <1>2 DEF sccpVars, sccpInputs, TypeInv, SccpTypeOK, Tasks, IsOpTask, IsEdgeTask, IsOutput, IsFlow
  <1> QED
    BY <1>1, <1>2

LEMMA TypeInvHolds == SccpSpec => []TypeInv
  <1>1. SccpInit => TypeInv
    BY InitIsSafe
  <1>2. TypeInv /\ [SccpNext]_sccpVars => TypeInv'
    BY TypeInvIsInductive
  <1> QED
    BY <1>1, <1>2, PTL DEF SccpSpec

(* Type correctness: work lists and pending steps name parts of the program, *)
(* and the program that results has well-formed tables, whatever constants   *)
(* the analysis found and wherever they lead.                                *)
THEOREM SccpTypeCorrect == SccpSpec => []SccpTypeOK
  <1>1. TypeInv => SccpTypeOK
    BY DEF TypeInv
  <1> QED
    BY <1>1, TypeInvHolds, PTL

(* No step of the analysis raises what is known of a local or forgets that   *)
(* a block was reached, in whatever order the two work lists are served.     *)
THEOREM LatticeOnlyDescends == SccpSpec => LatticeDescends
  <1>1. TypeInv /\ [SccpNext]_sccpVars =>
            [sccp = "analysis" =>
                /\ \A l \in Locals(prog) : Below(lat'[l], lat[l])
                /\ reachable \subseteq reachable']_sccpVars
    <2> SUFFICES ASSUME TypeInv, SccpNext, sccp = "analysis"
                 PROVE  Descends
      BY DEF Descends
    <2>1. CASE AnalysisStep \/ ApplyNoTarget
      BY <2>1, AnalysisStepIsSafe
    <2>2. CASE Apply
      BY <2>2 DEF Apply, Descends, Below
    <2> QED
      BY <2>1, <2>2 DEF SccpNext
  <1> QED
    BY <1>1, TypeInvHolds, PTL DEF SccpSpec, LatticeDescends

-----------------------------------------------------------------------------
InTodo(t) == \E n \in 1 .. Len(todo) : todo[n] = t
Queued(b) == \E n \in 1 .. Len(cfgWork) : cfgWork[n] = b
Changed(l) == \E n \in 1 .. Len(valueWork) : valueWork[n] = l

(* Operation i of block b is yet to be visited. *)
VisitIsOwed(b, i) ==
    \/ InTodo(Task("op", b, b, i))
    \/ InTodo(Task("opUse", b, b, i))
    \/ \E k \in 1 .. Len(prog.ops[i].ins) : Changed(prog.ops[i].ins[k])

OutputIsKept(op, k) ==
    \/ Below(lat[op.outs[k]], ResultOf(op))
    \/ InTodo(Task("sink", 0, 0, op.outs[k]))

OpIsKept(b, i) ==
    Queued(b) \/ VisitIsOwed(b, i) \/ \A k \in 1 .. Len(prog.ops[i].outs) : OutputIsKept(prog.ops[i], k)

(* The edge from b to a successor is yet to be looked at. *)
LookIsOwed(b, to) ==
    \/ InTodo(Task("edge", b, to, 0))
    \/ InTodo(Task("controlUse", b, b, 0))
    \/ \E l \in Condition(prog.blocks[b].ctl) : Changed(l)

(* Output k is yet to flow along the edge. *)
FlowIsOwed(b, to, k) ==
    \/ InTodo(Task("flow", b, to, k))
    \/ InTodo(Task("output", b, to, k))
    \/ InTodo(Task("outputUse", b, b, k))
    \/ Changed(prog.blocks[b].outs[k])

HandoverIsKept(b, to, k) ==
    FlowIsOwed(b, to, k) \/ Below(lat[prog.blocks[to].ins[k]], lat[prog.blocks[b].outs[k]])

EdgeIsTaken(b, to) ==
    EdgeReachable(b, to) =>
        to \in reachable /\ \A k \in 1 .. Len(prog.blocks[to].ins) : HandoverIsKept(b, to, k)

EdgeIsKept(b, to) == Queued(b) \/ LookIsOwed(b, to) \/ EdgeIsTaken(b, to)

BlockIsKept(b) ==
    /\ \A j \in 1 .. Len(prog.blocks[b].ops) : OpIsKept(b, prog.blocks[b].ops[j])
    /\ \A k \in 1 .. Len(Successors(prog, b)) : EdgeIsKept(b, Successors(prog, b)[k])

(* The blocks that are reached, and that the running handler may reach. *)
StaysIn(region) ==
    /\ region \subseteq BlockIds(prog)
    /\ IsCovered(prog, functions, uses, region)
    /\ reachable \subseteq region
    /\ \A b : Queued(b) => b \in region
    /\ \A n \in 1 .. Len(todo) : todo[n].kind = "edge" => todo[n].to \in region

Owing ==
    sccp \in {"idle", "analysis"} =>
        /\ \E region : StaysIn(region)
        /\ \A b \in reachable : BlockIsKept(b)

FixedPointInv == TypeInv /\ (sccp = "idle" => reachable = {} /\ todo = <<>> /\ cfgWork = <<>>) /\ Owing
-----------------------------------------------------------------------------
(* Below is an order. *)
LEMMA BelowIsReflexive ==
    ASSUME NEW x
    PROVE  Below(x, x)
  BY DEF Below

LEMMA BelowIsTransitive ==
    ASSUME NEW x, NEW y, NEW z, Below(x, y), Below(y, z)
    PROVE  Below(x, z)
  BY DEF Below, Unknown, Overdefined

(* The lists as sets: what Append, Front, Tail and \o do to them. *)
LEMMA TailKeeps ==
    ASSUME NEW S, todo \in Seq(S), todo # <<>>, NEW s \in Seq(S), todo' = s \o Tail(todo)
    PROVE  /\ \A t : InTodo(t) => t = Task_ \/ InTodo(t)'
           /\ \A n \in 1 .. Len(s) : InTodo(s[n])'
           /\ \A t : InTodo(t)' => InTodo(t) \/ \E n \in 1 .. Len(s) : s[n] = t
  <1>1. /\ Task_ = todo[1]
        /\ Len(todo) \in Nat \ {0} /\ Tail(todo) \in Seq(S) /\ Len(Tail(todo)) = Len(todo) - 1
        /\ \A n \in 1 .. Len(todo) - 1 : Tail(todo)[n] = todo[n + 1]
        /\ Len(s) \in Nat
    BY HeadTailProperties, LenProperties, EmptySeq DEF Task_
  <1>2. /\ Len(todo') = Len(s) + Len(todo) - 1
        /\ \A n \in 1 .. Len(s) : todo'[n] = s[n]
        /\ \A n \in 1 .. Len(todo) - 1 : todo'[Len(s) + n] = todo[n + 1]
    BY <1>1, ConcatProperties
  <1>3. ASSUME NEW n \in 1 .. Len(todo), n # 1
        PROVE  Len(s) + n - 1 \in 1 .. Len(todo') /\ todo'[Len(s) + n - 1] = todo[n]
    <2>1. n - 1 \in 1 .. Len(todo) - 1
      BY <1>1, <1>3
    <2>2. Len(s) + (n - 1) = Len(s) + n - 1 /\ (n - 1) + 1 = n
      BY <1>1
    <2> QED
      BY <1>1, <1>2, <2>1, <2>2
  <1>4. ASSUME NEW t, InTodo(t) PROVE t = Task_ \/ InTodo(t)'
    BY <1>1, <1>3, <1>4 DEF InTodo
  <1>5. ASSUME NEW n \in 1 .. Len(s) PROVE InTodo(s[n])'
    <2>1. n \in 1 .. Len(todo') /\ todo'[n] = s[n]
      BY <1>1, <1>2
    <2> QED
      BY <2>1 DEF InTodo
  <1>6. ASSUME NEW t, InTodo(t)' PROVE InTodo(t) \/ \E n \in 1 .. Len(s) : s[n] = t
    <2>1. PICK m \in 1 .. Len(todo') : todo'[m] = t
      BY <1>6 DEF InTodo
    <2>2. CASE m \in 1 .. Len(s)
      BY <1>2, <2>1, <2>2
    <2>3. CASE m \notin 1 .. Len(s)
      <3> DEFINE n == m - Len(s)
      <3>1. n \in 1 .. Len(todo) - 1 /\ Len(s) + n = m
        BY <1>1, <1>2, <2>3
      <3>2. todo[n + 1] = t /\ n + 1 \in 1 .. Len(todo)
        BY <1>1, <1>2, <2>1, <3>1
      <3> QED
        BY <3>2 DEF InTodo
    <2> QED
      BY <2>2, <2>3
  <1> QED
    BY <1>4, <1>5, <1>6

(* Without new steps. *)
LEMMA TailDrops ==
    ASSUME NEW S, todo \in Seq(S), todo # <<>>, todo' = Tail(todo)
    PROVE  /\ \A t : InTodo(t) => t = Task_ \/ InTodo(t)'
           /\ \A t : InTodo(t)' => InTodo(t)
  <1>1. /\ Task_ = todo[1]
        /\ Len(todo) \in Nat \ {0} /\ Len(Tail(todo)) = Len(todo) - 1
        /\ \A n \in 1 .. Len(todo) - 1 : Tail(todo)[n] = todo[n + 1]
    BY HeadTailProperties, LenProperties, EmptySeq DEF Task_
  <1>2. ASSUME NEW n \in 1 .. Len(todo), n # 1
        PROVE  n - 1 \in 1 .. Len(todo') /\ todo'[n - 1] = todo[n]
    BY <1>1, <1>2
  <1>3. ASSUME NEW t, InTodo(t) PROVE t = Task_ \/ InTodo(t)'
    BY <1>1, <1>2, <1>3 DEF InTodo
  <1>4. ASSUME NEW t, InTodo(t)' PROVE InTodo(t)
    <2>1. PICK m \in 1 .. Len(todo') : todo'[m] = t
      BY <1>4 DEF InTodo
    <2>2. m + 1 \in 1 .. Len(todo) /\ todo[m + 1] = t
      BY <1>1, <2>1
    <2> QED
      BY <2>2 DEF InTodo
  <1> QED
    BY <1>3, <1>4

-----------------------------------------------------------------------------
(* What all steps of the analysis have in common: a value that changes is  *)
(* put on the work list.                                                   *)
Propagates ==
    /\ UNCHANGED sccpInputs
    /\ \A l \in Locals(prog) : Below(lat'[l], lat[l]) /\ (lat'[l] # lat[l] => Changed(l)')
    /\ reachable \subseteq reachable'

LEMMA FlowMarks ==
    ASSUME SccpTypeOK, NEW l \in Locals(prog), NEW v \in LatticeValue, Flow(l, v)
    PROVE  /\ \A k \in Locals(prog) : Below(lat'[k], lat[k]) /\ (lat'[k] # lat[k] => Changed(k)')
           /\ \A k : Changed(k) => Changed(k)'
           /\ Below(lat'[l], v)
           /\ \A k \in Locals(prog) : k # l => lat'[k] = lat[k]
  <1>1. lat \in [Locals(prog) -> LatticeValue] /\ valueWork \in Seq(Locals(prog))
    BY DEF SccpTypeOK
  <1>2. lat[l] \in LatticeValue /\ Below(Meet(lat[l], v), lat[l]) /\ Below(Meet(lat[l], v), v)
    BY <1>1, MeetIsBelow
  <1>3. lat'[l] = Meet(lat[l], v) /\ \A k \in Locals(prog) : k # l => lat'[k] = lat[k]
    BY <1>1 DEF Flow
  <1>4. \A k : Changed(k) => Changed(k)'
    <2>1. CASE valueWork' = valueWork
      BY <2>1 DEF Changed
    <2>2. CASE valueWork' = Append(valueWork, l)
      <3>1. /\ Len(valueWork') = Len(valueWork) + 1 /\ Len(valueWork) \in Nat
            /\ \A n \in 1 .. Len(valueWork) : valueWork'[n] = valueWork[n]
        BY <1>1, <2>2, AppendProperties, LenProperties
      <3> QED
        BY <3>1 DEF Changed
    <2> QED
      BY <2>1, <2>2 DEF Flow
  <1>5. lat'[l] # lat[l] => Changed(l)'
    <2> SUFFICES ASSUME lat'[l] # lat[l] PROVE Changed(l)'
      OBVIOUS
    <2>1. valueWork' = Append(valueWork, l)
      BY <1>3 DEF Flow
    <2>2. /\ Len(valueWork') = Len(valueWork) + 1 /\ Len(valueWork) \in Nat
          /\ valueWork'[Len(valueWork) + 1] = l
      BY <1>1, <2>1, AppendProperties, LenProperties
    <2>3. Len(valueWork) + 1 \in 1 .. Len(valueWork')
      BY <2>2
    <2> QED
      BY <2>2, <2>3 DEF Changed
  <1> QED
    BY <1>2, <1>3, <1>4, <1>5, BelowIsReflexive

LEMMA NoFlowMarks ==
    ASSUME NoFlow
    PROVE  /\ \A k : Below(lat'[k], lat[k]) /\ lat'[k] = lat[k]
           /\ \A k : Changed(k) <=> Changed(k)'
  BY BelowIsReflexive DEF NoFlow, Changed
-----------------------------------------------------------------------------
(* The parts of a program that the constraints are about. *)
LEMMA PartsOfBlock ==
    ASSUME IsProgram(prog), NEW b \in BlockIds(prog)
    PROVE  /\ \A j \in 1 .. Len(prog.blocks[b].ops) : prog.blocks[b].ops[j] \in 1 .. Len(prog.ops)
           /\ \A k \in 1 .. Len(Successors(prog, b)) : Successors(prog, b)[k] \in BlockIds(prog)
           /\ \A k \in 1 .. Len(prog.blocks[b].ins) : prog.blocks[b].ins[k] \in Locals(prog)
           /\ \A k \in 1 .. Len(prog.blocks[b].outs) : prog.blocks[b].outs[k] \in Locals(prog)
           /\ Condition(prog.blocks[b].ctl) \subseteq Locals(prog)
           /\ Len(prog.blocks[b].ops) \in Nat /\ Len(Successors(prog, b)) \in Nat
  <1>1. /\ prog.blocks[b].ops \in Seq(1 .. Len(prog.ops))
        /\ prog.blocks[b].ins \in Seq(Locals(prog))
        /\ prog.blocks[b].outs \in Seq(Locals(prog))
        /\ prog.blocks[b].ctl \in Controls(prog)
    BY Tables DEF BasicBlocks
  <1>2. Condition(prog.blocks[b].ctl) \subseteq Locals(prog)
    BY <1>1 DEF Condition, Controls
  <1> QED
    BY <1>1, <1>2, SuccessorsAreBlocks, ElementOfSeq, LenProperties

LEMMA PartsOfOp ==
    ASSUME IsProgram(prog), NEW i \in 1 .. Len(prog.ops)
    PROVE  /\ prog.ops[i] \in Operations(prog)
           /\ \A k \in 1 .. Len(prog.ops[i].ins) : prog.ops[i].ins[k] \in Locals(prog)
           /\ \A k \in 1 .. Len(prog.ops[i].outs) : prog.ops[i].outs[k] \in Locals(prog)
           /\ Len(prog.ops[i].ins) \in Nat /\ Len(prog.ops[i].outs) \in Nat
  <1>1. prog.ops[i] \in Operations(prog)
    BY Tables
  <1>2. prog.ops[i].ins \in Seq(Locals(prog)) /\ prog.ops[i].outs \in Seq(Locals(prog))
    BY <1>1 DEF Operations
  <1> QED
    BY <1>1, <1>2, ElementOfSeq, LenProperties

(* What an operation computes and where a block may go depends on the      *)
(* values they read only.                                                  *)
LEMMA ResultDependsOnInputs ==
    ASSUME NEW op, \A k \in 1 .. Len(op.ins) : lat'[op.ins[k]] = lat[op.ins[k]]
    PROVE  ResultOf(op)' = ResultOf(op) /\ Evaluates(op)' = Evaluates(op)
  <1>1. [j \in 1 .. Len(op.ins) |-> lat'[op.ins[j]].val] = [j \in 1 .. Len(op.ins) |-> lat[op.ins[j]].val]
    OBVIOUS
  <1>2. Evaluates(op)' = Evaluates(op)
    BY DEF Evaluates, IsConst
  <1> QED
    BY <1>1, <1>2 DEF ResultOf

LEMMA ControlDependsOnCondition ==
    ASSUME UNCHANGED prog, NEW b, NEW to, \A l \in Condition(prog.blocks[b].ctl) : lat'[l] = lat[l]
    PROVE  EdgeReachable(b, to)' = EdgeReachable(b, to)
  BY DEF EdgeReachable, Condition, IsConst

LEMMA ResultsAreValues ==
    ASSUME NEW op
    PROVE  /\ op.op = "const" => ResultOf(op) = Const(op.val)
           /\ op.op = "evm" => ResultOf(op) = EvmConst(op.val)
  <1> DEFINE computed == Const(Evaluate(op.op, [j \in 1 .. Len(op.ins) |-> lat[op.ins[j]].val]))
  <1>1. ResultOf(op) = CASE op.op = "const" -> Const(op.val)
                         [] op.op = "evm" -> EvmConst(op.val)
                         [] Evaluates(op) -> computed
                         [] OTHER -> Overdefined
    BY DEF ResultOf
  <1> HIDE DEF computed
  <1>2. Evaluates(op) => op.op \notin {"const", "evm"}
    BY DEF Evaluates, Foldable
  <1>3. CASE op.op = "const"
    BY <1>1, <1>2, <1>3
  <1>4. CASE op.op = "evm"
    BY <1>1, <1>2, <1>4
  <1> QED
    BY <1>3, <1>4

(* A constraint that holds or is owed stays so, unless its debt is dropped. *)
LEMMA OpStaysKept ==
    ASSUME SccpTypeOK, Propagates, NEW b \in BlockIds(prog), NEW i \in 1 .. Len(prog.ops),
           OpIsKept(b, i),
           Queued(b) => OpIsKept(b, i)',
           VisitIsOwed(b, i) => OpIsKept(b, i)',
           \A k \in 1 .. Len(prog.ops[i].outs) :
               InTodo(Task("sink", 0, 0, prog.ops[i].outs[k])) => OutputIsKept(prog.ops[i], k)'
    PROVE  OpIsKept(b, i)'
  <1> DEFINE op == prog.ops[i]
  <1>0. IsProgram(prog) /\ prog' = prog
    BY DEF SccpTypeOK, Propagates, sccpInputs
  <1> SUFFICES ASSUME \A k \in 1 .. Len(op.outs) : OutputIsKept(op, k)
               PROVE  OpIsKept(b, i)'
    BY DEF OpIsKept
  <1>1. CASE \E k \in 1 .. Len(op.ins) : lat'[op.ins[k]] # lat[op.ins[k]]
    BY <1>0, <1>1, PartsOfOp DEF Propagates, OpIsKept, VisitIsOwed
  <1>2. CASE \A k \in 1 .. Len(op.ins) : lat'[op.ins[k]] = lat[op.ins[k]]
    <2>1. ResultOf(op)' = ResultOf(op)
      BY <1>0, <1>2, ResultDependsOnInputs
    <2>2. ASSUME NEW k \in 1 .. Len(op.outs) PROVE OutputIsKept(op, k)'
      <3>1. op.outs[k] \in Locals(prog)
        BY <1>0, PartsOfOp
      <3>2. Below(lat[op.outs[k]], ResultOf(op)) => Below(lat'[op.outs[k]], ResultOf(op))
        BY <3>1, BelowIsTransitive DEF Propagates
      <3> QED
        BY <1>0, <2>1, <3>2 DEF OutputIsKept
    <2> QED
      BY <1>0, <2>2 DEF OpIsKept
  <1> QED
    BY <1>1, <1>2

LEMMA EdgeStaysKept ==
    ASSUME SccpTypeOK, Propagates, NEW b \in BlockIds(prog), NEW to \in BlockIds(prog),
           Len(prog.blocks[to].ins) = Len(prog.blocks[b].outs),
           EdgeIsKept(b, to),
           Queued(b) => EdgeIsKept(b, to)',
           LookIsOwed(b, to) => EdgeIsKept(b, to)',
           \A k \in 1 .. Len(prog.blocks[to].ins) :
               FlowIsOwed(b, to, k) => HandoverIsKept(b, to, k)' \/ ~EdgeReachable(b, to)'
    PROVE  EdgeIsKept(b, to)'
  <1> DEFINE ins == prog.blocks[to].ins
             outs == prog.blocks[b].outs
  <1>0. IsProgram(prog) /\ prog' = prog
    BY DEF SccpTypeOK, Propagates, sccpInputs
  <1> SUFFICES ASSUME EdgeIsTaken(b, to)
               PROVE  EdgeIsKept(b, to)'
    BY DEF EdgeIsKept
  <1>1. CASE \E l \in Condition(prog.blocks[b].ctl) : lat'[l] # lat[l]
    BY <1>0, <1>1, PartsOfBlock DEF Propagates, EdgeIsKept, LookIsOwed
  <1>2. CASE \A l \in Condition(prog.blocks[b].ctl) : lat'[l] = lat[l]
    <2> SUFFICES ASSUME EdgeReachable(b, to)'
                 PROVE  (to \in reachable /\ \A k \in 1 .. Len(ins) : HandoverIsKept(b, to, k))'
      BY <1>0 DEF EdgeIsKept, EdgeIsTaken
    <2>1. EdgeReachable(b, to)
      BY <1>0, <1>2, ControlDependsOnCondition
    <2>2. to \in reachable' /\ \A k \in 1 .. Len(ins) : HandoverIsKept(b, to, k)
      BY <2>1 DEF EdgeIsTaken, Propagates
    <2>3. ASSUME NEW k \in 1 .. Len(ins) PROVE HandoverIsKept(b, to, k)'
      <3>1. ins[k] \in Locals(prog) /\ outs[k] \in Locals(prog)
        BY <1>0, PartsOfBlock
      <3>2. CASE FlowIsOwed(b, to, k)
        BY <3>2
      <3>3. CASE lat'[outs[k]] # lat[outs[k]]
        BY <1>0, <3>1, <3>3 DEF Propagates, HandoverIsKept, FlowIsOwed
      <3>4. CASE lat'[outs[k]] = lat[outs[k]] /\ Below(lat[ins[k]], lat[outs[k]])
        <4>1. Below(lat'[ins[k]], lat'[outs[k]])
          BY <3>1, <3>4, BelowIsTransitive DEF Propagates
        <4> QED
          BY <1>0, <4>1 DEF HandoverIsKept
      <3> QED
        BY <2>2, <3>2, <3>3, <3>4 DEF HandoverIsKept
    <2> QED
      BY <1>0, <2>2, <2>3
  <1> QED
    BY <1>1, <1>2
-----------------------------------------------------------------------------
(* What a visit of an operation leaves: its outputs lie below what it      *)
(* computes, or are about to be lowered, or an input has changed.          *)
LEMMA TransferKeeps ==
    ASSUME SccpTypeOK, UNCHANGED sccpInputs, todo # <<>>, NEW i \in 1 .. Len(prog.ops),
           \/ Transfer(prog.ops[i], Tail(todo))
           \/ /\ prog.ops[i].op \in {"const", "evm"}
              /\ Flow(prog.ops[i].outs[1], ResultOf(prog.ops[i]))
              /\ todo' = Tail(todo),
           NEW b
    PROVE  OpIsKept(b, i)'
  <1> DEFINE op == prog.ops[i]
             out == op.outs[1]
  <1>0. IsProgram(prog) /\ prog' = prog /\ op \in Operations(prog) /\ todo \in Seq(Tasks)
    BY Tables DEF SccpTypeOK, sccpInputs
  <1>1. CASE (Evaluates(op) \/ op.op \in {"const", "evm"}) /\ Flow(out, ResultOf(op))
    <2>1. Len(op.outs) = 1 /\ out \in Locals(prog)
      BY <1>0, <1>1, PartsOfOp DEF Operations, Evaluates, Foldable
    <2>2. ResultOf(op) \in LatticeValue
      <3>1. CASE op.op = "const"
        <4>1. op.val \in Word /\ ResultOf(op) = Const(op.val)
          BY <1>0, <3>1, ResultsAreValues DEF Operations
        <4> QED
          BY <4>1 DEF LatticeValue
      <3>2. CASE op.op = "evm"
        <4>1. op.val \in EvmKinds
          BY <1>0, <3>2 DEF Operations
        <4>2. ResultOf(op) = EvmConst(op.val)
          BY <3>2, ResultsAreValues
        <4> QED
          BY <4>1, <4>2 DEF LatticeValue
      <3>3. CASE op.op \notin {"const", "evm"} /\ Evaluates(op)
        <4>1. ResultOf(op) = Const(Evaluate(op.op, [j \in 1 .. Len(op.ins) |-> lat[op.ins[j]].val]))
          BY <3>3 DEF ResultOf
        <4> QED
          BY <1>0, <3>3, <4>1, EvaluateIsWord
      <3> QED
        BY <1>1, <3>1, <3>2, <3>3
    <2>3. /\ Below(lat'[out], ResultOf(op))
          /\ \A k \in Locals(prog) : lat'[k] # lat[k] => Changed(k)'
      BY <1>1, <2>1, <2>2, FlowMarks
    <2>4. CASE \E k \in 1 .. Len(op.ins) : lat'[op.ins[k]] # lat[op.ins[k]]
      BY <1>0, <2>3, <2>4, PartsOfOp DEF OpIsKept, VisitIsOwed
    <2>5. CASE \A k \in 1 .. Len(op.ins) : lat'[op.ins[k]] = lat[op.ins[k]]
      <3>1. ResultOf(op)' = ResultOf(op)
        BY <1>0, <2>5, ResultDependsOnInputs
      <3>2. \A k \in 1 .. Len(op.outs) : k = 1
        BY <2>1
      <3>3. \A k \in 1 .. Len(op.outs) : OutputIsKept(op, k)'
        BY <1>0, <2>3, <3>1, <3>2 DEF OutputIsKept
      <3> QED
        BY <1>0, <3>3 DEF OpIsKept
    <2> QED
      BY <2>4, <2>5
  <1>2. CASE todo' = SinkTasks(op) \o Tail(todo)
    <2>1. \A n \in 1 .. Len(SinkTasks(op)) : InTodo(SinkTasks(op)[n])'
      BY <1>0, <1>2, SinkTasksAreTasks, TailKeeps
    <2>2. \A k \in 1 .. Len(op.outs) : InTodo(Task("sink", 0, 0, op.outs[k]))'
      <3>1. Len(SinkTasks(op)) = Len(op.outs) /\ \A k \in 1 .. Len(op.outs) : SinkTasks(op)[k] = Task("sink", 0, 0, op.outs[k])
        BY <1>0, PartsOfOp DEF SinkTasks
      <3>2. ASSUME NEW k \in 1 .. Len(op.outs) PROVE InTodo(Task("sink", 0, 0, op.outs[k]))'
        <4>1. SinkTasks(op)[k] = Task("sink", 0, 0, op.outs[k]) /\ InTodo(SinkTasks(op)[k])'
          BY <2>1, <3>1
        <4>2. SinkTasks(op)' = SinkTasks(op)
          BY <1>0 DEF SinkTasks
        <4> QED
          BY <1>0, <4>1, <4>2
      <3> QED
        BY <3>2
    <2> QED
      BY <1>0, <2>2 DEF OpIsKept, OutputIsKept
  <1>3. op.op \notin {"const", "evm"} \/ ~Evaluates(op)
    BY DEF Evaluates, Foldable
  <1>4. Evaluates(op) => ResultOf(op) = Const(Evaluate(op.op, [k \in 1 .. Len(op.ins) |-> lat[op.ins[k]].val]))
    BY <1>3 DEF ResultOf
  <1> QED
    BY <1>1, <1>2, <1>4 DEF Transfer

(* The steps that only replace the step at hand, and put on the lists what *)
(* they change or reach: a constraint to which that step does not belong   *)
(* stays kept.                                                             *)
Continues ==
    /\ Propagates
    /\ todo # <<>>
    /\ \A t : InTodo(t) => t = Task_ \/ InTodo(t)'
    /\ \A l : Changed(l) => Changed(l)'
    /\ \A b : Queued(b) => Queued(b)'
    /\ \A b \in reachable' : b \in reachable \/ Queued(b)'

IsVisitOf(b, i) == Task_ = Task("op", b, b, i) \/ Task_ = Task("opUse", b, b, i)
IsLookAt(b, to) == Task_ = Task("edge", b, to, 0) \/ Task_ = Task("controlUse", b, b, 0)
IsFlowOf(b, to, k) ==
    Task_ \in {Task("flow", b, to, k), Task("output", b, to, k), Task("outputUse", b, b, k)}

(* So a step has to show that the constraints it belongs to stay kept.     *)
LEMMA StepKeepsBlocks ==
    ASSUME TypeInv, sccp # "done", Continues, reachable \subseteq BlockIds(prog), \A b \in reachable : BlockIsKept(b),
           \A b \in reachable, i \in 1 .. Len(prog.ops) : IsVisitOf(b, i) => OpIsKept(b, i)',
           \A i \in 1 .. Len(prog.ops) : \A k \in 1 .. Len(prog.ops[i].outs) :
               Task_ = Task("sink", 0, 0, prog.ops[i].outs[k]) => OutputIsKept(prog.ops[i], k)',
           \A b \in reachable : \A n \in 1 .. Len(Successors(prog, b)) :
               IsLookAt(b, Successors(prog, b)[n]) => EdgeIsKept(b, Successors(prog, b)[n])',
           \A b \in reachable : \A n \in 1 .. Len(Successors(prog, b)) :
               \A k \in 1 .. Len(prog.blocks[Successors(prog, b)[n]].ins) :
                   IsFlowOf(b, Successors(prog, b)[n], k) =>
                       \/ HandoverIsKept(b, Successors(prog, b)[n], k)'
                       \/ ~EdgeReachable(b, Successors(prog, b)[n])'
    PROVE  \A b \in reachable' : BlockIsKept(b)'
  <1>0. IsProgram(prog) /\ prog' = prog /\ SccpTypeOK /\ EdgesMatch(prog) /\ Propagates
    BY DEF TypeInv, SccpTypeOK, Continues, Propagates, sccpInputs
  <1>1. ASSUME NEW b, Queued(b)' PROVE BlockIsKept(b)'
    BY <1>1 DEF BlockIsKept, OpIsKept, EdgeIsKept
  <1>2. ASSUME NEW b \in reachable, NEW j \in 1 .. Len(prog.blocks[b].ops)
        PROVE  OpIsKept(b, prog.blocks[b].ops[j])'
    <2>0. PICK i : i = prog.blocks[b].ops[j]
      OBVIOUS
    <2>1. i \in 1 .. Len(prog.ops) /\ b \in BlockIds(prog) /\ OpIsKept(b, i)
      BY <1>0, <2>0, PartsOfBlock DEF BlockIsKept
    <2>2. Queued(b) => OpIsKept(b, i)'
      BY DEF Continues, OpIsKept
    <2>3. ASSUME VisitIsOwed(b, i) PROVE OpIsKept(b, i)'
      <3>1. ASSUME NEW t \in {Task("op", b, b, i), Task("opUse", b, b, i)}, InTodo(t)
            PROVE  IsVisitOf(b, i) \/ InTodo(t)'
        BY <3>1 DEF Continues, IsVisitOf
      <3>2. ASSUME NEW k \in 1 .. Len(prog.ops[i].ins), Changed(prog.ops[i].ins[k])
            PROVE  VisitIsOwed(b, i)'
        <4>1. PICK l : l = prog.ops[i].ins[k]
          OBVIOUS
        <4>2. Changed(l)'
          BY <3>2, <4>1 DEF Continues
        <4> QED
          BY <1>0, <4>1, <4>2 DEF VisitIsOwed
      <3>3. IsVisitOf(b, i) => OpIsKept(b, i)'
        BY <2>1
      <3>4. VisitIsOwed(b, i)' => OpIsKept(b, i)'
        BY DEF OpIsKept
      <3> QED
        BY <2>3, <3>1, <3>2, <3>3, <3>4 DEF VisitIsOwed
    <2>4. ASSUME NEW k \in 1 .. Len(prog.ops[i].outs), InTodo(Task("sink", 0, 0, prog.ops[i].outs[k]))
          PROVE  OutputIsKept(prog.ops[i], k)'
      <3> DEFINE t == Task("sink", 0, 0, prog.ops[i].outs[k])
      <3>0. t' = t
        BY <1>0
      <3>1. PICK x : x = t
        OBVIOUS
      <3>2. x = Task_ \/ InTodo(x)'
        BY <2>4, <3>1 DEF Continues
      <3>3. CASE x = Task_
        BY <2>1, <3>1, <3>3
      <3>4. CASE InTodo(x)'
        BY <1>0, <3>0, <3>1, <3>4 DEF OutputIsKept
      <3> QED
        BY <3>2, <3>3, <3>4
    <2> QED
      <3>1. OpIsKept(b, i)'
        BY <1>0, <2>1, <2>2, <2>3, <2>4, OpStaysKept
      <3>2. prog'.blocks[b].ops[j] = i
        BY <1>0, <2>0
      <3> QED
        BY <3>1, <3>2
  <1>3. ASSUME NEW b \in reachable, NEW n \in 1 .. Len(Successors(prog, b))
        PROVE  EdgeIsKept(b, Successors(prog, b)[n])'
    <2>0. PICK to : to = Successors(prog, b)[n]
      OBVIOUS
    <2>1. /\ to \in BlockIds(prog) /\ b \in BlockIds(prog) /\ EdgeIsKept(b, to)
          /\ Len(prog.blocks[to].ins) = Len(prog.blocks[b].outs)
      BY <1>0, <2>0, PartsOfBlock DEF BlockIsKept, EdgesMatch
    <2>2. Queued(b) => EdgeIsKept(b, to)'
      BY DEF Continues, EdgeIsKept
    <2>3. LookIsOwed(b, to) => EdgeIsKept(b, to)'
      BY <1>0, <2>0 DEF Continues, LookIsOwed, EdgeIsKept, IsLookAt
    <2>4. ASSUME NEW k \in 1 .. Len(prog.blocks[to].ins), FlowIsOwed(b, to, k)
          PROVE  HandoverIsKept(b, to, k)' \/ ~EdgeReachable(b, to)'
      <3>1. CASE IsFlowOf(b, to, k)
        <4>1. Successors(prog', b)[n] = to
          BY <1>0, <2>0
        <4> QED
          BY <2>0, <3>1, <4>1
      <3>2. CASE ~IsFlowOf(b, to, k)
        BY <1>0, <2>4, <3>2 DEF Continues, FlowIsOwed, HandoverIsKept, IsFlowOf
      <3> QED
        BY <3>1, <3>2
    <2>5. EdgeIsKept(b, to)'
      BY <1>0, <2>1, <2>2, <2>3, <2>4, EdgeStaysKept
    <2>6. Successors(prog', b)[n] = to
      BY <1>0, <2>0
    <2> QED
      BY <2>5, <2>6
  <1>4. ASSUME NEW b \in reachable PROVE BlockIsKept(b)'
    BY <1>0, <1>2, <1>3 DEF BlockIsKept
  <1> QED
    BY <1>1, <1>4 DEF Continues
-----------------------------------------------------------------------------
(* The actions: first those that serve a work list. *)
LEMMA InTodoOf ==
    ASSUME NEW s, todo' = s
    PROVE  \A n \in 1 .. Len(s) : InTodo(s[n])'
  BY DEF InTodo

LEMMA TakeBlockKeepsBlocks ==
    ASSUME TypeInv, Running, \A b \in reachable : BlockIsKept(b), TakeBlock
    PROVE  \A b \in reachable' : BlockIsKept(b)'
  <1> PICK taken : taken = Last(cfgWork)
    OBVIOUS
  <1>0. /\ IsProgram(prog) /\ prog' = prog /\ SccpTypeOK /\ EdgesMatch(prog) /\ UNCHANGED sccpInputs
        /\ reachable' = reachable /\ reachable \subseteq BlockIds(prog) /\ todo = <<>>
        /\ cfgWork \in Seq(BlockIds(prog)) /\ cfgWork # <<>> /\ cfgWork' = Front(cfgWork)
        /\ UNCHANGED <<lat, valueWork>>
    BY DEF TypeInv, SccpTypeOK, TakeBlock, Running, sccpInputs
  <1>1. Propagates /\ \A l : Changed(l) <=> Changed(l)'
    BY <1>0, BelowIsReflexive DEF Propagates, Changed
  <1>2. taken \in BlockIds(prog) /\ \A b : Queued(b) => b = taken \/ Queued(b)'
    BY <1>0, FrontKeeps, SMTT(30) DEF Queued
  <1>3. \A t : ~InTodo(t)
    BY <1>0 DEF InTodo
  <1>4. /\ \A n \in 1 .. Len(prog.blocks[taken].ops) : \A i :
               i = prog.blocks[taken].ops[n] => InTodo(Task("op", taken, taken, i))'
        /\ \A n \in 1 .. Len(Successors(prog, taken)) : \A to :
               to = Successors(prog, taken)[n] => InTodo(Task("edge", taken, to, 0))'
    <2>1. PICK ss, ee : ss = OpTasks(taken) /\ ee = EdgeTasks(taken)
      OBVIOUS
    <2>2. ss \in Seq(Tasks) /\ ee \in Seq(Tasks) /\ todo' = ss \o ee
      BY <1>0, <1>2, <2>1, OpTasksAreTasks, EdgeTasksAreTasks DEF TakeBlock
    <2>3. /\ Len(ss \o ee) = Len(ss) + Len(ee) /\ Len(ss) \in Nat /\ Len(ee) \in Nat
          /\ \A n \in 1 .. Len(ss) : (ss \o ee)[n] = ss[n]
          /\ \A n \in 1 .. Len(ee) : (ss \o ee)[Len(ss) + n] = ee[n]
      BY <2>2, ConcatProperties, LenProperties
    <2>4. \A n \in 1 .. Len(ss) : InTodo(ss[n])'
      BY <2>2, <2>3 DEF InTodo
    <2>5. \A n \in 1 .. Len(ee) : InTodo(ee[n])'
      <3> TAKE n \in 1 .. Len(ee)
      <3>1. Len(ss) + n \in 1 .. Len(todo') /\ todo'[Len(ss) + n] = ee[n]
        BY <2>2, <2>3
      <3> QED
        BY <3>1 DEF InTodo
    <2>6. /\ Len(ss) = Len(prog.blocks[taken].ops)
          /\ \A n \in 1 .. Len(ss) : ss[n] = Task("op", taken, taken, prog.blocks[taken].ops[n])
          /\ Len(ee) = Len(Successors(prog, taken))
          /\ \A n \in 1 .. Len(ee) : ee[n] = Task("edge", taken, Successors(prog, taken)[n], 0)
      BY <1>0, <1>2, <2>1, PartsOfBlock DEF OpTasks, EdgeTasks
    <2> QED
      BY <2>4, <2>5, <2>6
  <1>5. ASSUME NEW b \in reachable, NEW j \in 1 .. Len(prog.blocks[b].ops)
        PROVE  OpIsKept(b, prog.blocks[b].ops[j])'
    <2>0. PICK i : i = prog.blocks[b].ops[j]
      OBVIOUS
    <2>1. i \in 1 .. Len(prog.ops) /\ b \in BlockIds(prog) /\ OpIsKept(b, i)
      BY <1>0, <2>0, PartsOfBlock DEF BlockIsKept
    <2>2. OpIsKept(b, i)'
      <3>1. CASE b = taken
        BY <1>4, <2>0, <3>1 DEF OpIsKept, VisitIsOwed
      <3>2. CASE b # taken
        <4>1. Queued(b) => OpIsKept(b, i)'
          BY <1>2, <3>2 DEF OpIsKept
        <4>2. VisitIsOwed(b, i) => OpIsKept(b, i)'
          BY <1>0, <1>1, <1>3 DEF OpIsKept, VisitIsOwed
        <4> QED
          BY <1>0, <1>1, <1>3, <2>1, <4>1, <4>2, OpStaysKept
      <3> QED
        BY <3>1, <3>2
    <2>3. prog'.blocks[b].ops[j] = i
      BY <1>0, <2>0
    <2> QED
      BY <2>2, <2>3
  <1>6. ASSUME NEW b \in reachable, NEW n \in 1 .. Len(Successors(prog, b))
        PROVE  EdgeIsKept(b, Successors(prog, b)[n])'
    <2>0. PICK to : to = Successors(prog, b)[n]
      OBVIOUS
    <2>1. /\ to \in BlockIds(prog) /\ b \in BlockIds(prog) /\ EdgeIsKept(b, to)
          /\ Len(prog.blocks[to].ins) = Len(prog.blocks[b].outs)
      BY <1>0, <2>0, PartsOfBlock DEF BlockIsKept, EdgesMatch
    <2>2. EdgeIsKept(b, to)'
      <3>1. CASE b = taken
        BY <1>4, <2>0, <3>1 DEF EdgeIsKept, LookIsOwed
      <3>2. CASE b # taken
        <4>1. Queued(b) => EdgeIsKept(b, to)'
          BY <1>2, <3>2 DEF EdgeIsKept
        <4>2. LookIsOwed(b, to) => EdgeIsKept(b, to)'
          BY <1>0, <1>1, <1>3 DEF EdgeIsKept, LookIsOwed
        <4>3. \A k \in 1 .. Len(prog.blocks[to].ins) : FlowIsOwed(b, to, k) => HandoverIsKept(b, to, k)'
          BY <1>0, <1>1, <1>3 DEF FlowIsOwed, HandoverIsKept
        <4> QED
          BY <1>0, <1>1, <2>1, <4>1, <4>2, <4>3, EdgeStaysKept
      <3> QED
        BY <3>1, <3>2
    <2>3. Successors(prog', b)[n] = to
      BY <1>0, <2>0
    <2> QED
      BY <2>2, <2>3
  <1> QED
    BY <1>0, <1>5, <1>6 DEF BlockIsKept

(* A changed local goes to all the places that read it. *)
LEMMA TakeValueKeepsBlocks ==
    ASSUME TypeInv, Running, \A b \in reachable : BlockIsKept(b), TakeValue,
           NEW region, StaysIn(region)
    PROVE  \A b \in reachable' : BlockIsKept(b)'
  <1> PICK taken : taken = Last(valueWork)
    OBVIOUS
  <1>0. /\ IsProgram(prog) /\ prog' = prog /\ SccpTypeOK /\ EdgesMatch(prog) /\ UNCHANGED sccpInputs
        /\ reachable' = reachable /\ reachable \subseteq BlockIds(prog) /\ todo = <<>>
        /\ valueWork \in Seq(Locals(prog)) /\ valueWork # <<>> /\ valueWork' = Front(valueWork)
        /\ UNCHANGED <<lat, cfgWork>> /\ todo' = UseTasks(taken)
    BY DEF TypeInv, SccpTypeOK, TakeValue, Running, sccpInputs
  <1>1. /\ Propagates
        /\ \A b : Queued(b) <=> Queued(b)'
        /\ \A l : Changed(l) => l = taken \/ Changed(l)'
        /\ taken \in Locals(prog)
    <2>1. Propagates
      BY <1>0, BelowIsReflexive DEF Propagates
    <2>2. \A b : Queued(b) <=> Queued(b)'
      BY <1>0 DEF Queued
    <2>3. taken \in Locals(prog) /\ \A l : Changed(l) => l = taken \/ Changed(l)'
      BY <1>0, FrontKeeps, SMTT(30) DEF Changed
    <2> QED
      BY <2>1, <2>2, <2>3
  <1>2. \A t : ~InTodo(t)
    BY <1>0 DEF InTodo
  <1>3. ASSUME NEW block, NEW kind, NEW at, IsUsed(uses, taken, block, kind, at)
        PROVE  InTodo(Task(kind, block, block, at))'
    <2>1. PICK k \in 1 .. Len(uses[taken]) : uses[taken][k] = [block |-> block, kind |-> kind, at |-> at]
      BY <1>3 DEF IsUsed
    <2>2. uses[taken] \in Seq(Uses(prog))
      BY <1>0, <1>1 DEF SccpTypeOK
    <2>3. Len(todo') = Len(uses[taken]) /\ todo'[k] = Task(kind, block, block, at)
      BY <1>0, <2>1, <2>2, LenProperties DEF UseTasks
    <2> QED
      BY <2>3 DEF InTodo
  <1>4. \A b \in reachable : ReadsAreListed(prog, uses, b)
    BY DEF StaysIn, IsCovered
  <1>5. ASSUME NEW b \in reachable, NEW j \in 1 .. Len(prog.blocks[b].ops)
        PROVE  OpIsKept(b, prog.blocks[b].ops[j])'
    <2>0. PICK i : i = prog.blocks[b].ops[j]
      OBVIOUS
    <2>1. i \in 1 .. Len(prog.ops) /\ b \in BlockIds(prog) /\ OpIsKept(b, i)
      BY <1>0, <2>0, PartsOfBlock DEF BlockIsKept
    <2>2. Queued(b) => OpIsKept(b, i)'
      BY <1>1 DEF OpIsKept
    <2>3. ASSUME VisitIsOwed(b, i) PROVE OpIsKept(b, i)'
      <3>1. PICK k \in 1 .. Len(prog.ops[i].ins) : Changed(prog.ops[i].ins[k])
        BY <1>2, <2>3 DEF VisitIsOwed
      <3>2. PICK l : l = prog.ops[i].ins[k]
        OBVIOUS
      <3>3. CASE l = taken
        <4>1. IsUsed(uses, taken, b, "opUse", i)
          BY <1>4, <2>0, <3>2, <3>3 DEF ReadsAreListed
        <4> QED
          BY <1>3, <4>1 DEF OpIsKept, VisitIsOwed
      <3>4. CASE Changed(l)'
        BY <1>0, <3>2, <3>4 DEF OpIsKept, VisitIsOwed
      <3> QED
        BY <1>1, <3>1, <3>2, <3>3, <3>4
    <2>4. OpIsKept(b, i)'
      BY <1>0, <1>1, <1>2, <2>1, <2>2, <2>3, OpStaysKept
    <2>5. prog'.blocks[b].ops[j] = i
      BY <1>0, <2>0
    <2> QED
      BY <2>4, <2>5
  <1>6. ASSUME NEW b \in reachable, NEW n \in 1 .. Len(Successors(prog, b))
        PROVE  EdgeIsKept(b, Successors(prog, b)[n])'
    <2>0. PICK to : to = Successors(prog, b)[n]
      OBVIOUS
    <2>1. /\ to \in BlockIds(prog) /\ b \in BlockIds(prog) /\ EdgeIsKept(b, to)
          /\ Len(prog.blocks[to].ins) = Len(prog.blocks[b].outs)
      BY <1>0, <2>0, PartsOfBlock DEF BlockIsKept, EdgesMatch
    <2>2. Queued(b) => EdgeIsKept(b, to)'
      BY <1>1 DEF EdgeIsKept
    <2>3. ASSUME LookIsOwed(b, to) PROVE EdgeIsKept(b, to)'
      <3>1. PICK l \in Condition(prog.blocks[b].ctl) : Changed(l)
        BY <1>2, <2>3 DEF LookIsOwed
      <3>2. CASE l = taken
        <4>1. IsUsed(uses, taken, b, "controlUse", 0)
          BY <1>4, <3>2 DEF ReadsAreListed
        <4> QED
          BY <1>3, <4>1 DEF EdgeIsKept, LookIsOwed
      <3>3. CASE Changed(l)'
        BY <1>0, <3>3 DEF EdgeIsKept, LookIsOwed
      <3> QED
        BY <1>1, <3>1, <3>2, <3>3
    <2>4. ASSUME NEW k \in 1 .. Len(prog.blocks[to].ins), FlowIsOwed(b, to, k)
          PROVE  HandoverIsKept(b, to, k)'
      <3>1. PICK l : l = prog.blocks[b].outs[k]
        OBVIOUS
      <3>2. Changed(l)
        BY <1>2, <2>4, <3>1 DEF FlowIsOwed
      <3>3. CASE l = taken
        <4>1. IsUsed(uses, taken, b, "outputUse", k)
          BY <1>4, <2>1, <3>1, <3>3 DEF ReadsAreListed
        <4> QED
          BY <1>3, <4>1 DEF HandoverIsKept, FlowIsOwed
      <3>4. CASE Changed(l)'
        BY <1>0, <3>1, <3>4 DEF HandoverIsKept, FlowIsOwed
      <3> QED
        BY <1>1, <3>2, <3>3, <3>4
    <2>5. EdgeIsKept(b, to)'
      BY <1>0, <1>1, <2>1, <2>2, <2>3, <2>4, EdgeStaysKept
    <2>6. Successors(prog', b)[n] = to
      BY <1>0, <2>0
    <2> QED
      BY <2>5, <2>6
  <1> QED
    BY <1>0, <1>5, <1>6 DEF BlockIsKept
-----------------------------------------------------------------------------
(* The actions that carry out the step at hand. *)
LEMMA StepContext ==
    ASSUME TypeInv, Running, todo # <<>>, UNCHANGED sccpInputs
    PROVE  /\ IsProgram(prog) /\ prog' = prog /\ SccpTypeOK /\ EdgesMatch(prog)
           /\ reachable \subseteq BlockIds(prog) /\ sccp # "done"
           /\ Task_ \in Tasks /\ todo \in Seq(Tasks)
  BY CurrentTask DEF TypeInv, SccpTypeOK, Running, sccpInputs

(* A step that leaves the reached blocks alone goes on with some steps in   *)
(* place of the one at hand.                                               *)
LEMMA StepContinues ==
    ASSUME TypeInv, Running, todo # <<>>, UNCHANGED <<sccpInputs, cfgWork, reachable>>,
           \/ NoFlow
           \/ \E l \in Locals(prog), v \in LatticeValue : Flow(l, v),
           \/ todo' = Tail(todo)
           \/ \E s \in Seq(Tasks) : todo' = s \o Tail(todo)
    PROVE  Continues
  <1>1. Propagates /\ \A l : Changed(l) => Changed(l)'
    <2>1. CASE NoFlow
      BY <2>1, NoFlowMarks DEF Propagates
    <2>2. CASE \E l \in Locals(prog), v \in LatticeValue : Flow(l, v)
      BY <2>2, FlowMarks DEF Propagates, TypeInv
    <2> QED
      BY <2>1, <2>2
  <1>2. \A t : InTodo(t) => t = Task_ \/ InTodo(t)'
    BY StepContext, TailKeeps, TailDrops
  <1>3. \A b : Queued(b) => Queued(b)'
    BY DEF Queued
  <1> QED
    BY <1>1, <1>2, <1>3 DEF Continues

LEMMA VisitContinues ==
    ASSUME TypeInv, Running, todo # <<>>, UNCHANGED <<sccpInputs, cfgWork, reachable>>,
           NEW i \in 1 .. Len(prog.ops),
           \/ Transfer(prog.ops[i], Tail(todo))
           \/ /\ prog.ops[i].op \in {"const", "evm"}
              /\ Flow(prog.ops[i].outs[1], ResultOf(prog.ops[i]))
              /\ todo' = Tail(todo)
    PROVE  Continues
  <1> DEFINE op == prog.ops[i]
  <1>1. op \in Operations(prog) /\ IsProgram(prog) /\ SccpTypeOK
    BY Tables DEF TypeInv, SccpTypeOK
  <1>2. CASE Evaluates(op) /\ Transfer(op, Tail(todo))
    <2>1. op.outs[1] \in Locals(prog)
      BY <1>1, <1>2, PartsOfOp DEF Operations, Evaluates
    <2> QED
      BY <1>1, <1>2, <2>1, EvaluateIsWord, StepContinues DEF Transfer
  <1>3. CASE ~Evaluates(op) /\ Transfer(op, Tail(todo))
    BY <1>1, <1>3, SinkTasksAreTasks, StepContinues DEF Transfer
  <1>4. CASE op.op \in {"const", "evm"} /\ Flow(op.outs[1], ResultOf(op)) /\ todo' = Tail(todo)
    <2>1. op.outs[1] \in Locals(prog) /\ (op.op = "const" => op.val \in Word) /\ (op.op = "evm" => op.val \in EvmKinds)
      BY <1>1, <1>4, PartsOfOp DEF Operations
    <2>2. ResultOf(op) \in LatticeValue
      BY <1>4, <2>1, ResultsAreValues DEF LatticeValue
    <2> QED
      BY <1>4, <2>1, <2>2, StepContinues
  <1> QED
    BY <1>2, <1>3, <1>4

LEMMA VisitOpKeepsBlocks ==
    ASSUME TypeInv, Running, \A b \in reachable : BlockIsKept(b), VisitOp
    PROVE  \A b \in reachable' : BlockIsKept(b)'
  <1>0. /\ IsProgram(prog) /\ prog' = prog /\ SccpTypeOK /\ EdgesMatch(prog)
        /\ reachable \subseteq BlockIds(prog) /\ sccp # "done"
        /\ Task_ \in Tasks /\ todo \in Seq(Tasks)
        /\ todo # <<>> /\ Task_.kind = "op" /\ reachable' = reachable /\ cfgWork' = cfgWork
        /\ UNCHANGED sccpInputs
    BY StepContext DEF VisitOp, Is
  <1>1. PICK i : i = Task_.i
    OBVIOUS
  <1>2. i \in 1 .. Len(prog.ops)
    BY <1>0, <1>1 DEF Tasks, IsOpTask
  <1>3. \/ Transfer(prog.ops[i], Tail(todo))
        \/ /\ prog.ops[i].op \in {"const", "evm"}
           /\ Flow(prog.ops[i].outs[1], ResultOf(prog.ops[i]))
           /\ todo' = Tail(todo)
    BY <1>1, ResultsAreValues DEF VisitOp
  <1>4. \A b : OpIsKept(b, i)'
    BY <1>0, <1>2, <1>3, TransferKeeps
  <1>5. Continues
    BY <1>0, <1>2, <1>3, VisitContinues
  <1> QED
    BY <1>0, <1>1, <1>4, <1>5, StepKeepsBlocks DEF IsVisitOf, IsLookAt, IsFlowOf, Task

LEMMA SinkKeepsBlocks ==
    ASSUME TypeInv, Running, \A b \in reachable : BlockIsKept(b), Sink
    PROVE  \A b \in reachable' : BlockIsKept(b)'
  <1>0. /\ IsProgram(prog) /\ prog' = prog /\ SccpTypeOK
        /\ reachable \subseteq BlockIds(prog) /\ sccp # "done"
        /\ Task_ \in Tasks /\ todo # <<>> /\ Task_.kind = "sink"
        /\ UNCHANGED <<sccpInputs, cfgWork, reachable>> /\ todo' = Tail(todo)
    BY StepContext DEF Sink, Is
  <1>1. PICK l : l = Task_.i
    OBVIOUS
  <1>2. l \in Locals(prog) /\ Overdefined \in LatticeValue /\ Flow(l, Overdefined)
    BY <1>0, <1>1 DEF Tasks, LatticeValue, Sink
  <1>3. Continues
    BY <1>0, <1>2, StepContinues
  <1>4. lat'[l] = Overdefined
    BY <1>0, <1>2, FlowMarks DEF Below, Overdefined, Unknown
  <1>5. ASSUME NEW i \in 1 .. Len(prog.ops), NEW k \in 1 .. Len(prog.ops[i].outs),
               Task_ = Task("sink", 0, 0, prog.ops[i].outs[k])
        PROVE  OutputIsKept(prog.ops[i], k)'
    <2>1. prog.ops[i].outs[k] = l
      BY <1>1, <1>5 DEF Task
    <2> QED
      BY <1>0, <1>4, <2>1 DEF OutputIsKept, Below
  <1> QED
    BY <1>0, <1>3, <1>5, StepKeepsBlocks DEF IsVisitOf, IsLookAt, IsFlowOf, Task

LEMMA VisitEdgeKeepsBlocks ==
    ASSUME TypeInv, Running, \A b \in reachable : BlockIsKept(b), VisitEdge
    PROVE  \A b \in reachable' : BlockIsKept(b)'
  <1>0. /\ IsProgram(prog) /\ prog' = prog /\ SccpTypeOK /\ EdgesMatch(prog)
        /\ reachable \subseteq BlockIds(prog) /\ sccp # "done"
        /\ Task_ \in Tasks /\ todo # <<>> /\ Task_.kind = "edge" /\ todo \in Seq(Tasks)
        /\ UNCHANGED sccpInputs /\ NoFlow
    BY StepContext DEF VisitEdge, Is
  <1>1. PICK from, to : from = Task_.from /\ to = Task_.to
    OBVIOUS
  <1>2. from \in BlockIds(prog) /\ to \in BlockIds(prog)
    BY <1>0, <1>1 DEF Tasks, IsEdgeTask
  <1>3. EdgeReachable(from, to)' = EdgeReachable(from, to)
    BY <1>0, NoFlowMarks, ControlDependsOnCondition
  <1>4. PICK flows : flows = FlowTasks(from, to)
    OBVIOUS
  <1>5. flows \in Seq(Tasks)
    BY <1>0, <1>2, <1>4, FlowTasksAreTasks
  <1>6. CASE EdgeReachable(from, to)
    <2>1. /\ cfgWork' = IF to \in reachable THEN cfgWork ELSE Append(cfgWork, to)
          /\ reachable' = reachable \cup {to}
          /\ todo' = flows \o Tail(todo)
      BY <1>1, <1>4, <1>6 DEF VisitEdge
    <2>2. /\ \A t : InTodo(t) => t = Task_ \/ InTodo(t)'
          /\ \A n \in 1 .. Len(flows) : InTodo(flows[n])'
      BY <1>0, <1>5, <2>1, TailKeeps
    <2>3. (\A b : Queued(b) => Queued(b)') /\ (to \in reachable \/ Queued(to)')
      <3>1. CASE to \in reachable
        BY <2>1, <3>1 DEF Queued
      <3>2. CASE to \notin reachable
        <4>1. /\ Len(cfgWork') = Len(cfgWork) + 1 /\ Len(cfgWork) \in Nat
              /\ \A n \in 1 .. Len(cfgWork) : cfgWork'[n] = cfgWork[n]
              /\ cfgWork'[Len(cfgWork) + 1] = to
          BY <1>0, <1>2, <2>1, <3>2, AppendProperties, LenProperties DEF SccpTypeOK
        <4>2. Len(cfgWork) + 1 \in 1 .. Len(cfgWork')
          BY <4>1
        <4> QED
          BY <4>1, <4>2 DEF Queued
      <3> QED
        BY <3>1, <3>2
    <2>4. Continues
      BY <1>0, <2>1, <2>2, <2>3, NoFlowMarks DEF Continues, Propagates
    <2>5. ASSUME Len(prog.blocks[to].ins) = Len(prog.blocks[from].outs)
          PROVE  EdgeIsKept(from, to)'
      <3>1. /\ Len(flows) = Len(prog.blocks[to].ins)
            /\ \A k \in 1 .. Len(flows) : flows[k] = Task("flow", from, to, k)
        BY <1>0, <1>2, <1>4, <2>5 DEF FlowTasks
      <3>2. to \in reachable'
        BY <2>1
      <3> QED
        BY <1>0, <2>2, <3>1, <3>2 DEF EdgeIsKept, EdgeIsTaken, HandoverIsKept, FlowIsOwed
    <2>6. \A b \in reachable : \A n \in 1 .. Len(Successors(prog, b)) :
              IsLookAt(b, Successors(prog, b)[n]) => EdgeIsKept(b, Successors(prog, b)[n])'
      <3> SUFFICES ASSUME NEW b \in reachable, NEW n \in 1 .. Len(Successors(prog, b)),
                          IsLookAt(b, Successors(prog, b)[n])
                   PROVE  EdgeIsKept(b, Successors(prog, b)[n])'
        OBVIOUS
      <3>1. b = from /\ Successors(prog, b)[n] = to
        BY <1>0, <1>1 DEF IsLookAt, Task
      <3>2. Len(prog.blocks[to].ins) = Len(prog.blocks[from].outs)
        BY <1>0, <1>2, <3>1 DEF EdgesMatch
      <3>3. Successors(prog', b)[n] = to
        BY <1>0, <3>1
      <3> QED
        BY <2>5, <3>1, <3>2, <3>3
    <2> QED
      BY <1>0, <2>4, <2>6, StepKeepsBlocks DEF IsVisitOf, IsFlowOf, Task
  <1>7. CASE ~EdgeReachable(from, to)
    <2>1. todo' = Tail(todo) /\ UNCHANGED <<cfgWork, reachable>>
      BY <1>1, <1>7 DEF VisitEdge
    <2>2. Continues
      BY <1>0, <2>1, StepContinues
    <2>3. EdgeIsKept(from, to)'
      BY <1>3, <1>7 DEF EdgeIsKept, EdgeIsTaken
    <2>4. \A b \in reachable : \A n \in 1 .. Len(Successors(prog, b)) :
              IsLookAt(b, Successors(prog, b)[n]) => EdgeIsKept(b, Successors(prog, b)[n])'
      <3> SUFFICES ASSUME NEW b \in reachable, NEW n \in 1 .. Len(Successors(prog, b)),
                          IsLookAt(b, Successors(prog, b)[n])
                   PROVE  EdgeIsKept(b, Successors(prog, b)[n])'
        OBVIOUS
      <3>1. b = from /\ Successors(prog, b)[n] = to
        BY <1>0, <1>1 DEF IsLookAt, Task
      <3>2. Successors(prog', b)[n] = to
        BY <1>0, <3>1
      <3> QED
        BY <2>3, <3>1, <3>2
    <2> QED
      BY <1>0, <2>2, <2>4, StepKeepsBlocks DEF IsVisitOf, IsFlowOf, Task
  <1> QED
    BY <1>6, <1>7

(* After a value has flowed it agrees, or has changed on the way. *)
LEMMA FlowAlongKeeps ==
    ASSUME SccpTypeOK, IsFlow(Task_), FlowAlong, UNCHANGED sccpInputs,
           NEW from, NEW to, NEW k, from = Task_.from, to = Task_.to, k = Task_.i
    PROVE  HandoverIsKept(from, to, k)'
  <1>0. IsProgram(prog) /\ prog' = prog /\ lat \in [Locals(prog) -> LatticeValue]
    BY DEF SccpTypeOK, sccpInputs
  <1>1. PICK x, y : x = prog.blocks[to].ins[k] /\ y = prog.blocks[from].outs[k]
    OBVIOUS
  <1>2. x \in Locals(prog) /\ y \in Locals(prog)
    BY <1>0, <1>1, PartsOfBlock DEF IsFlow, IsOutput, IsEdgeTask
  <1>3. Flow(x, lat[y]) /\ lat[y] \in LatticeValue
    BY <1>0, <1>1, <1>2 DEF FlowAlong
  <1>4. Below(lat'[x], lat[y]) /\ (lat'[y] # lat[y] => Changed(y)')
    BY <1>2, <1>3, FlowMarks
  <1> QED
    BY <1>0, <1>1, <1>4 DEF HandoverIsKept, FlowIsOwed

LEMMA FlowOutputsKeepBlocks ==
    ASSUME TypeInv, Running, \A b \in reachable : BlockIsKept(b), FlowOutput \/ FlowSingleOutput
    PROVE  \A b \in reachable' : BlockIsKept(b)'
  <1>0. /\ IsProgram(prog) /\ prog' = prog /\ SccpTypeOK
        /\ reachable \subseteq BlockIds(prog) /\ sccp # "done"
        /\ Task_ \in Tasks /\ todo # <<>> /\ Task_.kind \in {"flow", "output"}
        /\ UNCHANGED <<sccpInputs, cfgWork, reachable>> /\ todo' = Tail(todo)
    <2>1. todo # <<>> /\ Task_.kind \in {"flow", "output"} /\ UNCHANGED <<sccpInputs, cfgWork, reachable>> /\ todo' = Tail(todo)
      BY DEF FlowOutput, FlowSingleOutput, Is
    <2> QED
      BY <2>1, StepContext
  <1>1. PICK from, to, k : from = Task_.from /\ to = Task_.to /\ k = Task_.i
    OBVIOUS
  <1>2. IsFlow(Task_)
    BY <1>0 DEF Tasks
  <1>3. FlowAlong \/ (NoFlow /\ ~EdgeReachable(from, to))
    BY <1>1 DEF FlowOutput, FlowSingleOutput
  <1>4. HandoverIsKept(from, to, k)' \/ ~EdgeReachable(from, to)'
    <2>1. CASE FlowAlong
      BY <1>0, <1>1, <1>2, <2>1, FlowAlongKeeps
    <2>2. CASE NoFlow /\ ~EdgeReachable(from, to)
      BY <1>0, <2>2, NoFlowMarks, ControlDependsOnCondition
    <2> QED
      BY <1>3, <2>1, <2>2
  <1>5. Continues
    <2>1. CASE FlowAlong
      <3>1. PICK x \in Locals(prog), v \in LatticeValue : Flow(x, v)
        <4>1. /\ prog.blocks[to].ins[k] \in Locals(prog) /\ prog.blocks[from].outs[k] \in Locals(prog)
              /\ lat \in [Locals(prog) -> LatticeValue]
          BY <1>0, <1>1, <1>2, PartsOfBlock DEF IsFlow, IsOutput, IsEdgeTask, SccpTypeOK
        <4> QED
          BY <1>1, <2>1, <4>1 DEF FlowAlong
      <3> QED
        BY <1>0, <3>1, StepContinues
    <2>2. CASE NoFlow
      BY <1>0, <2>2, StepContinues
    <2> QED
      BY <1>3, <2>1, <2>2
  <1>6. ASSUME NEW b \in reachable, NEW n \in 1 .. Len(Successors(prog, b)),
               NEW j \in 1 .. Len(prog.blocks[Successors(prog, b)[n]].ins),
               IsFlowOf(b, Successors(prog, b)[n], j)
        PROVE  \/ HandoverIsKept(b, Successors(prog, b)[n], j)'
               \/ ~EdgeReachable(b, Successors(prog, b)[n])'
    <2>1. b = from /\ Successors(prog, b)[n] = to /\ j = k
      BY <1>0, <1>1, <1>6 DEF IsFlowOf, Task
    <2>2. Successors(prog', b)[n] = to
      BY <1>0, <2>1
    <2> QED
      BY <1>4, <2>1, <2>2
  <1> QED
    BY <1>0, <1>5, <1>6, StepKeepsBlocks, SMTT(30) DEF IsVisitOf, IsLookAt, Task

LEMMA VisitUseKeepsBlocks ==
    ASSUME TypeInv, Running, \A b \in reachable : BlockIsKept(b), VisitUse
    PROVE  \A b \in reachable' : BlockIsKept(b)'
  <1>0. /\ IsProgram(prog) /\ prog' = prog /\ SccpTypeOK /\ EdgesMatch(prog)
        /\ reachable \subseteq BlockIds(prog) /\ sccp # "done"
        /\ Task_ \in Tasks /\ todo # <<>> /\ todo \in Seq(Tasks)
        /\ Task_.kind \in UseKinds
        /\ UNCHANGED <<sccpInputs, cfgWork, reachable>>
    <2>1. todo # <<>> /\ Task_.kind \in UseKinds /\ UNCHANGED <<sccpInputs, cfgWork, reachable>>
      BY DEF VisitUse
    <2> QED
      BY <2>1, StepContext
  <1>1. PICK from, i : from = Task_.from /\ i = Task_.i
    OBVIOUS
  <1>2. CASE from \notin reachable /\ todo' = Tail(todo) /\ NoFlow
    <2>1. Continues
      BY <1>0, <1>2, StepContinues
    <2> QED
      BY <1>0, <1>1, <1>2, <2>1, StepKeepsBlocks DEF IsVisitOf, IsLookAt, IsFlowOf, Task, UseKinds
  <1>3. CASE from \in reachable /\ Task_.kind = "opUse"
    <2>1. i \in 1 .. Len(prog.ops)
      BY <1>0, <1>1, <1>3 DEF Tasks, IsOpTask
    <2>2. CASE /\ \A k \in 1 .. Len(prog.ops[i].outs) : lat[prog.ops[i].outs[k]] = Overdefined
               /\ todo' = Tail(todo) /\ NoFlow
      <3>1. Continues
        BY <1>0, <2>2, StepContinues
      <3>2. \A k \in 1 .. Len(prog.ops[i].outs) : lat'[prog.ops[i].outs[k]] = Overdefined
        BY <2>2 DEF NoFlow
      <3>3. \A b : OpIsKept(b, i)'
        BY <1>0, <3>2 DEF OpIsKept, OutputIsKept, Below
      <3> QED
        BY <1>0, <1>1, <1>3, <3>1, <3>3, StepKeepsBlocks DEF IsVisitOf, IsLookAt, IsFlowOf, Task
    <2>3. CASE Transfer(prog.ops[i], Tail(todo))
      <3>1. Continues
        BY <1>0, <2>1, <2>3, VisitContinues
      <3>2. \A b : OpIsKept(b, i)'
        BY <1>0, <2>1, <2>3, TransferKeeps
      <3> QED
        BY <1>0, <1>1, <1>3, <3>1, <3>2, StepKeepsBlocks DEF IsVisitOf, IsLookAt, IsFlowOf, Task
    <2> QED
      BY <1>1, <1>3, <2>2, <2>3 DEF VisitUse
  <1>4. CASE /\ from \in reachable /\ Task_.kind = "controlUse"
             /\ todo' = EdgeTasks(from) \o Tail(todo) /\ NoFlow
    <2>1. PICK s : s = EdgeTasks(from)
      OBVIOUS
    <2>2. s \in Seq(Tasks) /\ from \in BlockIds(prog)
      BY <1>0, <1>4, <2>1, EdgeTasksAreTasks
    <2>3. Continues
      BY <1>0, <1>4, <2>1, <2>2, StepContinues
    <2>4. \A n \in 1 .. Len(s) : InTodo(s[n])'
      BY <1>0, <1>4, <2>1, <2>2, TailKeeps
    <2>5. /\ Len(s) = Len(Successors(prog, from))
          /\ \A n \in 1 .. Len(s) : s[n] = Task("edge", from, Successors(prog, from)[n], 0)
      BY <1>0, <2>1, <2>2, PartsOfBlock DEF EdgeTasks
    <2>6. ASSUME NEW b \in reachable, NEW n \in 1 .. Len(Successors(prog, b)),
                 IsLookAt(b, Successors(prog, b)[n])
          PROVE  EdgeIsKept(b, Successors(prog, b)[n])'
      <3>1. b = from
        BY <1>1, <1>4, <2>6 DEF IsLookAt, Task
      <3>2. PICK to : to = Successors(prog, b)[n]
        OBVIOUS
      <3>3. InTodo(Task("edge", from, to, 0))' /\ Successors(prog', b)[n] = to
        BY <1>0, <2>4, <2>5, <3>1, <3>2
      <3> QED
        BY <3>1, <3>3 DEF EdgeIsKept, LookIsOwed
    <2> QED
      BY <1>0, <1>4, <2>3, <2>6, StepKeepsBlocks DEF IsVisitOf, IsFlowOf, Task
  <1>5. CASE /\ from \in reachable /\ Task_.kind = "outputUse"
             /\ todo' = OutputTasks(from, i) \o Tail(todo) /\ NoFlow
    <2>1. PICK s : s = OutputTasks(from, i)
      OBVIOUS
    <2>2. from \in BlockIds(prog) /\ i \in 1 .. Len(prog.blocks[from].outs)
      BY <1>0, <1>1, <1>5 DEF Tasks, IsOutput
    <2>3. s \in Seq(Tasks)
      BY <1>0, <2>1, <2>2, OutputTasksAreTasks
    <2>4. Continues
      BY <1>0, <1>5, <2>1, <2>3, StepContinues
    <2>5. \A n \in 1 .. Len(s) : InTodo(s[n])'
      BY <1>0, <1>5, <2>1, <2>3, TailKeeps
    <2>6. /\ Len(s) = Len(Successors(prog, from))
          /\ \A n \in 1 .. Len(s) : s[n] = Task("output", from, Successors(prog, from)[n], i)
      BY <1>0, <2>1, <2>2, PartsOfBlock DEF OutputTasks
    <2>7. ASSUME NEW b \in reachable, NEW n \in 1 .. Len(Successors(prog, b)),
                 NEW j \in 1 .. Len(prog.blocks[Successors(prog, b)[n]].ins),
                 IsFlowOf(b, Successors(prog, b)[n], j)
          PROVE  \/ HandoverIsKept(b, Successors(prog, b)[n], j)'
                 \/ ~EdgeReachable(b, Successors(prog, b)[n])'
      <3>1. b = from /\ j = i
        BY <1>1, <1>5, <2>7 DEF IsFlowOf, Task
      <3>2. PICK to : to = Successors(prog, b)[n]
        OBVIOUS
      <3>3. InTodo(Task("output", from, to, i))' /\ Successors(prog', b)[n] = to
        BY <1>0, <2>5, <2>6, <3>1, <3>2
      <3> QED
        BY <3>1, <3>3 DEF HandoverIsKept, FlowIsOwed
    <2>8. /\ \A b, k : ~IsVisitOf(b, k)
          /\ \A b, to : ~IsLookAt(b, to)
          /\ \A l : Task_ # Task("sink", 0, 0, l)
      BY <1>5 DEF IsVisitOf, IsLookAt, Task
    <2> QED
      BY <1>0, <2>4, <2>7, <2>8, StepKeepsBlocks
  <1> QED
    BY <1>1, <1>2, <1>3, <1>4, <1>5 DEF VisitUse
-----------------------------------------------------------------------------
(* No step leaves the region that DefUse has looked at. *)
EdgesStayIn(s, region) == \A n \in DOMAIN s : s[n].kind = "edge" => s[n].to \in region

LEMMA EdgeTasksStayIn ==
    ASSUME IsProgram(prog), NEW region, StaysIn(region), NEW b \in region
    PROVE  EdgesStayIn(EdgeTasks(b), region)
  <1>1. b \in BlockIds(prog) /\ \A k \in 1 .. Len(Successors(prog, b)) : Successors(prog, b)[k] \in region
    BY DEF StaysIn, IsCovered
  <1> QED
    BY <1>1, PartsOfBlock DEF EdgesStayIn, EdgeTasks, Task

LEMMA UseTasksStayIn ==
    ASSUME TypeInv, NEW region, NEW l \in Locals(prog)
    PROVE  EdgesStayIn(UseTasks(l), region)
  <1>1. uses[l] \in Seq(Uses(prog))
    BY DEF TypeInv, SccpTypeOK
  <1>2. \A k \in 1 .. Len(uses[l]) : uses[l][k].kind # "edge"
    BY <1>1, ElementOfSeq DEF Uses, UseKinds
  <1>3. DOMAIN UseTasks(l) = 1 .. Len(uses[l])
    BY DEF UseTasks
  <1> QED
    BY <1>2, <1>3 DEF EdgesStayIn, UseTasks, Task

LEMMA RegionIsKept ==
    ASSUME TypeInv, NEW region, StaysIn(region), UNCHANGED sccpInputs, reachable' \subseteq region,
           \A b : Queued(b)' => Queued(b) \/ b \in region,
           \A t : InTodo(t)' => InTodo(t) \/ t.kind # "edge" \/ t.to \in region
    PROVE  StaysIn(region)'
  <1>1. UNCHANGED <<prog, functions, uses>>
    BY DEF sccpInputs
  <1>2. ASSUME NEW n \in 1 .. Len(todo'), todo'[n].kind = "edge" PROVE todo'[n].to \in region
    <2>1. PICK t : t = todo'[n]
      OBVIOUS
    <2>2. InTodo(t)'
      BY <2>1 DEF InTodo
    <2> QED
      BY <1>2, <2>1, <2>2 DEF StaysIn, InTodo
  <1>3. \A b : Queued(b)' => b \in region
    BY DEF StaysIn
  <1>4. IsCovered(prog, functions, uses, region)' = IsCovered(prog, functions, uses, region)
    BY <1>1
  <1> QED
    BY <1>1, <1>2, <1>3, <1>4 DEF StaysIn

(* A step that puts s in the place of the one at hand. *)
LEMMA ReplacedTodo ==
    ASSUME TypeInv, todo # <<>>, NEW region,
           \/ todo' = Tail(todo)
           \/ \E s \in Seq(Tasks) : EdgesStayIn(s, region) /\ todo' = s \o Tail(todo)
    PROVE  \A t : InTodo(t)' => InTodo(t) \/ t.kind # "edge" \/ t.to \in region
  <1>0. todo \in Seq(Tasks)
    BY DEF TypeInv, SccpTypeOK
  <1>1. CASE todo' = Tail(todo)
    BY <1>0, <1>1, TailDrops
  <1>2. ASSUME NEW s \in Seq(Tasks), EdgesStayIn(s, region), todo' = s \o Tail(todo)
        PROVE  \A t : InTodo(t)' => InTodo(t) \/ t.kind # "edge" \/ t.to \in region
    <2>1. \A t : InTodo(t)' => InTodo(t) \/ \E n \in 1 .. Len(s) : s[n] = t
      BY <1>0, <1>2, TailKeeps
    <2>2. DOMAIN s = 1 .. Len(s)
      BY LenProperties
    <2> QED
      BY <1>2, <2>1, <2>2 DEF EdgesStayIn
  <1> QED
    BY <1>1, <1>2

LEMMA StepStaysIn ==
    ASSUME TypeInv, Running, NEW region, StaysIn(region), AnalysisStep
    PROVE  StaysIn(region)' \/ sccp' = "panic"
  <1>0. /\ SccpTypeOK /\ IsProgram(prog) /\ reachable \subseteq region /\ \A b : Queued(b) => b \in region
        /\ region \subseteq BlockIds(prog) /\ EdgesMatch(prog)
    BY DEF TypeInv, SccpTypeOK, StaysIn, Running
  <1>1. CASE TakeBlock
    <2>1. PICK taken : taken = Last(cfgWork)
      OBVIOUS
    <2>2. /\ cfgWork \in Seq(BlockIds(prog)) /\ cfgWork # <<>> /\ cfgWork' = Front(cfgWork)
          /\ UNCHANGED <<sccpInputs, reachable>> /\ todo' = OpTasks(taken) \o EdgeTasks(taken)
      BY <1>0, <1>1, <2>1 DEF TakeBlock, SccpTypeOK
    <2>3. Queued(taken) /\ \A b : Queued(b)' => Queued(b)
      BY <2>1, <2>2, FrontKeeps DEF Queued
    <2>4. taken \in region /\ taken \in BlockIds(prog)
      BY <1>0, <2>3
    <2>5. PICK s, e : s = OpTasks(taken) /\ e = EdgeTasks(taken)
      OBVIOUS
    <2>6. s \in Seq(Tasks) /\ e \in Seq(Tasks) /\ EdgesStayIn(s, region) /\ EdgesStayIn(e, region)
      BY <1>0, <2>4, <2>5, OpTasksAreTasks, EdgeTasksAreTasks, EdgeTasksStayIn DEF EdgesStayIn, OpTasks, Task
    <2>7. ASSUME NEW t, InTodo(t)' PROVE t.kind # "edge" \/ t.to \in region
      <3>1. PICK n \in 1 .. Len(s \o e) : (s \o e)[n] = t
        BY <2>2, <2>5, <2>7 DEF InTodo
      <3>2. /\ Len(s) \in Nat /\ Len(e) \in Nat /\ Len(s \o e) = Len(s) + Len(e)
            /\ \A m \in 1 .. Len(s) : (s \o e)[m] = s[m]
            /\ \A m \in 1 .. Len(e) : (s \o e)[Len(s) + m] = e[m]
            /\ DOMAIN s = 1 .. Len(s) /\ DOMAIN e = 1 .. Len(e)
        BY <2>6, ConcatProperties, LenProperties
      <3>3. CASE n \in 1 .. Len(s)
        BY <2>6, <3>1, <3>2, <3>3 DEF EdgesStayIn
      <3>4. CASE n \notin 1 .. Len(s)
        <4>1. n - Len(s) \in 1 .. Len(e) /\ Len(s) + (n - Len(s)) = n
          BY <3>1, <3>2, <3>4
        <4>2. e[n - Len(s)] = t
          BY <3>1, <3>2, <4>1
        <4> QED
          BY <2>6, <3>2, <4>1, <4>2 DEF EdgesStayIn
      <3> QED
        BY <3>3, <3>4
    <2> QED
      BY <1>0, <2>2, <2>3, <2>7, RegionIsKept
  <1>2. CASE TakeValue
    <2>1. PICK taken : taken = Last(valueWork)
      OBVIOUS
    <2>2. /\ valueWork \in Seq(Locals(prog)) /\ valueWork # <<>>
          /\ UNCHANGED <<sccpInputs, reachable, cfgWork>> /\ todo' = UseTasks(taken)
      BY <1>0, <1>2, <2>1 DEF TakeValue, SccpTypeOK
    <2>3. taken \in Locals(prog)
      BY <2>1, <2>2, FrontProperties, ElementOfSeq
    <2>4. EdgesStayIn(UseTasks(taken), region) /\ UseTasks(taken) \in Seq(Tasks)
      BY <1>0, <2>3, UseTasksStayIn, UseTasksAreTasks DEF SccpTypeOK
    <2>5. DOMAIN UseTasks(taken) = 1 .. Len(UseTasks(taken))
      BY <2>4, LenProperties
    <2>6. \A t : InTodo(t)' => t.kind # "edge" \/ t.to \in region
      BY <2>2, <2>4, <2>5 DEF InTodo, EdgesStayIn
    <2> QED
      BY <1>0, <2>2, <2>6, RegionIsKept DEF Queued
  <1>3. CASE NoMatchingCase
    BY <1>3 DEF NoMatchingCase
  <1>4. CASE VisitEdge
    <2>1. PICK from, to : from = Task_.from /\ to = Task_.to
      OBVIOUS
    <2>2. /\ todo # <<>> /\ Task_.kind = "edge" /\ UNCHANGED sccpInputs /\ Task_ \in Tasks /\ todo \in Seq(Tasks)
      BY <1>0, <1>4, CurrentTask DEF VisitEdge, Is
    <2>3. to \in region /\ from \in BlockIds(prog) /\ to \in BlockIds(prog)
      <3>1. Task_ = todo[1] /\ 1 \in 1 .. Len(todo)
        BY <2>2, HeadTailProperties, LenProperties, EmptySeq DEF Task_
      <3> QED
        BY <2>1, <2>2, <3>1 DEF StaysIn, Tasks, IsEdgeTask
    <2>4. EdgesStayIn(FlowTasks(from, to), region) /\ FlowTasks(from, to) \in Seq(Tasks)
      BY <1>0, <2>3, FlowTasksAreTasks DEF EdgesStayIn, FlowTasks, Task
    <2>5. todo' = Tail(todo) \/ todo' = FlowTasks(from, to) \o Tail(todo)
      BY <1>4, <2>1 DEF VisitEdge
    <2>6. reachable' \subseteq region
      BY <1>0, <1>4, <2>1, <2>3 DEF VisitEdge
    <2>7. cfgWork' = cfgWork \/ cfgWork' = Append(cfgWork, to)
      BY <1>4, <2>1 DEF VisitEdge
    <2>8. \A b : Queued(b)' => Queued(b) \/ b \in region
      <3>1. CASE cfgWork' = cfgWork
        BY <3>1 DEF Queued
      <3>2. CASE cfgWork' = Append(cfgWork, to)
        <4>1. /\ Len(cfgWork') = Len(cfgWork) + 1 /\ Len(cfgWork) \in Nat
              /\ \A n \in 1 .. Len(cfgWork) : cfgWork'[n] = cfgWork[n]
              /\ cfgWork'[Len(cfgWork) + 1] = to
          BY <1>0, <2>3, <3>2, AppendProperties, LenProperties DEF SccpTypeOK
        <4>2. \A n \in 1 .. Len(cfgWork') : n \in 1 .. Len(cfgWork) \/ n = Len(cfgWork) + 1
          BY <4>1
        <4> QED
          BY <2>3, <4>1, <4>2 DEF Queued
      <3> QED
        BY <2>7, <3>1, <3>2
    <2> QED
      BY <2>2, <2>4, <2>5, <2>6, <2>8, ReplacedTodo, RegionIsKept
  <1>5. CASE VisitOp \/ Sink \/ FlowOutput \/ FlowSingleOutput \/ VisitUse
    <2>1. todo # <<>> /\ UNCHANGED <<sccpInputs, reachable, cfgWork>>
      BY <1>5 DEF VisitOp, Sink, FlowOutput, FlowSingleOutput, VisitUse, Is
    <2>2. Task_ \in Tasks
      BY <1>0, <2>1, CurrentTask
    <2>3. \/ todo' = Tail(todo)
          \/ \E s \in Seq(Tasks) : EdgesStayIn(s, region) /\ todo' = s \o Tail(todo)
      <3>1. ASSUME NEW i \in 1 .. Len(prog.ops), Transfer(prog.ops[i], Tail(todo))
            PROVE  \/ todo' = Tail(todo)
                   \/ \E s \in Seq(Tasks) : EdgesStayIn(s, region) /\ todo' = s \o Tail(todo)
        <4>1. EdgesStayIn(SinkTasks(prog.ops[i]), region)
          BY DEF EdgesStayIn, SinkTasks, Task
        <4> QED
          BY <1>0, <3>1, <4>1, PartsOfOp, SinkTasksAreTasks DEF Transfer
      <3>2. CASE VisitOp
        <4>1. Task_.i \in 1 .. Len(prog.ops)
          BY <2>2, <3>2 DEF VisitOp, Is, Tasks, IsOpTask
        <4> QED
          BY <3>1, <3>2, <4>1 DEF VisitOp
      <3>3. CASE Sink \/ FlowOutput \/ FlowSingleOutput
        BY <3>3 DEF Sink, FlowOutput, FlowSingleOutput
      <3>4. CASE VisitUse
        <4>1. CASE Task_.kind = "opUse"
          <5>1. Task_.i \in 1 .. Len(prog.ops)
            BY <2>2, <4>1 DEF Tasks, IsOpTask
          <5> QED
            BY <3>1, <3>4, <4>1, <5>1 DEF VisitUse
        <4>2. CASE Task_.kind = "controlUse"
          <5>1. Task_.from \in region => EdgesStayIn(EdgeTasks(Task_.from), region)
            BY <1>0, EdgeTasksStayIn
          <5>2. Task_.from \in BlockIds(prog)
            BY <2>2, <4>2 DEF Tasks, IsEdgeTask
          <5> QED
            BY <1>0, <3>4, <4>2, <5>1, <5>2, EdgeTasksAreTasks DEF VisitUse
        <4>3. CASE Task_.kind = "outputUse"
          <5>1. EdgesStayIn(OutputTasks(Task_.from, Task_.i), region)
            BY DEF EdgesStayIn, OutputTasks, Task
          <5>2. Task_.from \in BlockIds(prog) /\ Task_.i \in 1 .. Len(prog.blocks[Task_.from].outs)
            BY <2>2, <4>3 DEF Tasks, IsOutput, IsEdgeTask
          <5> QED
            BY <1>0, <3>4, <4>3, <5>1, <5>2, OutputTasksAreTasks DEF VisitUse
        <4> QED
          BY <3>4, <4>1, <4>2, <4>3 DEF VisitUse, UseKinds
      <3> QED
        BY <1>5, <3>2, <3>3, <3>4
    <2>4. \A b : Queued(b)' => Queued(b)
      BY <2>1 DEF Queued
    <2> QED
      BY <1>0, <2>1, <2>3, <2>4, ReplacedTodo, RegionIsKept
  <1> QED
    BY <1>1, <1>2, <1>3, <1>4, <1>5 DEF AnalysisStep
-----------------------------------------------------------------------------
LEMMA StepKeepsBlockConstraints ==
    ASSUME TypeInv, Running, NEW region, StaysIn(region), \A b \in reachable : BlockIsKept(b), AnalysisStep
    PROVE  (\A b \in reachable' : BlockIsKept(b)') \/ sccp' = "panic"
  BY TakeBlockKeepsBlocks, TakeValueKeepsBlocks, VisitOpKeepsBlocks, SinkKeepsBlocks, VisitEdgeKeepsBlocks,
     FlowOutputsKeepBlocks, VisitUseKeepsBlocks DEF AnalysisStep, NoMatchingCase

LEMMA FixedPointInvInit ==
    ASSUME SccpInit
    PROVE  FixedPointInv
  <1>1. PICK in \in Inputs : prog = in.prog /\ functions = in.functions /\ uses = in.uses
    BY DEF SccpInit
  <1>2. PICK region \in SUBSET BlockIds(prog) : IsCovered(prog, functions, uses, region)
    BY <1>1, InputsAssumption DEF IsInput
  <1>3. reachable = {} /\ cfgWork = <<>> /\ todo = <<>>
    BY DEF SccpInit
  <1>4. StaysIn(region)
    BY <1>2, <1>3 DEF StaysIn, Queued
  <1> QED
    BY <1>3, <1>4, InitIsSafe DEF FixedPointInv, Owing

LEMMA StartKeepsInv ==
    ASSUME FixedPointInv, sccp = "idle", StartAnalysis
    PROVE  FixedPointInv'
  <1>1. TypeInv' /\ UNCHANGED sccpInputs /\ sccp' = "analysis" /\ todo' = <<>> /\ SccpTypeOK
    BY StartIsSafe DEF FixedPointInv, StartAnalysis, TypeInv
  <1>2. PICK region : StaysIn(region)
    BY DEF FixedPointInv, Owing
  <1>3. UNCHANGED <<prog, functions, uses>> /\ Len(functions) \in Nat
    BY <1>1, LenProperties DEF sccpInputs, SccpTypeOK
  <1>4. /\ Len(cfgWork') = Len(functions)
        /\ \A k \in 1 .. Len(functions) : cfgWork'[k] = Entry(prog, functions[k])
        /\ reachable' = {Entry(prog, functions[k]) : k \in 1 .. Len(functions)}
    BY <1>3 DEF StartAnalysis
  <1>5. \A k \in 1 .. Len(functions) : Entry(prog, functions[k]) \in region
    BY <1>2 DEF StaysIn, IsCovered
  <1>6. (\A b : Queued(b)' => b \in region) /\ (\A b \in reachable' : Queued(b)') /\ reachable' \subseteq region
    BY <1>4, <1>5 DEF Queued
  <1>7. StaysIn(region)'
    BY <1>1, <1>2, <1>3, <1>6 DEF StaysIn
  <1>8. \A b \in reachable' : BlockIsKept(b)'
    BY <1>6 DEF BlockIsKept, OpIsKept, EdgeIsKept
  <1> QED
    BY <1>1, <1>7, <1>8 DEF FixedPointInv, Owing

LEMMA FixedPointInvIsInductive ==
    ASSUME FixedPointInv, [SccpNext]_sccpVars
    PROVE  FixedPointInv'
  <1>1. CASE sccp = "idle" /\ StartAnalysis
    BY <1>1, StartKeepsInv
  <1>2. CASE AnalysisStep
    <2>1. Running /\ TypeInv /\ TypeInv' /\ sccp' \in {"analysis", "panic"}
      BY <1>2, AnalysisStepIsSafe DEF AnalysisStep, TakeBlock, TakeValue, VisitOp, Sink, VisitEdge, FlowOutput,
             FlowSingleOutput, VisitUse, NoMatchingCase, Is, Running, FixedPointInv
    <2>2. PICK region : StaysIn(region)
      BY <2>1 DEF FixedPointInv, Owing, Running
    <2>3. \A b \in reachable : BlockIsKept(b)
      BY <2>1 DEF FixedPointInv, Owing, Running
    <2>4. sccp' = "panic" \/ (StaysIn(region)' /\ \A b \in reachable' : BlockIsKept(b)')
      BY <1>2, <2>1, <2>2, <2>3, StepStaysIn, StepKeepsBlockConstraints
    <2> QED
      BY <2>1, <2>4 DEF FixedPointInv, Owing
  <1>3. CASE Apply \/ ApplyNoTarget
    <2>1. TypeInv' /\ sccp' \in {"done", "panic"}
      BY <1>3, ApplyIsSafe, AnalysisStepIsSafe DEF Apply, ApplyNoTarget, FixedPointInv
    <2> QED
      BY <2>1 DEF FixedPointInv, Owing
  <1>4. CASE UNCHANGED sccpVars
    <2>1. TypeInv'
      BY <1>4, TypeInvIsInductive DEF FixedPointInv
    <2>2. UNCHANGED <<prog, functions, uses, lat, reachable, cfgWork, valueWork, todo, sccp>>
      BY <1>4 DEF sccpVars, sccpInputs
    <2>3. \A region : StaysIn(region) => StaysIn(region)'
      BY <2>2 DEF StaysIn, Queued
    <2>4. ASSUME NEW b, BlockIsKept(b) PROVE BlockIsKept(b)'
      <3>1. /\ \A t : InTodo(t) => InTodo(t)'
            /\ \A l : Changed(l) => Changed(l)'
            /\ \A c : Queued(c) => Queued(c)'
        BY <2>2 DEF InTodo, Changed, Queued
      <3>2. \A op : ResultOf(op)' = ResultOf(op)
        BY <2>2, ResultDependsOnInputs
      <3>3. \A to : EdgeReachable(b, to)' = EdgeReachable(b, to)
        BY <2>2, ControlDependsOnCondition
      <3>4. \A i : OpIsKept(b, i) => OpIsKept(b, i)'
        BY <2>2, <3>1, <3>2 DEF OpIsKept, VisitIsOwed, OutputIsKept
      <3>5. \A to : EdgeIsKept(b, to) => EdgeIsKept(b, to)'
        BY <2>2, <3>1, <3>3 DEF EdgeIsKept, LookIsOwed, EdgeIsTaken, HandoverIsKept, FlowIsOwed
      <3> QED
        BY <2>2, <2>4, <3>4, <3>5 DEF BlockIsKept
    <2> QED
      BY <2>1, <2>2, <2>3, <2>4 DEF FixedPointInv, Owing
  <1> QED
    BY <1>1, <1>2, <1>3, <1>4 DEF SccpNext

(* The analysis stops at a fixed point: when its work lists have run dry, no *)
(* operation of a reached block computes less than its outputs are taken to  *)
(* be, and no edge that the lattice lets control take leads to a block that  *)
(* was not reached or hands over less than its inputs are taken to be.  So   *)
(* neither the order in which the lists are served nor what process_use      *)
(* skips (a use in a block not yet reached, an operation whose outputs are   *)
(* all overdefined) loses a conclusion.                                      *)
THEOREM NothingIsLeftToConclude == SccpSpec => []FixedPoint
  <1>1. SccpInit => FixedPointInv
    BY FixedPointInvInit
  <1>2. FixedPointInv /\ [SccpNext]_sccpVars => FixedPointInv'
    BY FixedPointInvIsInductive
  <1>3. FixedPointInv => FixedPoint
    <2> SUFFICES ASSUME FixedPointInv, AnalysisDone, NEW b \in reachable
                 PROVE  /\ \A j \in 1 .. Len(prog.blocks[b].ops) : OpIsSettled(prog.ops[prog.blocks[b].ops[j]])
                        /\ \A k \in 1 .. Len(Successors(prog, b)) : EdgeIsSettled(b, Successors(prog, b)[k])
      BY DEF FixedPoint
    <2>1. /\ \A t : ~InTodo(t)
          /\ \A l : ~Changed(l) /\ ~Queued(l)
          /\ BlockIsKept(b)
      BY DEF AnalysisDone, InTodo, Changed, Queued, FixedPointInv, Owing, Running
    <2>2. \A j \in 1 .. Len(prog.blocks[b].ops) : OpIsSettled(prog.ops[prog.blocks[b].ops[j]])
      BY <2>1 DEF BlockIsKept, OpIsKept, VisitIsOwed, OutputIsKept, OpIsSettled
    <2>3. \A k \in 1 .. Len(Successors(prog, b)) : EdgeIsSettled(b, Successors(prog, b)[k])
      BY <2>1 DEF BlockIsKept, EdgeIsKept, LookIsOwed, EdgeIsTaken, HandoverIsKept, FlowIsOwed, EdgeIsSettled
    <2> QED
      BY <2>2, <2>3
  <1> QED
    BY <1>1, <1>2, <1>3, PTL DEF SccpSpec

(***************************************************************************)
(* Third part: executions agree with what is concluded.                   *)
(***************************************************************************)

Val == Word \cup {None}

Frames ==
    [block : BlockIds(prog), pc : Nat \ {0}, outs : Seq(Locals(prog)), regs : [Locals(prog) -> Val]]
Statuses == {"running", "undefined", "no terminator", "no caller", "no target", "stop", "invalid"}
Runs ==
    [status : Statuses, trace : Seq(Seq(Val)), seen : SUBSET (Locals(prog) \X Val),
     visited : SUBSET BlockIds(prog), stack : Seq(Frames)]

(* A frame that runs in reached blocks and agrees with the lattice; what   *)
(* its results go to is not taken for anything.                            *)
FrameIsSound(frame, env) ==
    /\ frame.block \in reachable
    /\ \A l \in Locals(prog) : frame.regs[l] = Undefined \/ Agrees(lat[l], frame.regs[l], env)
    /\ \A i \in 1 .. Len(frame.outs) : lat[frame.outs[i]] = Overdefined

RunIsSound(run, env) ==
    /\ run \in Runs /\ Len(run.stack) >= 1
    /\ run.visited \subseteq reachable
    /\ \A s \in run.seen : Agrees(lat[s[1]], s[2], env)
    /\ \A i \in 1 .. Len(run.stack) : FrameIsSound(run.stack[i], env)

(* Nothing is taken for known of what function f is called with. *)
IsOpen(f) ==
    /\ Entry(prog, f) \in reachable
    /\ \A i \in 1 .. Len(prog.blocks[Entry(prog, f)].ins) :
          lat[prog.blocks[Entry(prog, f)].ins[i]] = Overdefined

(* What the end of the analysis has established. *)
IsSettled ==
    /\ SccpTypeOK /\ EdgesMatch(prog)
    /\ \A b \in reachable :
          /\ \A j \in 1 .. Len(prog.blocks[b].ops) : OpIsSettled(prog.ops[prog.blocks[b].ops[j]])
          /\ \A k \in 1 .. Len(Successors(prog, b)) : EdgeIsSettled(b, Successors(prog, b)[k])
          /\ \A j \in 1 .. Len(prog.blocks[b].ops) :
                LET o == prog.ops[prog.blocks[b].ops[j]] IN IsCall(o) => IsOpen(o.val)
    /\ \A f \in EntryPoints(prog) : IsOpen(f)

LEMMA AgreesBelow ==
    ASSUME NEW x \in LatticeValue, NEW y \in LatticeValue, Below(x, y), NEW w, NEW env, Agrees(y, w, env)
    PROVE  Agrees(x, w, env)
<1>1. x = y \/ x = Overdefined \/ y = Unknown
  BY DEF Below
<1> QED BY <1>1 DEF Agrees, Overdefined, Unknown

LEMMA ReadIsTyped ==
    ASSUME NEW frame \in Frames, NEW locals \in Seq(Locals(prog))
    PROVE  /\ Read(frame, locals) \in Seq(Val) /\ Len(Read(frame, locals)) = Len(locals)
           /\ \A i \in 1 .. Len(locals) : /\ locals[i] \in Locals(prog)
                                          /\ Read(frame, locals)[i] = frame.regs[locals[i]]
<1>1. Len(locals) \in Nat /\ \A i \in 1 .. Len(locals) : locals[i] \in Locals(prog)
  BY ElementOfSeq, LenProperties
<1>2. \A i \in 1 .. Len(locals) : frame.regs[locals[i]] \in Val
  BY <1>1 DEF Frames
<1> DEFINE r == [i \in 1 .. Len(locals) |-> frame.regs[locals[i]]]
<1>3. r \in Seq(Val) /\ Len(r) = Len(locals)
  BY <1>1, <1>2, SequenceOf
<1> QED BY <1>1, <1>3 DEF Read

(* The values that a frame reads agree with the lattice. *)
LEMMA ReadAgrees ==
    ASSUME NEW frame \in Frames, NEW env, FrameIsSound(frame, env), NEW locals \in Seq(Locals(prog)),
           NEW i \in 1 .. Len(locals), Read(frame, locals)[i] # Undefined
    PROVE  Agrees(lat[locals[i]], Read(frame, locals)[i], env)
BY ReadIsTyped DEF FrameIsSound

LEMMA AssignIsTyped ==
    ASSUME NEW regs \in [Locals(prog) -> Val], NEW locals \in Seq(Locals(prog)), NEW values \in Seq(Val)
    PROVE  /\ Assign(regs, locals, values) \in [Locals(prog) -> Val]
           /\ \A l \in Locals(prog) :
                 \/ Assign(regs, locals, values)[l] = regs[l]
                 \/ \E i \in Taken(locals, values) : l = locals[i] /\ Assign(regs, locals, values)[l] = values[i]
           /\ \A i \in Taken(locals, values) : locals[i] \in Locals(prog) /\ values[i] \in Val
<1>1. /\ Len(locals) \in Nat /\ \A i \in 1 .. Len(locals) : locals[i] \in Locals(prog)
      /\ Len(values) \in Nat /\ \A i \in 1 .. Len(values) : values[i] \in Val
  BY ElementOfSeq, LenProperties
<1>2. \A i \in Taken(locals, values) : locals[i] \in Locals(prog) /\ values[i] \in Val
  BY <1>1 DEF Taken
<1>3. ASSUME NEW l \in Locals(prog)
      PROVE  /\ Assign(regs, locals, values)[l] \in Val
             /\ \/ Assign(regs, locals, values)[l] = regs[l]
                \/ \E i \in Taken(locals, values) : l = locals[i] /\ Assign(regs, locals, values)[l] = values[i]
  <2> DEFINE j == CHOOSE i \in Taken(locals, values) : locals[i] = l
  <2>1. CASE \E i \in Taken(locals, values) : locals[i] = l
    <3>1. j \in Taken(locals, values) /\ locals[j] = l
      BY <2>1
    <3>2. Assign(regs, locals, values)[l] = values[j]
      BY <2>1 DEF Assign
    <3> HIDE DEF j
    <3> QED BY <1>2, <3>1, <3>2
  <2>2. CASE ~ \E i \in Taken(locals, values) : locals[i] = l
    BY <2>2 DEF Assign
  <2> QED BY <2>1, <2>2
<1>4. Assign(regs, locals, values) = [l \in Locals(prog) |-> Assign(regs, locals, values)[l]]
  BY DEF Assign
<1> QED BY <1>2, <1>3, <1>4

(* Going on in a reached block with values that agree. *)
LEMMA ContinueIsSound ==
    ASSUME NEW env, NEW run, RunIsSound(run, env), IsProgram(prog),
           NEW block \in BlockIds(prog), block \in reachable, NEW pc \in Nat \ {0},
           NEW locals \in Seq(Locals(prog)), NEW values \in Seq(Val),
           \A i \in Taken(locals, values) : Agrees(lat[locals[i]], values[i], env)
    PROVE  RunIsSound(Continue(run, block, pc, locals, values), env)
<1> DEFINE n == Len(run.stack)
           frame == run.stack[n]
           regs == Assign(frame.regs, locals, values)
           top == [frame EXCEPT !.block = block, !.pc = pc, !.regs = Assign(@, locals, values)]
           stack == [run.stack EXCEPT ![n] = top]
           news == {<<locals[i], values[i]>> : i \in Taken(locals, values)}
           next == Continue(run, block, pc, locals, values)
<1>1. run \in Runs /\ run.stack \in Seq(Frames) /\ n \in Nat /\ n >= 1 /\ frame \in Frames
      /\ FrameIsSound(frame, env)
  <2>1. run \in Runs /\ run.stack \in Seq(Frames) /\ n >= 1
    BY DEF RunIsSound, Runs
  <2>2. n \in Nat
    BY <2>1, LenProperties
  <2>3. n \in 1 .. n
    BY <2>1, <2>2
  <2> QED BY <2>1, <2>2, <2>3, ElementOfSeq DEF RunIsSound
<1>2. /\ regs \in [Locals(prog) -> Val]
      /\ \A l \in Locals(prog) :
            regs[l] = frame.regs[l] \/ \E i \in Taken(locals, values) : l = locals[i] /\ regs[l] = values[i]
      /\ \A i \in Taken(locals, values) : locals[i] \in Locals(prog) /\ values[i] \in Val
  <2>1. frame.regs \in [Locals(prog) -> Val]
    BY <1>1 DEF Frames
  <2> HIDE DEF frame
  <2> QED BY <2>1, AssignIsTyped
<1>3. /\ top \in Frames /\ top.block = block /\ top.regs = regs /\ top.outs = frame.outs
  <2> HIDE DEF frame
  <2>1. frame \in Frames /\ regs \in [Locals(prog) -> Val]
    BY <1>1, <1>2
  <2> QED BY <2>1 DEF Frames
<1>4. FrameIsSound(top, env)
  <2>1. \A l \in Locals(prog) : regs[l] = Undefined \/ Agrees(lat[l], regs[l], env)
    BY <1>1, <1>2 DEF FrameIsSound
  <2> HIDE DEF top, regs, frame
  <2> QED BY <1>1, <1>3, <2>1 DEF FrameIsSound
<1>5. stack \in Seq(Frames) /\ Len(stack) = n /\ stack[n] = top
      /\ \A i \in 1 .. n : i # n => stack[i] = run.stack[i]
  <2> HIDE DEF top, frame
  <2>1. n \in 1 .. Len(run.stack) /\ run.stack \in Seq(Frames) /\ top \in Frames
    BY <1>1, <1>3
  <2>2. stack \in Seq(Frames) /\ Len(stack) = Len(run.stack)
        /\ \A i \in 1 .. Len(run.stack) : stack[i] = IF i = n THEN top ELSE run.stack[i]
    BY <2>1, ExceptSeq
  <2> QED BY <2>1, <2>2
<1>6. next = [run EXCEPT !.stack = stack, !.seen = @ \cup news]
  BY DEF Continue, Last
<1>7. news \in SUBSET (Locals(prog) \X Val)
  BY <1>2
<1>8. \A s \in news : Agrees(lat[s[1]], s[2], env)
  OBVIOUS
<1>9. next \in Runs /\ next.stack = stack /\ next.seen = run.seen \cup news /\ next.visited = run.visited
  <2> HIDE DEF stack, news, next
  <2> QED BY <1>1, <1>5, <1>6, <1>7 DEF Runs
<1> HIDE DEF top, stack, news, next, frame
<1>10. \A i \in 1 .. n : FrameIsSound(stack[i], env)
  BY <1>4, <1>5 DEF RunIsSound
<1>11. \A s \in next.seen : Agrees(lat[s[1]], s[2], env)
  BY <1>8, <1>9 DEF RunIsSound
<1>12. RunIsSound(next, env)
  BY <1>1, <1>5, <1>9, <1>10, <1>11 DEF RunIsSound
<1> QED BY <1>12 DEF next

LEMMA TopFrame ==
    ASSUME NEW env, NEW run, RunIsSound(run, env)
    PROVE  /\ run.stack \in Seq(Frames) /\ Len(run.stack) \in Nat \ {0} /\ run \in Runs
           /\ Last(run.stack) = run.stack[Len(run.stack)]
           /\ Last(run.stack) \in Frames /\ FrameIsSound(Last(run.stack), env)
<1>1. run \in Runs /\ run.stack \in Seq(Frames) /\ Len(run.stack) >= 1
  BY DEF RunIsSound, Runs
<1>2. Len(run.stack) \in Nat \ {0}
  BY <1>1, LenProperties
<1>3. Len(run.stack) \in 1 .. Len(run.stack)
  BY <1>2
<1>4. Last(run.stack) = run.stack[Len(run.stack)]
  BY DEF Last
<1> QED BY <1>1, <1>2, <1>3, <1>4, ElementOfSeq DEF RunIsSound

LEMMA HaltIsSound ==
    ASSUME NEW env, NEW run, RunIsSound(run, env), NEW how \in Statuses
    PROVE  RunIsSound(Halt(run, how), env)
<1> DEFINE next == Halt(run, how)
<1>1. next \in Runs /\ next.stack = run.stack /\ next.seen = run.seen /\ next.visited = run.visited
  BY DEF RunIsSound, Runs, Halt
<1> QED BY <1>1 DEF RunIsSound

(* A call has a frame of its own. *)
LEMMA PushIsSound ==
    ASSUME NEW env, NEW run, RunIsSound(run, env), NEW frame \in Frames, FrameIsSound(frame, env)
    PROVE  RunIsSound(PushFrame(run, frame), env)
<1> DEFINE stack == Append(run.stack, frame)
           next == [run EXCEPT !.stack = stack]
<1>1. run \in Runs /\ run.stack \in Seq(Frames) /\ Len(run.stack) \in Nat \ {0}
  BY TopFrame
<1>2. /\ stack \in Seq(Frames) /\ Len(stack) = Len(run.stack) + 1
      /\ \A i \in 1 .. Len(run.stack) : stack[i] = run.stack[i]
      /\ stack[Len(run.stack) + 1] = frame
  BY <1>1, AppendProperties
<1> HIDE DEF stack
<1>3. next \in Runs /\ next.stack = stack /\ next.seen = run.seen /\ next.visited = run.visited
  BY <1>1, <1>2 DEF Runs
<1>4. \A i \in 1 .. Len(stack) : FrameIsSound(stack[i], env)
  BY <1>1, <1>2 DEF RunIsSound
<1> HIDE DEF next
<1>5. RunIsSound(next, env)
  BY <1>1, <1>2, <1>3, <1>4 DEF RunIsSound
<1> QED BY <1>5 DEF next, stack, PushFrame, PopFrame

LEMMA PopIsSound ==
    ASSUME NEW env, NEW run, RunIsSound(run, env), Len(run.stack) # 1
    PROVE  RunIsSound(PopFrame(run), env)
<1> DEFINE stack == Front(run.stack)
           next == [run EXCEPT !.stack = stack]
<1>1. run \in Runs /\ run.stack \in Seq(Frames) /\ Len(run.stack) \in Nat \ {0}
  BY TopFrame
<1>2. run.stack # <<>>
  BY <1>1, EmptySeq
<1>3. /\ Len(stack) = Len(run.stack) - 1
      /\ \A i \in 1 .. Len(run.stack) - 1 : stack[i] = run.stack[i]
  BY <1>1, <1>2, FrontProperties
<1>4. stack \in Seq(Frames)
  BY <1>1, <1>2, FrontHas
<1> HIDE DEF stack
<1>5. next \in Runs /\ next.stack = stack /\ next.seen = run.seen /\ next.visited = run.visited
  BY <1>1, <1>4 DEF Runs
<1>6. \A i \in 1 .. Len(stack) : FrameIsSound(stack[i], env)
  BY <1>1, <1>3 DEF RunIsSound
<1>7. Len(stack) >= 1
  <2>1. PICK n \in Nat : n = Len(run.stack)
    BY <1>1
  <2>2. n # 0 /\ n # 1 /\ Len(stack) = n - 1
    BY <1>1, <1>3, <2>1
  <2> QED BY <2>2
<1> HIDE DEF next
<1>8. RunIsSound(next, env)
  BY <1>5, <1>6, <1>7 DEF RunIsSound
<1> QED BY <1>8 DEF next, stack, PushFrame, PopFrame

-----------------------------------------------------------------------------
(* An edge that an execution takes is one that the lattice lets it take.   *)
LEMMA JumpIsSound ==
    ASSUME NEW env, NEW run, RunIsSound(run, env), IsSettled,
           NEW k \in 1 .. Len(Successors(prog, Last(run.stack).block)),
           EdgeReachable(Last(run.stack).block, Successors(prog, Last(run.stack).block)[k]),
           \A i \in 1 .. Len(prog.blocks[Last(run.stack).block].outs) :
              Read(Last(run.stack), prog.blocks[Last(run.stack).block].outs)[i] # Undefined
    PROVE  RunIsSound(Jump(prog, run, Successors(prog, Last(run.stack).block)[k]), env)
<1> DEFINE frame == Last(run.stack)
           b == frame.block
           to == Successors(prog, b)[k]
           outs == prog.blocks[b].outs
           ins == prog.blocks[to].ins
           taking == IF outs = <<>> THEN <<>> ELSE ins
           values == Read(frame, outs)
<1>1. IsProgram(prog) /\ SccpTypeOK
  BY DEF IsSettled, SccpTypeOK
<1>2. frame \in Frames /\ FrameIsSound(frame, env) /\ b \in reachable /\ b \in BlockIds(prog)
  BY TopFrame DEF FrameIsSound, Frames
<1>3. Len(ins) = Len(outs)
  BY <1>2 DEF IsSettled, EdgesMatch
<1>4. EdgeIsSettled(b, to)
  BY <1>2 DEF IsSettled
<1>5. to \in BlockIds(prog)
  BY <1>1, <1>2, SuccessorsAreBlocks, ElementOfSeq
<1>6. outs \in Seq(Locals(prog)) /\ ins \in Seq(Locals(prog))
  BY <1>1, <1>2, <1>5, Tables DEF BasicBlocks
<1>7. /\ to \in reachable
      /\ \A i \in 1 .. Len(ins) : Below(lat[ins[i]], lat[outs[i]])
  BY <1>4 DEF EdgeIsSettled
<1> HIDE DEF b, to, outs, ins, frame
<1>8. /\ values \in Seq(Val) /\ Len(values) = Len(outs)
      /\ \A i \in 1 .. Len(outs) : Agrees(lat[outs[i]], values[i], env)
  BY <1>2, <1>6, ReadIsTyped, ReadAgrees DEF outs, frame, b
<1> HIDE DEF values
<1>9. taking \in Seq(Locals(prog)) /\ \A i \in Taken(taking, values) : i \in 1 .. Len(outs) /\ taking[i] = ins[i]
  BY <1>3, <1>6, <1>8, LenProperties DEF Taken
<1>10. \A i \in Taken(taking, values) : Agrees(lat[taking[i]], values[i], env)
  <2> SUFFICES ASSUME NEW i \in Taken(taking, values)
               PROVE  Agrees(lat[taking[i]], values[i], env)
    OBVIOUS
  <2>1. i \in 1 .. Len(outs) /\ i \in 1 .. Len(ins) /\ taking[i] = ins[i]
    BY <1>3, <1>9
  <2>2. ins[i] \in Locals(prog) /\ outs[i] \in Locals(prog)
    BY <1>6, <2>1, ElementOfSeq
  <2>3. lat[ins[i]] \in LatticeValue /\ lat[outs[i]] \in LatticeValue
    BY <1>1, <2>2 DEF SccpTypeOK
  <2> QED BY <1>7, <1>8, <2>1, <2>3, AgreesBelow
<1> HIDE DEF taking
<1>11. RunIsSound(Continue(run, to, 1, taking, values), env)
  BY <1>1, <1>5, <1>7, <1>8, <1>9, <1>10, ContinueIsSound
<1> QED BY <1>11 DEF Jump, frame, b, to, outs, ins, taking, values

LEMMA SwitchTargetIsSuccessor ==
    ASSUME NEW p, NEW c \in Controls(p), c.kind = "switch", NEW w, SwitchTarget(c, w) # None
    PROVE  \E k \in 1 .. Len(Outgoing(c)) : Outgoing(c)[k] = SwitchTarget(c, w)
<1> DEFINE hits == {i \in 1 .. Len(c.cases) : c.cases[i][1] = w}
           targets == [i \in 1 .. Len(c.cases) |-> c.cases[i][2]]
           rest == IF c.fallback = None THEN <<>> ELSE <<c.fallback>>
           T == BlockIds(p)
<1>1. /\ c.cases \in Seq(Word \X T)
      /\ c.fallback \in T \cup {None}
  BY DEF Controls
<1>2. Len(c.cases) \in Nat /\ \A i \in 1 .. Len(c.cases) : c.cases[i] \in Word \X T
  BY <1>1, ElementOfSeq, LenProperties
<1>3. \A i \in 1 .. Len(c.cases) : targets[i] \in T
  BY <1>2
<1>4. targets \in Seq(T) /\ Len(targets) = Len(c.cases)
  BY <1>2, <1>3, SequenceOf
<1>5. rest \in Seq(T)
  BY <1>1
<1>6. Outgoing(c) = targets \o rest
  BY DEF Outgoing
<1> HIDE DEF targets, rest, T
<1>7. /\ Len(targets \o rest) = Len(targets) + Len(rest) /\ Len(rest) \in Nat
      /\ \A i \in 1 .. Len(targets) + Len(rest) :
            (targets \o rest)[i] = IF i <= Len(targets) THEN targets[i] ELSE rest[i - Len(targets)]
  BY <1>4, <1>5, ConcatProperties, LenProperties
<1>8. CASE hits = {}
  <2>1. SwitchTarget(c, w) = c.fallback /\ c.fallback # None
    BY <1>8 DEF SwitchTarget
  <2>2. Len(rest) = 1 /\ rest[1] = c.fallback
    BY <2>1 DEF rest
  <2>3. Len(targets) + 1 \in 1 .. Len(targets) + Len(rest)
    BY <1>2, <1>4, <2>2
  <2>4. (targets \o rest)[Len(targets) + 1] = rest[1]
    BY <1>2, <1>4, <1>7, <2>3
  <2> QED BY <1>6, <1>7, <2>1, <2>2, <2>3, <2>4
<1>9. CASE hits # {}
  <2>1. \E i \in hits : \A j \in hits : i <= j
    <3>1. hits \subseteq Nat
      BY <1>2
    <3> QED BY <1>9, <3>1, LeastElement
  <2>2. PICK i \in hits : SwitchTarget(c, w) = c.cases[i][2]
    BY <1>9, <2>1 DEF SwitchTarget
  <2>3. i \in 1 .. Len(targets) /\ targets[i] = c.cases[i][2]
    BY <1>4, <2>2 DEF targets
  <2>4. i \in 1 .. Len(targets) + Len(rest) /\ (targets \o rest)[i] = targets[i]
    BY <1>2, <1>4, <1>7, <2>3
  <2> QED BY <1>6, <1>7, <2>2, <2>3, <2>4
<1> QED BY <1>8, <1>9

LEMMA ControlIsSound ==
    ASSUME NEW env \in Environments, NEW run, RunIsSound(run, env), IsSettled
    PROVE  RunIsSound(StepControl(prog, run, prog.blocks[Last(run.stack).block].ctl), env)
<1> DEFINE frame == Last(run.stack)
           b == frame.block
           ctl == prog.blocks[b].ctl
           outs == prog.blocks[b].outs
           used == Read(frame, outs)
           wrong == \/ \E i \in 1 .. Len(used) : used[i] = Undefined
                    \/ \E l \in Condition(ctl) : frame.regs[l] = Undefined
           next == StepControl(prog, run, ctl)
           w == frame.regs[ctl.cond]
<1> SUFFICES RunIsSound(next, env)
  OBVIOUS
<1> HIDE DEF next
<1>1. IsProgram(prog) /\ SccpTypeOK /\ EdgesMatch(prog)
  BY DEF IsSettled, SccpTypeOK
<1>2. frame \in Frames /\ FrameIsSound(frame, env) /\ b \in reachable /\ b \in BlockIds(prog)
  BY TopFrame DEF FrameIsSound, Frames
<1>3. ctl \in Controls(prog) /\ outs \in Seq(Locals(prog))
  BY <1>1, <1>2, Tables DEF BasicBlocks
<1>4. Len(used) = Len(outs)
  BY <1>2, <1>3, ReadIsTyped
<1>5. CASE wrong
  <2>1. next = Halt(run, "undefined")
    BY <1>5 DEF StepControl, next
  <2> QED BY <2>1, HaltIsSound DEF Statuses
<1>6. CASE ~wrong
  <2>1. \A k \in 1 .. Len(Successors(prog, b)) :
            EdgeReachable(b, Successors(prog, b)[k]) => RunIsSound(Jump(prog, run, Successors(prog, b)[k]), env)
    BY <1>4, <1>6, JumpIsSound
  <2> HIDE DEF frame
  <2>2. ctl.kind \in {"branch", "switch"} => ctl.cond \in Locals(prog) /\ w # Undefined /\ Agrees(lat[ctl.cond], w, env)
                                             /\ lat[ctl.cond] \in LatticeValue
    <3> SUFFICES ASSUME ctl.kind \in {"branch", "switch"}
                 PROVE  ctl.cond \in Locals(prog) /\ w # Undefined /\ Agrees(lat[ctl.cond], w, env)
                        /\ lat[ctl.cond] \in LatticeValue
      OBVIOUS
    <3>1. ctl.cond \in Locals(prog)
      BY <1>3 DEF Controls
    <3>2. ctl.cond \in Condition(ctl)
      BY DEF Condition
    <3> QED BY <1>1, <1>2, <1>6, <3>1, <3>2 DEF FrameIsSound, SccpTypeOK
  <2>3. CASE ctl.kind = "last"
    <3>1. next = Halt(run, "no terminator")
      BY <1>6, <2>3 DEF StepControl, frame, next
    <3> QED BY <3>1, HaltIsSound DEF Statuses
  <2>4. CASE ctl.kind = "iret"
    <3>1. next = Return(prog, run)
      BY <1>6, <2>4 DEF StepControl, frame, next
    <3>2. CASE Len(run.stack) = 1
      BY <3>1, <3>2, HaltIsSound DEF Statuses, Return, frame
    <3>3. CASE Len(run.stack) # 1
      <4> DEFINE popped == PopFrame(run)
                 caller == Last(Front(run.stack))
      <4>1. RunIsSound(popped, env) /\ popped.stack = Front(run.stack)
        <5>1. popped.stack = Front(run.stack)
          BY DEF RunIsSound, Runs, PopFrame
        <5> QED BY <3>3, <5>1, PopIsSound
      <4>2. caller \in Frames /\ FrameIsSound(caller, env)
        BY <4>1, TopFrame
      <4> HIDE DEF popped, caller
      <4>3. caller.block \in BlockIds(prog) /\ caller.block \in reachable /\ caller.pc \in Nat \ {0}
        BY <4>2 DEF Frames, FrameIsSound
      <4>4. frame.outs \in Seq(Locals(prog)) /\ used \in Seq(Val)
        BY <1>2, <1>3, ReadIsTyped DEF Frames
      <4>5. \A i \in Taken(frame.outs, used) : i \in 1 .. Len(frame.outs)
        BY <4>4, LenProperties DEF Taken
      <4>6. \A i \in Taken(frame.outs, used) : Agrees(lat[frame.outs[i]], used[i], env)
        BY <1>2, <4>5 DEF FrameIsSound, Agrees, Overdefined
      <4>7. next = Continue(popped, caller.block, caller.pc, frame.outs, used)
        BY <3>1, <3>3 DEF Return, frame, popped, caller
      <4> HIDE DEF used
      <4>8. RunIsSound(Continue(popped, caller.block, caller.pc, frame.outs, used), env)
        BY <1>1, <4>1, <4>3, <4>4, <4>6, ContinueIsSound
      <4> QED BY <4>7, <4>8
    <3> QED BY <3>2, <3>3
  <2>5. CASE ctl.kind = "goto"
    <3>1. next = Jump(prog, run, ctl.to)
      BY <1>6, <2>5 DEF StepControl, frame, next
    <3>2. 1 \in 1 .. Len(Successors(prog, b)) /\ Successors(prog, b)[1] = ctl.to /\ EdgeReachable(b, ctl.to)
      BY <2>5 DEF Successors, Outgoing, EdgeReachable
    <3> QED BY <2>1, <3>1, <3>2
  <2>6. CASE ctl.kind = "branch"
    <3> DEFINE to == IF w = 0 THEN ctl.zero ELSE ctl.nonZero
    <3>1. next = Jump(prog, run, to)
      BY <1>6, <2>6 DEF StepControl, frame, next
    <3>2. \E k \in 1 .. Len(Successors(prog, b)) : Successors(prog, b)[k] = to
      <4>1. Successors(prog, b) = <<ctl.zero, ctl.nonZero>>
        BY <2>6 DEF Successors, Outgoing
      <4> QED BY <4>1
    <3>3. EdgeReachable(b, to)
      <4>1. Agrees(lat[ctl.cond], w, env)
        BY <2>2, <2>6
      <4>2. lat[ctl.cond].kind = "evm" /\ lat[ctl.cond].val \in NonZeroKinds => w # 0
        <5>1. \A k \in NonZeroKinds : env.evm[k] # 0
          BY DEF Environments
        <5> QED BY <4>1, <5>1 DEF Agrees
      <4> QED BY <2>6, <4>1, <4>2 DEF EdgeReachable, Agrees
    <3> QED BY <2>1, <3>1, <3>2, <3>3
  <2>7. CASE ctl.kind = "switch"
    <3> DEFINE to == SwitchTarget(ctl, w)
    <3>1. next = Turn(prog, run, to)
      BY <1>6, <2>7 DEF StepControl, frame, next
    <3>2. CASE to = None
      BY <3>1, <3>2, HaltIsSound DEF Statuses, Turn
    <3>3. CASE to # None
      <4>1. PICK k \in 1 .. Len(Successors(prog, b)) : Successors(prog, b)[k] = to
        BY <1>3, <2>7, <3>3, SwitchTargetIsSuccessor DEF Successors
      <4>2. EdgeReachable(b, to)
        BY <2>2, <2>7 DEF EdgeReachable, Agrees, IsConst
      <4>3. next = Jump(prog, run, to)
        BY <3>1, <3>3 DEF Turn
      <4> QED BY <2>1, <4>1, <4>2, <4>3
    <3> QED BY <3>2, <3>3
  <2>8. ctl.kind \in {"last", "iret", "goto", "branch", "switch"}
    BY <1>3 DEF Controls
  <2> QED BY <2>3, <2>4, <2>5, <2>6, <2>7, <2>8
<1> QED BY <1>5, <1>6

-----------------------------------------------------------------------------
(* What an operation computes is what the lattice says it does.            *)
LEMMA ResultsByKind ==
    ASSUME NEW env, NEW o, NEW args
    PROVE  /\ o.op = "const" => Results(env, o, args) = <<o.val>>
           /\ o.op = "evm" => Results(env, o, args) = <<env.evm[o.val]>>
           /\ o.op = "copy" => Results(env, o, args) = args
           /\ o.op = "balance" => Results(env, o, args) = <<(env.balance + args[1]) % WordCount>>
           /\ o.op \in Foldable => Results(env, o, args) = <<Evaluate(o.op, args)>>
           /\ o.op \notin {"const", "evm", "copy", "balance"} \cup Foldable => Results(env, o, args) = <<>>
BY DEF Results, Foldable

LEMMA EnvironmentParts ==
    ASSUME NEW env \in Environments
    PROVE  /\ env.evm \in [EvmKinds -> Word] /\ env.balance \in Int
           /\ \A k \in NonZeroKinds : env.evm[k] # 0
<1>1. PICK e \in {e \in [EvmKinds -> Word] : \A k \in NonZeroKinds : e[k] # 0}, b \in BalanceOffsets :
         env = [evm |-> e, balance |-> b]
  BY DEF Environments
<1> QED BY <1>1, SemanticsAssumption

LEMMA ArityOfOp ==
    ASSUME NEW o \in Operations(prog)
    PROVE  /\ o.op \in {"const", "evm", "balance"} \cup Foldable => Len(o.outs) = 1
           /\ o.op = "add" => Len(o.ins) = 2
           /\ o.op \in {"iszero", "balance"} => Len(o.ins) = 1
BY DEF Operations, Foldable

LEMMA ResultsAreTyped ==
    ASSUME NEW env \in Environments, NEW o \in Operations(prog), NEW args \in Seq(Val),
           Len(args) = Len(o.ins), \A i \in 1 .. Len(args) : args[i] # Undefined
    PROVE  Results(env, o, args) \in Seq(Val)
<1>1. Word \subseteq Val /\ Word \subseteq Nat /\ Len(args) \in Nat
  BY LenProperties DEF Val, Word
<1>2. \A i \in 1 .. Len(args) : args[i] \in Word
  BY ElementOfSeq DEF Val, Undefined
<1>0. \A v \in Word : <<v>> \in Seq(Val)
  BY <1>1
<1>3. CASE o.op = "const"
  <2>1. o.val \in Word
    BY <1>3 DEF Operations
  <2>2. Results(env, o, args) = <<o.val>>
    BY <1>3, ResultsByKind
  <2> QED BY <1>0, <2>1, <2>2
<1>4. CASE o.op = "evm"
  <2>1. o.val \in EvmKinds
    BY <1>4 DEF Operations
  <2>2. env.evm[o.val] \in Word
    BY <2>1, EnvironmentParts
  <2>3. Results(env, o, args) = <<env.evm[o.val]>>
    BY <1>4, ResultsByKind
  <2> QED BY <1>0, <2>2, <2>3
<1>5. CASE o.op = "copy"
  BY <1>5, ResultsByKind
<1>6. CASE o.op = "balance"
  <2>1. args[1] \in Word
    BY <1>2, <1>6, ArityOfOp
  <2>2. env.balance \in Int
    BY EnvironmentParts
  <2>3. (env.balance + args[1]) % WordCount \in Word
    BY <1>1, <2>1, <2>2, SirAssumption DEF Word
  <2>4. Results(env, o, args) = <<(env.balance + args[1]) % WordCount>>
    BY <1>6, ResultsByKind
  <2> QED BY <1>0, <2>3, <2>4
<1>7. CASE o.op \in Foldable
  <2>1. Evaluate(o.op, args) \in Word
    <3>1. CASE o.op = "add"
      <4>1. args[1] \in Nat /\ args[2] \in Nat
        <5>1. Len(args) = 2
          BY <3>1, ArityOfOp
        <5>2. 1 \in 1 .. Len(args) /\ 2 \in 1 .. Len(args)
          BY <5>1
        <5> QED BY <1>1, <1>2, <5>2
      <4> QED BY <3>1, <4>1, SirAssumption DEF Evaluate, Word
    <3>2. CASE o.op # "add"
      BY <3>2, SirAssumption DEF Evaluate, Word
    <3> QED BY <3>1, <3>2
  <2>2. Results(env, o, args) = <<Evaluate(o.op, args)>>
    BY <1>7, ResultsByKind
  <2> QED BY <1>0, <2>1, <2>2
<1>8. CASE o.op \notin {"const", "evm", "copy", "balance"} \cup Foldable
  <2>1. Results(env, o, args) = <<>>
    BY <1>8, ResultsByKind
  <2> QED BY <2>1
<1> QED BY <1>3, <1>4, <1>5, <1>6, <1>7, <1>8

LEMMA ResultsAgree ==
    ASSUME NEW env \in Environments, SccpTypeOK, NEW o \in Operations(prog), OpIsSettled(o),
           NEW frame \in Frames, FrameIsSound(frame, env),
           \A i \in 1 .. Len(o.ins) : Read(frame, o.ins)[i] # Undefined,
           NEW i \in Taken(o.outs, Results(env, o, Read(frame, o.ins)))
    PROVE  Agrees(lat[o.outs[i]], Results(env, o, Read(frame, o.ins))[i], env)
<1> DEFINE args == Read(frame, o.ins)
           values == Results(env, o, args)
<1>1. o.ins \in Seq(Locals(prog)) /\ o.outs \in Seq(Locals(prog)) /\ Len(o.outs) \in Nat
  BY LenProperties DEF Operations
<1>2. args \in Seq(Val) /\ Len(args) = Len(o.ins)
      /\ \A j \in 1 .. Len(o.ins) : o.ins[j] \in Locals(prog) /\ args[j] = frame.regs[o.ins[j]]
                                    /\ Agrees(lat[o.ins[j]], args[j], env)
  BY <1>1, ReadIsTyped, ReadAgrees
<1>3. values \in Seq(Val)
  BY <1>2, ResultsAreTyped
<1>4. i \in 1 .. Len(o.outs) /\ i \in 1 .. Len(values)
  BY <1>1, <1>3, LenProperties DEF Taken
<1>5. o.outs[i] \in Locals(prog) /\ lat[o.outs[i]] \in LatticeValue
  BY <1>1, <1>4, ElementOfSeq DEF SccpTypeOK
<1>6. Below(lat[o.outs[i]], ResultOf(o))
  BY <1>4 DEF OpIsSettled
<1> HIDE DEF args
<1>7. Agrees(ResultOf(o), values[i], env) /\ ResultOf(o) \in LatticeValue
  <2>1. CASE o.op = "const"
    <3>1. i = 1 /\ values = <<o.val>> /\ o.val \in Word
      <4>1. o.val \in Word /\ Len(o.outs) = 1
        BY <2>1, ArityOfOp DEF Operations
      <4>2. values = <<o.val>>
        BY <2>1, ResultsByKind
      <4>3. i \in 1 .. 1
        BY <1>4, <4>1
      <4> QED BY <4>1, <4>2, <4>3
    <3>2. ResultOf(o) = Const(o.val)
      BY <2>1 DEF ResultOf, Evaluates, Foldable
    <3> HIDE DEF values
    <3> QED BY <3>1, <3>2 DEF Agrees, Const, LatticeValue
  <2>2. CASE o.op = "evm"
    <3>1. i = 1 /\ values = <<env.evm[o.val]>> /\ o.val \in EvmKinds
      <4>1. o.val \in EvmKinds /\ Len(o.outs) = 1
        BY <2>2, ArityOfOp DEF Operations
      <4>2. values = <<env.evm[o.val]>>
        BY <2>2, ResultsByKind
      <4>3. i \in 1 .. 1
        BY <1>4, <4>1
      <4> QED BY <4>1, <4>2, <4>3
    <3>2. ResultOf(o) = EvmConst(o.val)
      BY <2>2 DEF ResultOf, Evaluates, Foldable
    <3> HIDE DEF values
    <3> QED BY <3>1, <3>2 DEF Agrees, EvmConst, LatticeValue
  <2>3. CASE Evaluates(o)
    <3> DEFINE known == [j \in 1 .. Len(o.ins) |-> lat[o.ins[j]].val]
    <3>1. o.op \in Foldable /\ Len(o.ins) = (IF o.op = "add" THEN 2 ELSE 1)
          /\ o.op \notin {"const", "evm", "copy", "balance"} /\ Len(o.outs) = 1
      BY <2>3 DEF Evaluates, Operations, Foldable
    <3>2. \A j \in 1 .. Len(o.ins) : known[j] = args[j]
      BY <1>2, <2>3 DEF Evaluates, IsConst, Agrees
    <3>3. Evaluate(o.op, known) = Evaluate(o.op, args)
      <4>1. known[1] = args[1] /\ (o.op = "add" => known[2] = args[2])
        <5> HIDE DEF known
        <5>1. 1 \in 1 .. Len(o.ins) /\ (o.op = "add" => 2 \in 1 .. Len(o.ins))
          BY <3>1
        <5> QED BY <3>2, <5>1
      <4> HIDE DEF known
      <4> QED BY <4>1 DEF Evaluate
    <3>4. ResultOf(o) = Const(Evaluate(o.op, known)) /\ values = <<Evaluate(o.op, args)>>
      BY <2>3, <3>1, ResultsByKind DEF ResultOf
    <3>5. i = 1
      BY <1>4, <3>1
    <3>6. ResultOf(o) \in LatticeValue
      BY <2>3, <3>4, EvaluateIsWord
    <3> HIDE DEF known, values
    <3>7. ResultOf(o).kind = "const" /\ ResultOf(o).val = values[1]
      BY <3>3, <3>4 DEF Const
    <3> QED BY <3>5, <3>6, <3>7 DEF Agrees
  <2>4. CASE o.op \notin {"const", "evm"} /\ ~Evaluates(o)
    BY <2>4 DEF ResultOf, Agrees, Overdefined, LatticeValue
  <2>5. Evaluates(o) => o.op \notin {"const", "evm"}
    BY DEF Evaluates, Foldable
  <2> QED BY <2>1, <2>2, <2>3, <2>4, <2>5
<1> HIDE DEF values
<1>8. Agrees(lat[o.outs[i]], values[i], env)
  BY <1>5, <1>6, <1>7, AgreesBelow
<1> QED BY <1>8 DEF values, args

LEMMA OpIsSound ==
    ASSUME NEW env \in Environments, NEW run, RunIsSound(run, env), IsSettled,
           NEW j \in 1 .. Len(prog.blocks[Last(run.stack).block].ops)
    PROVE  RunIsSound(StepOp(prog, env, run, prog.ops[prog.blocks[Last(run.stack).block].ops[j]]), env)
<1> DEFINE frame == Last(run.stack)
           b == frame.block
           o == prog.ops[prog.blocks[b].ops[j]]
           args == Read(frame, o.ins)
           next == StepOp(prog, env, run, o)
           onward == Continue(run, b, frame.pc + 1, <<>>, <<>>)
<1> SUFFICES RunIsSound(next, env)
  OBVIOUS
<1> HIDE DEF next
<1>1. IsProgram(prog) /\ SccpTypeOK
  BY DEF IsSettled, SccpTypeOK
<1>2. frame \in Frames /\ FrameIsSound(frame, env) /\ b \in reachable /\ b \in BlockIds(prog)
  BY TopFrame DEF FrameIsSound, Frames
<1>3. o \in Operations(prog) /\ OpIsSettled(o) /\ (IsCall(o) => IsOpen(o.val))
  <2>1. prog.blocks[b].ops \in Seq(1 .. Len(prog.ops))
    BY <1>1, <1>2, Tables DEF BasicBlocks
  <2>2. prog.blocks[b].ops[j] \in 1 .. Len(prog.ops)
    BY <2>1, ElementOfSeq
  <2> QED BY <1>1, <1>2, <2>2, Tables DEF IsSettled
<1> HIDE DEF o, b
<1>4. o.ins \in Seq(Locals(prog)) /\ o.outs \in Seq(Locals(prog))
  BY <1>3 DEF Operations
<1>5. args \in Seq(Val) /\ Len(args) = Len(o.ins)
  BY <1>2, <1>4, ReadIsTyped
<1>6. frame.pc + 1 \in Nat \ {0}
  BY <1>2 DEF Frames
<1>7. RunIsSound(onward, env)
  <2>1. <<>> \in Seq(Locals(prog)) /\ <<>> \in Seq(Val) /\ Taken(<<>>, <<>>) = {}
    BY DEF Taken
  <2> QED BY <1>1, <1>2, <1>6, <2>1, ContinueIsSound
<1>8. CASE \E i \in 1 .. Len(args) : args[i] = Undefined
  <2>1. next = Halt(run, "undefined")
    BY <1>8 DEF StepOp, next
  <2> QED BY <2>1, HaltIsSound DEF Statuses
<1>9. CASE \A i \in 1 .. Len(args) : args[i] # Undefined
  <2>1. \A i \in 1 .. Len(o.ins) : Agrees(lat[o.ins[i]], args[i], env)
    BY <1>2, <1>4, <1>5, <1>9, ReadAgrees
  <2>2. CASE IsCall(o)
    <3> DEFINE entry == Entry(prog, o.val)
               ins == prog.blocks[entry].ins
               callee == [block |-> entry, pc |-> 1, outs |-> o.outs,
                          regs |-> [l \in Locals(prog) |-> Undefined]]
               pushed == PushFrame(onward, callee)
    <3>1. next = Continue(pushed, entry, 1, ins, args)
      <4>1. next = Call(prog, run, o, o.outs)
        BY <1>9, <2>2 DEF StepOp, next, IsCall
      <4>2. Call(prog, run, o, o.outs) = Continue(pushed, entry, 1, ins, args)
        BY DEF Call, b
      <4> QED BY <4>1, <4>2
    <3>2. o.val \in FunctionIds(prog) /\ IsOpen(o.val)
      BY <1>3, <2>2 DEF Operations
    <3>3. entry \in BlockIds(prog) /\ entry \in reachable /\ \A i \in 1 .. Len(ins) : lat[ins[i]] = Overdefined
      BY <1>1, <3>2, Tables DEF IsOpen
    <3>4. ins \in Seq(Locals(prog))
      BY <1>1, <3>3, Tables DEF BasicBlocks
    <3>5. \A i \in 1 .. Len(o.outs) : lat[o.outs[i]] = Overdefined
      <4>1. ResultOf(o) = Overdefined
        BY <2>2 DEF ResultOf, IsCall, Evaluates, Foldable
      <4>2. \A i \in 1 .. Len(o.outs) : Below(lat[o.outs[i]], Overdefined)
        BY <1>3, <4>1 DEF OpIsSettled
      <4> QED BY <4>2 DEF Below, Overdefined, Unknown
    <3> HIDE DEF entry, ins
    <3>6. callee \in Frames
      BY <1>4, <3>3 DEF Frames, Val, Undefined
    <3>7. FrameIsSound(callee, env)
      BY <3>3, <3>5 DEF FrameIsSound
    <3> HIDE DEF callee, onward
    <3>8. RunIsSound(pushed, env)
      BY <1>7, <3>6, <3>7, PushIsSound
    <3> HIDE DEF pushed, args
    <3>9. \A i \in Taken(ins, args) : i \in 1 .. Len(ins)
      BY <1>5, <3>4, LenProperties DEF Taken
    <3>10. \A i \in Taken(ins, args) : Agrees(lat[ins[i]], args[i], env)
      BY <3>3, <3>9 DEF Agrees, Overdefined
    <3>11. RunIsSound(Continue(pushed, entry, 1, ins, args), env)
      BY <1>1, <1>5, <3>3, <3>4, <3>8, <3>10, ContinueIsSound
    <3> QED BY <3>1, <3>11
  <2>3. CASE o.op \in {"stop", "invalid"}
    <3>1. next = Halt(run, o.op)
      BY <1>9, <2>3 DEF StepOp, next, IsCall
    <3>2. o.op \in Statuses
      BY <2>3 DEF Statuses
    <3> QED BY <3>1, <3>2, HaltIsSound
  <2>4. CASE o.op = "sstore"
    <3>1. next = Effect(onward, args)
      BY <1>9, <2>4 DEF StepOp, next, IsCall, b
    <3> HIDE DEF onward, args
    <3>2. onward \in Runs /\ onward.trace \in Seq(Seq(Val))
      BY <1>7 DEF RunIsSound, Runs
    <3>3. Append(onward.trace, args) \in Seq(Seq(Val))
      BY <1>5, <3>2, AppendProperties
    <3>4. /\ next \in Runs /\ next.stack = onward.stack
          /\ next.seen = onward.seen /\ next.visited = onward.visited
      BY <3>1, <3>2, <3>3 DEF Runs, Effect
    <3> QED BY <1>7, <3>4 DEF RunIsSound
  <2>5. CASE ~IsCall(o) /\ o.op \notin {"stop", "invalid", "sstore"}
    <3> DEFINE values == Results(env, o, args)
    <3>1. next = Continue(run, b, frame.pc + 1, o.outs, values)
      BY <1>9, <2>5 DEF StepOp, next, b
    <3>2. values \in Seq(Val)
      BY <1>3, <1>5, <1>9, ResultsAreTyped
    <3>3. \A i \in Taken(o.outs, values) : Agrees(lat[o.outs[i]], values[i], env)
      BY <1>1, <1>2, <1>3, <1>5, <1>9, ResultsAgree
    <3> HIDE DEF values
    <3>4. RunIsSound(Continue(run, b, frame.pc + 1, o.outs, values), env)
      BY <1>1, <1>2, <1>4, <1>6, <3>2, <3>3, ContinueIsSound
    <3> QED BY <3>1, <3>4
  <2> QED BY <2>2, <2>3, <2>4, <2>5
<1> QED BY <1>8, <1>9

LEMMA StepIsSound ==
    ASSUME NEW env \in Environments, NEW run, RunIsSound(run, env), IsSettled
    PROVE  RunIsSound(Step(prog, env, run), env)
<1> DEFINE frame == Last(run.stack)
           ops == prog.blocks[frame.block].ops
           here == [run EXCEPT !.visited = @ \cup {frame.block}]
<1>1. frame \in Frames /\ FrameIsSound(frame, env)
  BY TopFrame
<1>2. frame.block \in reachable /\ frame.block \in BlockIds(prog) /\ frame.pc \in Nat \ {0}
  BY <1>1 DEF FrameIsSound, Frames
<1>3. /\ here \in Runs /\ here.stack = run.stack /\ here.seen = run.seen
      /\ here.visited = run.visited \cup {frame.block}
  BY <1>2 DEF RunIsSound, Runs
<1>4. RunIsSound(here, env) /\ Last(here.stack) = frame
  <2> HIDE DEF here, frame
  <2>1. RunIsSound(here, env)
    BY <1>2, <1>3 DEF RunIsSound
  <2> QED BY <1>3, <2>1 DEF frame
<1> HIDE DEF here
<1>5. CASE frame.pc <= Len(ops)
  <2>1. Len(ops) \in Nat
    BY <1>2, Tables, LenProperties DEF IsSettled, SccpTypeOK, BasicBlocks
  <2>2. frame.pc \in 1 .. Len(ops)
    BY <1>2, <1>5, <2>1
  <2>3. Step(prog, env, run) = StepOp(prog, env, here, prog.ops[ops[frame.pc]])
    BY <1>5 DEF Step, here
  <2>4. frame.pc \in 1 .. Len(prog.blocks[Last(here.stack).block].ops)
    BY <1>4, <2>2
  <2>5. RunIsSound(StepOp(prog, env, here, prog.ops[prog.blocks[Last(here.stack).block].ops[frame.pc]]), env)
    BY <1>4, <2>4, OpIsSound
  <2> QED BY <1>4, <2>3, <2>5
<1>6. CASE ~(frame.pc <= Len(ops))
  <2>1. Step(prog, env, run) = StepControl(prog, here, prog.blocks[frame.block].ctl)
    BY <1>6 DEF Step, here
  <2>2. RunIsSound(StepControl(prog, here, prog.blocks[Last(here.stack).block].ctl), env)
    BY <1>4, ControlIsSound
  <2> QED BY <1>4, <2>1, <2>2
<1> QED BY <1>5, <1>6

-----------------------------------------------------------------------------
(* An execution and the steps it consists of.                              *)
LEMMA ExecutionSteps ==
    ASSUME NEW p, NEW env, NEW f, NEW n \in Nat
    PROVE  \E run : /\ run[0] = Start(p, f) /\ run[n] = Execution(p, env, f, n)
                    /\ \A k \in 1 .. n : run[k] = Advance(p, env, run[k - 1])
<1> DEFINE IsRun(m, run) == run = [k \in 0 .. m |-> IF k = 0 THEN Start(p, f) ELSE Advance(p, env, run[k - 1])]
           T == {m \in 0 .. n : \E run : IsRun(m, run)}
<1>1. 0 \in T
  <2>1. IsRun(0, [k \in 0 .. 0 |-> Start(p, f)])
    OBVIOUS
  <2> HIDE DEF IsRun
  <2>2. 0 \in 0 .. n /\ \E run : IsRun(0, run)
    BY <2>1
  <2> QED BY <2>2
<1>2. ASSUME NEW m \in 1 .. n, m - 1 \in T PROVE m \in T
  <2>1. PICK run : IsRun(m - 1, run)
    BY <1>2
  <2> DEFINE more == [k \in 0 .. m |-> IF k = m THEN Advance(p, env, run[m - 1]) ELSE run[k]]
  <2>2. ASSUME NEW k \in 0 .. m
        PROVE  more[k] = IF k = 0 THEN Start(p, f) ELSE Advance(p, env, more[k - 1])
    <3>1. CASE k = m
      <4>1. k # 0 /\ k - 1 \in 0 .. m /\ k - 1 # m
        BY <3>1
      <4> QED BY <3>1, <4>1
    <3>2. CASE k # m
      <4>1. k \in 0 .. m - 1 /\ more[k] = run[k]
        BY <3>2
      <4>2. run[k] = IF k = 0 THEN Start(p, f) ELSE Advance(p, env, run[k - 1])
        BY <2>1, <4>1
      <4>3. k # 0 => more[k - 1] = run[k - 1]
        <5> SUFFICES ASSUME k # 0 PROVE more[k - 1] = run[k - 1]
          OBVIOUS
        <5>1. k - 1 \in 0 .. m /\ k - 1 # m
          BY <4>1
        <5> QED BY <5>1
      <4> QED BY <4>1, <4>2, <4>3
    <3> QED BY <3>1, <3>2
  <2>3. IsRun(m, more)
    BY <2>2
  <2> HIDE DEF IsRun, more
  <2>4. m \in 0 .. n /\ \E it : IsRun(m, it)
    BY <2>3
  <2> QED BY <2>4
<1>3. n \in T
  <2>1. 0 .. n \subseteq T
    <3> HIDE DEF T
    <3> QED BY <1>1, <1>2, InductionUpTo
  <2> QED BY <2>1
<1> DEFINE it == CHOOSE run : IsRun(n, run)
<1>4. IsRun(n, it)
  BY <1>3
<1>5. Execution(p, env, f, n) = it[n]
  BY DEF Execution
<1> HIDE DEF it
<1>6. \A k \in 0 .. n : it[k] = IF k = 0 THEN Start(p, f) ELSE Advance(p, env, it[k - 1])
  BY <1>4
<1>7. it[0] = Start(p, f) /\ \A k \in 1 .. n : it[k] = Advance(p, env, it[k - 1])
  BY <1>6
<1> QED BY <1>5, <1>7

LEMMA StartIsSound ==
    ASSUME NEW env \in Environments, IsSettled, NEW f \in EntryPoints(prog)
    PROVE  RunIsSound(Start(prog, f), env)
<1> DEFINE entry == Entry(prog, f)
           frame == [block |-> entry, pc |-> 1, outs |-> <<>>, regs |-> [l \in Locals(prog) |-> Undefined]]
           start == Start(prog, f)
<1>1. IsProgram(prog)
  BY DEF IsSettled, SccpTypeOK
<1>2. f \in FunctionIds(prog)
  BY <1>1 DEF EntryPoints, IsProgram
<1>3. entry \in BlockIds(prog) /\ entry \in reachable
  BY <1>1, <1>2, Tables DEF IsSettled, IsOpen
<1> HIDE DEF entry
<1>4. frame \in Frames
  BY <1>3 DEF Frames, Val, Undefined
<1>5. FrameIsSound(frame, env)
  BY <1>3 DEF FrameIsSound
<1>6. start = [status |-> "running", trace |-> <<>>, seen |-> {}, visited |-> {}, stack |-> <<frame>>]
  BY DEF Start, entry
<1> HIDE DEF frame, start
<1>7. <<frame>> \in Seq(Frames) /\ Len(<<frame>>) = 1 /\ <<frame>>[1] = frame
  BY <1>4
<1>8. start \in Runs
  BY <1>6, <1>7 DEF Runs, Statuses
<1>9. RunIsSound(start, env)
  <2>1. start.stack = <<frame>> /\ start.seen = {} /\ start.visited = {}
    BY <1>6
  <2>2. \A i \in 1 .. Len(start.stack) : FrameIsSound(start.stack[i], env)
    BY <1>5, <1>7, <2>1
  <2>3. Len(start.stack) >= 1
    BY <1>7, <2>1
  <2> QED BY <1>8, <2>1, <2>2, <2>3 DEF RunIsSound
<1> QED BY <1>9 DEF start

LEMMA StepsAreSound ==
    ASSUME NEW env \in Environments, IsSettled, NEW n \in Nat, NEW run,
           RunIsSound(run[0], env), \A k \in 1 .. n : run[k] = Advance(prog, env, run[k - 1])
    PROVE  \A k \in 0 .. n : RunIsSound(run[k], env)
<1> DEFINE T == {k \in 0 .. n : RunIsSound(run[k], env)}
<1>1. 0 \in T
  OBVIOUS
<1>2. ASSUME NEW k \in 1 .. n, k - 1 \in T PROVE k \in T
  <2>1. RunIsSound(run[k - 1], env)
    BY <1>2
  <2>2. RunIsSound(Advance(prog, env, run[k - 1]), env)
    BY <2>1, StepIsSound DEF Advance
  <2> QED BY <2>2
<1>3. 0 .. n \subseteq T
  <2> HIDE DEF T
  <2> QED BY <1>1, <1>2, InductionUpTo
<1> QED BY <1>3

LEMMA ExecutionIsSound ==
    ASSUME NEW env \in Environments, IsSettled, NEW n \in Nat, NEW f \in EntryPoints(prog)
    PROVE  RunIsSound(Execution(prog, env, f, n), env)
<1>1. PICK run : /\ run[0] = Start(prog, f) /\ run[n] = Execution(prog, env, f, n)
                 /\ \A k \in 1 .. n : run[k] = Advance(prog, env, run[k - 1])
  BY ExecutionSteps
<1>2. \A k \in 0 .. n : RunIsSound(run[k], env)
  BY <1>1, StartIsSound, StepsAreSound
<1> QED BY <1>1, <1>2

-----------------------------------------------------------------------------
(* What the analysis never takes for known: the inputs of functions.       *)
OpenInv ==
    sccp = "analysis" => \A k \in 1 .. Len(functions) : IsOpen(functions[k])

LEMMA OpenInvIsInductive ==
    ASSUME FixedPointInv, OpenInv, [SccpNext]_sccpVars
    PROVE  OpenInv'
<1> SUFFICES ASSUME sccp' = "analysis", NEW k \in 1 .. Len(functions)' PROVE IsOpen(functions[k])'
  BY DEF OpenInv
<1>1. SccpTypeOK /\ TypeInv /\ IsProgram(prog)
  BY DEF FixedPointInv, TypeInv, SccpTypeOK
<1>2. UNCHANGED <<prog, functions>>
  BY DEF SccpNext, StartAnalysis, AnalysisStep, TakeBlock, TakeValue, VisitOp, Sink, VisitEdge, FlowOutput,
         FlowSingleOutput, VisitUse, NoMatchingCase, Apply, ApplyNoTarget, sccpInputs, sccpVars
<1> DEFINE entry == Entry(prog, functions[k])
           ins == prog.blocks[entry].ins
<1>3. k \in 1 .. Len(functions) /\ functions[k] \in FunctionIds(prog)
  BY <1>1, <1>2, ElementOfSeq DEF SccpTypeOK
<1>4. ins \in Seq(Locals(prog))
  BY <1>1, <1>3, Tables DEF BasicBlocks
<1>5. \A i \in 1 .. Len(ins) : ins[i] \in Locals(prog)
  BY <1>4, ElementOfSeq
<1> SUFFICES entry \in reachable' /\ \A i \in 1 .. Len(ins) : lat'[ins[i]] = Overdefined
  BY <1>2 DEF IsOpen
<1>6. CASE StartAnalysis
  <2>1. entry \in reachable'
    BY <1>3, <1>6 DEF StartAnalysis
  <2>2. ASSUME NEW i \in 1 .. Len(ins) PROVE lat'[ins[i]] = Overdefined
    BY <1>3, <1>5, <1>6 DEF StartAnalysis
  <2> QED BY <2>1, <2>2
<1>7. CASE AnalysisStep
  <2>1. sccp = "analysis" /\ Descends
    BY <1>1, <1>7, AnalysisStepIsSafe DEF AnalysisStep, TakeBlock, TakeValue, VisitOp, Sink, VisitEdge, FlowOutput,
           FlowSingleOutput, VisitUse, NoMatchingCase, Is, Running
  <2>2. entry \in reachable /\ \A i \in 1 .. Len(ins) : lat[ins[i]] = Overdefined
    BY <1>3, <2>1 DEF OpenInv, IsOpen
  <2>3. \A i \in 1 .. Len(ins) : Below(lat'[ins[i]], Overdefined)
    BY <1>5, <2>1, <2>2 DEF Descends
  <2> QED BY <2>1, <2>2, <2>3 DEF Below, Overdefined, Unknown, Descends
<1>8. CASE Apply \/ ApplyNoTarget
  BY <1>8 DEF Apply, ApplyNoTarget
<1>9. CASE UNCHANGED sccpVars
  BY <1>3, <1>9 DEF sccpVars, sccpInputs, OpenInv, IsOpen
<1> QED BY <1>6, <1>7, <1>8, <1>9 DEF SccpNext

LEMMA EndIsSettled ==
    ASSUME FixedPointInv, OpenInv, FixedPoint, AnalysisDone
    PROVE  IsSettled
<1>1. SccpTypeOK /\ EdgesMatch(prog)
  BY DEF FixedPointInv, TypeInv, AnalysisDone, Running
<1>2. PICK region : StaysIn(region)
  BY DEF FixedPointInv, Owing, AnalysisDone, Running
<1>3. \A f : IsListed(functions, f) => IsOpen(f)
  BY DEF OpenInv, IsListed, AnalysisDone, Running
<1>4. \A f \in EntryPoints(prog) : IsOpen(f)
  BY <1>2, <1>3 DEF StaysIn, IsCovered
<1>5. ASSUME NEW b \in reachable, NEW j \in 1 .. Len(prog.blocks[b].ops),
             IsCall(prog.ops[prog.blocks[b].ops[j]])
      PROVE  IsOpen(prog.ops[prog.blocks[b].ops[j]].val)
  BY <1>2, <1>3, <1>5 DEF StaysIn, IsCovered, CallsAreListed
<1> QED BY <1>1, <1>4, <1>5 DEF IsSettled, FixedPoint

SoundnessInv == FixedPointInv /\ OpenInv

LEMMA SoundnessInvHolds == SccpSpec => []SoundnessInv
<1>1. SccpInit => SoundnessInv
  BY FixedPointInvInit DEF SoundnessInv, OpenInv, SccpInit
<1>2. SoundnessInv /\ [SccpNext]_sccpVars => SoundnessInv'
  BY FixedPointInvIsInductive, OpenInvIsInductive DEF SoundnessInv
<1> QED BY <1>1, <1>2, PTL DEF SccpSpec

(* What SCCP takes for a constant is one: whatever the environment, every    *)
(* execution from an entry point sets a local only to the value that the     *)
(* lattice has for it, and runs in reached blocks only, for any number of    *)
(* steps.  Branches, switches, loops and calls carry values to where the     *)
(* analysis has looked, because it stops at a fixed point.                   *)
THEOREM ConclusionsHold == SccpSpec => []ConclusionsAreReal
<1>1. SoundnessInv /\ FixedPoint => ConclusionsAreReal
  <2> SUFFICES ASSUME SoundnessInv, FixedPoint, AnalysisDone, NEW env \in Environments, NEW f \in EntryPoints(prog)
               PROVE  /\ Execution(prog, env, f, Steps).visited \subseteq reachable
                      /\ \A s \in Execution(prog, env, f, Steps).seen : Agrees(lat[s[1]], s[2], env)
    BY DEF ConclusionsAreReal
  <2>1. IsSettled
    BY EndIsSettled DEF SoundnessInv
  <2>2. RunIsSound(Execution(prog, env, f, Steps), env)
    BY <2>1, ExecutionIsSound, SemanticsAssumption
  <2> QED BY <2>2 DEF RunIsSound
<1> QED BY <1>1, SoundnessInvHolds, NothingIsLeftToConclude, PTL

-----------------------------------------------------------------------------
(* Programs that differ in the operations and the control of blocks only.  *)
IsAlike(q) ==
    /\ q.functions = prog.functions /\ Locals(q) = Locals(prog)
    /\ \A b \in BlockIds(prog) :
          q.blocks[b].ins = prog.blocks[b].ins /\ q.blocks[b].outs = prog.blocks[b].outs

LEMMA JumpsAlike ==
    ASSUME NEW q, IsAlike(q), NEW env, NEW run, RunIsSound(run, env), NEW to \in BlockIds(prog)
    PROVE  Jump(q, run, to) = Jump(prog, run, to)
<1>1. Last(run.stack).block \in BlockIds(prog)
  BY TopFrame DEF Frames
<1> QED BY <1>1 DEF Jump, IsAlike

LEMMA OpsAlike ==
    ASSUME NEW q, IsAlike(q), NEW env, NEW run, RunIsSound(run, env), IsProgram(prog), NEW o \in Operations(prog)
    PROVE  StepOp(q, env, run, o) = StepOp(prog, env, run, o)
<1>1. IsCall(o) => Call(q, run, o, o.outs) = Call(prog, run, o, o.outs)
  <2> SUFFICES ASSUME IsCall(o) PROVE Call(q, run, o, o.outs) = Call(prog, run, o, o.outs)
    OBVIOUS
  <2>1. o.val \in FunctionIds(prog)
    BY DEF Operations
  <2>2. Entry(q, o.val) = Entry(prog, o.val) /\ Entry(prog, o.val) \in BlockIds(prog)
    BY <2>1, Tables DEF IsAlike, Entry
  <2>3. q.blocks[Entry(q, o.val)].ins = prog.blocks[Entry(prog, o.val)].ins
    BY <2>2 DEF IsAlike
  <2> QED BY <2>2, <2>3 DEF Call, IsAlike
<1>2. CASE \E i \in 1 .. Len(Read(Last(run.stack), o.ins)) : Read(Last(run.stack), o.ins)[i] = Undefined
  BY <1>2 DEF StepOp
<1>3. CASE IsCall(o) /\ ~ \E i \in 1 .. Len(Read(Last(run.stack), o.ins)) : Read(Last(run.stack), o.ins)[i] = Undefined
  <2>1. StepOp(q, env, run, o) = Call(q, run, o, o.outs)
    BY <1>3 DEF StepOp, IsCall
  <2>2. StepOp(prog, env, run, o) = Call(prog, run, o, o.outs)
    BY <1>3 DEF StepOp, IsCall
  <2> QED BY <1>1, <1>3, <2>1, <2>2
<1>4. CASE ~IsCall(o)
  BY <1>4 DEF StepOp
<1> QED BY <1>2, <1>3, <1>4

LEMMA ControlAlike ==
    ASSUME NEW q, IsAlike(q), NEW env, NEW run, RunIsSound(run, env), IsProgram(prog),
           NEW ctl \in Controls(prog), SccpTypeOK
    PROVE  StepControl(q, run, ctl) = StepControl(prog, run, ctl)
<1>1. Last(run.stack).block \in BlockIds(prog)
  BY TopFrame DEF Frames
<1>2. q.blocks[Last(run.stack).block].outs = prog.blocks[Last(run.stack).block].outs
  BY <1>1 DEF IsAlike
<1>3. Return(q, run) = Return(prog, run)
  BY <1>2 DEF Return
<1>4. \A to \in BlockIds(prog) : Jump(q, run, to) = Jump(prog, run, to)
  BY JumpsAlike
<1>5. ctl.kind = "goto" => Jump(q, run, ctl.to) = Jump(prog, run, ctl.to)
  BY <1>4 DEF Controls
<1>6. ctl.kind = "branch" => Jump(q, run, ctl.zero) = Jump(prog, run, ctl.zero)
                             /\ Jump(q, run, ctl.nonZero) = Jump(prog, run, ctl.nonZero)
  BY <1>4 DEF Controls
<1>7. ctl.kind = "switch" => \A w : Turn(q, run, SwitchTarget(ctl, w)) = Turn(prog, run, SwitchTarget(ctl, w))
  BY <1>4, SwitchTargetIsBlock DEF Turn
<1>8. ctl.kind \in {"last", "iret", "goto", "branch", "switch"}
  BY DEF Controls
<1> DEFINE used == Read(Last(run.stack), prog.blocks[Last(run.stack).block].outs)
           wrong == \/ \E i \in 1 .. Len(used) : used[i] = Undefined
                    \/ \E l \in Condition(ctl) : Last(run.stack).regs[l] = Undefined
<1>9. CASE wrong
  BY <1>2, <1>9 DEF StepControl
<1>10. CASE ~wrong
  <2>1. CASE ctl.kind = "last"
    BY <1>2, <1>10, <2>1 DEF StepControl
  <2>2. CASE ctl.kind = "iret"
    BY <1>2, <1>3, <1>10, <2>2 DEF StepControl
  <2>3. CASE ctl.kind = "goto"
    BY <1>2, <1>5, <1>10, <2>3 DEF StepControl
  <2>4. CASE ctl.kind = "branch"
    BY <1>2, <1>6, <1>10, <2>4 DEF StepControl
  <2>5. CASE ctl.kind = "switch"
    BY <1>2, <1>7, <1>10, <2>5 DEF StepControl
  <2> QED BY <1>8, <2>1, <2>2, <2>3, <2>4, <2>5
<1> QED BY <1>9, <1>10

(* An operation that becomes a constant has computed that constant. *)
LEMMA RewrittenOpSteps ==
    ASSUME NEW q, IsAlike(q), NEW env \in Environments, NEW run, RunIsSound(run, env), IsSettled,
           NEW o \in Operations(prog), OpIsSettled(o)
    PROVE  \/ StepOp(q, env, run, Rewritten(o)) = StepOp(prog, env, run, o)
           \/ StepOp(prog, env, run, o).status = "undefined"
<1> DEFINE frame == Last(run.stack)
           args == Read(frame, o.ins)
           values == Results(env, o, args)
           l == o.outs[1]
           v == lat[l].val
           w == SetConst(l, v)
<1>1. SccpTypeOK /\ IsProgram(prog)
  BY DEF IsSettled, SccpTypeOK
<1>2. frame \in Frames /\ FrameIsSound(frame, env)
  BY TopFrame
<1>3. CASE Rewritten(o) = o
  BY <1>1, <1>3, OpsAlike
<1>4. CASE \E i \in 1 .. Len(args) : args[i] = Undefined
  <2>1. StepOp(prog, env, run, o) = Halt(run, "undefined")
    BY <1>4 DEF StepOp
  <2>2. run \in Runs
    BY DEF RunIsSound
  <2> QED BY <2>1, <2>2 DEF Halt, Runs
<1>5. CASE Rewritten(o) # o /\ \A i \in 1 .. Len(args) : args[i] # Undefined
  <2>1. Len(o.outs) = 1 /\ IsConst(l) /\ Rewritten(o) = w
    BY <1>5 DEF Rewritten, SmallConst
  <2>2. o.outs \in Seq(Locals(prog)) /\ o.ins \in Seq(Locals(prog))
    BY DEF Operations
  <2>3. l \in Locals(prog) /\ o.outs = <<l>>
    <3>1. l \in Locals(prog)
      BY <2>1, <2>2, ElementOfSeq
    <3> QED BY <2>1, <2>2, <3>1
  <2>4. Below(lat[l], ResultOf(o))
    BY <2>1 DEF OpIsSettled
  <2>5. ResultOf(o) = lat[l] /\ ResultOf(o).kind = "const"
    <3>1. ResultOf(o) # Unknown
      BY DEF ResultOf, Unknown, Const, EvmConst, Overdefined
    <3>2. lat[l] # Overdefined
      BY <2>1 DEF IsConst, Overdefined
    <3>3. ResultOf(o) = lat[l]
      BY <2>4, <3>1, <3>2 DEF Below
    <3> QED BY <2>1, <3>3 DEF IsConst
  <2>6. o.op = "const" \/ Evaluates(o)
    BY <2>5 DEF ResultOf, EvmConst, Overdefined
  <2>7. ~IsCall(o) /\ o.op \notin {"stop", "invalid", "sstore"}
    BY <2>6 DEF IsCall, Evaluates, Foldable
  <2>8. values = <<v>>
    <3>1. Len(values) = 1
      BY <2>6, ResultsByKind DEF Evaluates
    <3>2. values \in Seq(Val)
      BY <1>2, <1>5, <2>2, ReadIsTyped, ResultsAreTyped
    <3>3. 1 \in Taken(o.outs, values)
      BY <2>1, <3>1 DEF Taken
    <3>4. \A i \in 1 .. Len(o.ins) : args[i] # Undefined
      BY <1>2, <1>5, <2>2, ReadIsTyped
    <3>5. Agrees(lat[l], values[1], env)
      BY <1>1, <1>2, <3>3, <3>4, ResultsAgree
    <3>6. values[1] = v
      BY <2>5, <3>5 DEF Agrees
    <3>7. values[1] \in Val
      BY <3>1, <3>2, ElementOfSeq
    <3> HIDE DEF values, v
    <3> QED BY <3>1, <3>2, <3>6
  <2>9. StepOp(prog, env, run, o) = Continue(run, frame.block, frame.pc + 1, <<l>>, <<v>>)
    <3>1. StepOp(prog, env, run, o) = Continue(run, frame.block, frame.pc + 1, o.outs, values)
      BY <1>5, <2>7 DEF StepOp
    <3> QED BY <2>3, <2>8, <3>1
  <2>10. StepOp(q, env, run, w) = Continue(run, frame.block, frame.pc + 1, <<l>>, <<v>>)
    <3>1. w.ins = <<>> /\ w.outs = <<l>> /\ w.op = "const" /\ w.val = v
      BY DEF SetConst, Op
    <3>2. Len(Read(frame, w.ins)) = 0
      BY <3>1 DEF Read
    <3>3. Results(env, w, Read(frame, w.ins)) = <<v>>
      BY <3>1, ResultsByKind
    <3> HIDE DEF w, frame, l, v
    <3>4. StepOp(q, env, run, w) = Continue(run, frame.block, frame.pc + 1, w.outs, Results(env, w, Read(frame, w.ins)))
      BY <3>1, <3>2 DEF StepOp, IsCall, frame
    <3> QED BY <3>1, <3>3, <3>4
  <2> QED BY <2>1, <2>9, <2>10
<1> QED BY <1>3, <1>4, <1>5

(* A control that becomes a jump leads where it has led. *)
LEMMA SimplifiedControlSteps ==
    ASSUME NEW q, IsAlike(q), NEW env \in Environments, NEW run, RunIsSound(run, env), IsSettled,
           ~NoTarget(Last(run.stack).block)
    PROVE  \/ StepControl(q, run, Simplified(prog.blocks[Last(run.stack).block].ctl))
                = StepControl(prog, run, prog.blocks[Last(run.stack).block].ctl)
           \/ StepControl(prog, run, prog.blocks[Last(run.stack).block].ctl).status = "undefined"
<1> DEFINE frame == Last(run.stack)
           b == frame.block
           ctl == prog.blocks[b].ctl
           used == Read(frame, prog.blocks[b].outs)
           wrong == \/ \E i \in 1 .. Len(used) : used[i] = Undefined
                    \/ \E l \in Condition(ctl) : frame.regs[l] = Undefined
           w == frame.regs[ctl.cond]
           to == IF ctl.kind = "branch" THEN IF w = 0 THEN ctl.zero ELSE ctl.nonZero ELSE SwitchTarget(ctl, w)
<1>1. SccpTypeOK /\ IsProgram(prog)
  BY DEF IsSettled, SccpTypeOK
<1>2. frame \in Frames /\ FrameIsSound(frame, env) /\ b \in BlockIds(prog)
  BY TopFrame DEF Frames
<1>3. ctl \in Controls(prog)
  BY <1>1, <1>2, Tables DEF BasicBlocks
<1>4. CASE Simplified(ctl) = ctl
  BY <1>1, <1>3, <1>4, ControlAlike
<1>5. CASE wrong
  <2>1. StepControl(prog, run, ctl) = Halt(run, "undefined")
    BY <1>5 DEF StepControl
  <2>2. run \in Runs
    BY DEF RunIsSound
  <2> QED BY <2>1, <2>2 DEF Halt, Runs
<1>6. CASE ~wrong /\ Simplified(ctl) # ctl
  <2>1. ctl.kind \in {"branch", "switch"} /\ IsConst(ctl.cond)
    BY <1>6 DEF Simplified
  <2>2. ctl.cond \in Locals(prog) /\ ctl.cond \in Condition(ctl)
    BY <1>3, <2>1 DEF Controls, Condition
  <2>3. lat[ctl.cond].val = w
    BY <1>2, <1>6, <2>1, <2>2 DEF FrameIsSound, Agrees, IsConst
  <2>4. Simplified(ctl) = ContinuesTo(to)
    BY <2>1, <2>3 DEF Simplified
  <2>5. to \in BlockIds(prog) /\ (ctl.kind = "switch" => to # None)
    <3>1. CASE ctl.kind = "branch"
      BY <1>3, <3>1 DEF Controls
    <3>2. CASE ctl.kind = "switch"
      <4>1. SwitchTarget(ctl, w) # None
        BY <2>1, <2>3, <3>2 DEF NoTarget
      <4> QED BY <1>1, <1>3, <3>2, <4>1, SwitchTargetIsBlock
    <3> QED BY <2>1, <3>1, <3>2
  <2>6. StepControl(prog, run, ctl) = Jump(prog, run, to)
    <3>1. CASE ctl.kind = "branch"
      BY <1>6, <3>1 DEF StepControl
    <3>2. CASE ctl.kind = "switch"
      <4>1. StepControl(prog, run, ctl) = Turn(prog, run, SwitchTarget(ctl, w))
        BY <1>6, <3>2 DEF StepControl
      <4> QED BY <2>5, <3>2, <4>1 DEF Turn
    <3> QED BY <2>1, <3>1, <3>2
  <2>7. q.blocks[b].outs = prog.blocks[b].outs
    BY <1>2 DEF IsAlike
  <2>8. StepControl(q, run, ContinuesTo(to)) = Jump(q, run, to)
    <3> HIDE DEF to
    <3>1. ContinuesTo(to).kind = "goto" /\ ContinuesTo(to).to = to /\ Condition(ContinuesTo(to)) = {}
      BY DEF ContinuesTo, Condition
    <3> QED BY <1>6, <2>7, <3>1 DEF StepControl
  <2>9. Jump(q, run, to) = Jump(prog, run, to)
    BY <2>5, JumpsAlike
  <2> HIDE DEF to
  <2>10. StepControl(q, run, Simplified(ctl)) = StepControl(prog, run, ctl)
    BY <2>4, <2>6, <2>8, <2>9
  <2> QED BY <2>10
<1> QED BY <1>4, <1>5, <1>6

(* The program that apply makes of one whose analysis is done. *)
LEMMA AppliedParts ==
    ASSUME SccpTypeOK
    PROVE  /\ IsAlike(Applied)
           /\ \A b \in reachable :
                 /\ Applied.blocks[b].ops = prog.blocks[b].ops
                 /\ Applied.blocks[b].ctl = Simplified(prog.blocks[b].ctl)
                 /\ \A j \in 1 .. Len(prog.blocks[b].ops) :
                       Applied.ops[prog.blocks[b].ops[j]] = Rewritten(prog.ops[prog.blocks[b].ops[j]])
<1> DEFINE ops == [i \in 1 .. Len(prog.ops) |-> IF InReachedBlock(i) THEN Rewritten(prog.ops[i]) ELSE prog.ops[i]]
           blocks == [b \in BlockIds(prog) |->
                         IF b \in reachable THEN [prog.blocks[b] EXCEPT !.ctl = Simplified(@)] ELSE prog.blocks[b]]
<1>1. IsProgram(prog) /\ reachable \subseteq BlockIds(prog)
  BY DEF SccpTypeOK
<1>2. Applied = [prog EXCEPT !.ops = ops, !.blocks = blocks]
  BY DEF Applied
<1> HIDE DEF ops, blocks
<1>3. /\ Applied.ops = ops /\ Applied.blocks = blocks
      /\ Applied.functions = prog.functions /\ Applied.nextLocal = prog.nextLocal
  BY <1>1, <1>2 DEF IsProgram
<1>4. \A b \in BlockIds(prog) : prog.blocks[b] \in BasicBlocks(prog)
  BY <1>1, Tables
<1>5. \A b \in BlockIds(prog) :
         /\ blocks[b].ins = prog.blocks[b].ins /\ blocks[b].outs = prog.blocks[b].outs
         /\ blocks[b].ops = prog.blocks[b].ops
         /\ b \in reachable => blocks[b].ctl = Simplified(prog.blocks[b].ctl)
  BY <1>4 DEF blocks, BasicBlocks
<1>6. IsAlike(Applied)
  BY <1>3, <1>5 DEF IsAlike, Locals
<1>7. ASSUME NEW b \in reachable, NEW j \in 1 .. Len(prog.blocks[b].ops)
      PROVE  ops[prog.blocks[b].ops[j]] = Rewritten(prog.ops[prog.blocks[b].ops[j]])
  <2>1. prog.blocks[b].ops \in Seq(1 .. Len(prog.ops))
    BY <1>1, <1>4 DEF BasicBlocks
  <2>2. prog.blocks[b].ops[j] \in 1 .. Len(prog.ops)
    BY <2>1, ElementOfSeq
  <2>3. InReachedBlock(prog.blocks[b].ops[j])
    BY DEF InReachedBlock
  <2> QED BY <2>2, <2>3 DEF ops
<1> QED BY <1>1, <1>3, <1>5, <1>6, <1>7

LEMMA AppliedSteps ==
    ASSUME NEW env \in Environments, NEW run, RunIsSound(run, env), IsSettled, \A b \in reachable : ~NoTarget(b)
    PROVE  \/ Step(Applied, env, run) = Step(prog, env, run)
           \/ Step(prog, env, run).status = "undefined"
<1> DEFINE frame == Last(run.stack)
           b == frame.block
           ops == prog.blocks[b].ops
           here == [run EXCEPT !.visited = @ \cup {b}]
           q == Applied
<1>1. SccpTypeOK /\ IsProgram(prog)
  BY DEF IsSettled, SccpTypeOK
<1>2. frame \in Frames /\ b \in reachable /\ b \in BlockIds(prog) /\ frame.pc \in Nat \ {0}
  BY TopFrame DEF FrameIsSound, Frames
<1>3. IsAlike(q) /\ q.blocks[b].ops = ops /\ q.blocks[b].ctl = Simplified(prog.blocks[b].ctl)
      /\ \A j \in 1 .. Len(ops) : q.ops[ops[j]] = Rewritten(prog.ops[ops[j]])
  BY <1>1, <1>2, AppliedParts
<1> HIDE DEF q
<1>4. RunIsSound(here, env) /\ Last(here.stack) = frame
  <2>1. here \in Runs /\ here.stack = run.stack /\ here.seen = run.seen /\ here.visited = run.visited \cup {b}
    BY <1>2 DEF RunIsSound, Runs
  <2> HIDE DEF here, b
  <2>2. RunIsSound(here, env)
    BY <1>2, <2>1 DEF RunIsSound
  <2> QED BY <2>1, <2>2
<1> HIDE DEF here
<1>5. CASE frame.pc <= Len(ops)
  <2> DEFINE o == prog.ops[ops[frame.pc]]
  <2>1. ops \in Seq(1 .. Len(prog.ops)) /\ Len(ops) \in Nat
    BY <1>1, <1>2, Tables, LenProperties DEF BasicBlocks
  <2>2. frame.pc \in 1 .. Len(ops)
    BY <1>2, <1>5, <2>1
  <2>3. o \in Operations(prog)
    <3>1. ops[frame.pc] \in 1 .. Len(prog.ops)
      BY <2>1, <2>2, ElementOfSeq
    <3> QED BY <1>1, <3>1, Tables
  <2>4. OpIsSettled(o)
    BY <1>2, <2>2 DEF IsSettled
  <2>5. q.ops[ops[frame.pc]] = Rewritten(o)
    BY <1>3, <2>2
  <2>6. Step(q, env, run) = StepOp(q, env, here, Rewritten(o))
    BY <1>3, <1>5, <2>5 DEF Step, here
  <2>7. Step(prog, env, run) = StepOp(prog, env, here, o)
    BY <1>5 DEF Step, here
  <2> HIDE DEF o, frame, ops
  <2>8. \/ StepOp(q, env, here, Rewritten(o)) = StepOp(prog, env, here, o)
        \/ StepOp(prog, env, here, o).status = "undefined"
    BY <1>3, <1>4, <2>3, <2>4, RewrittenOpSteps
  <2> QED BY <2>6, <2>7, <2>8 DEF q
<1>6. CASE ~(frame.pc <= Len(ops))
  <2> DEFINE ctl == prog.blocks[b].ctl
  <2>1. Step(q, env, run) = StepControl(q, here, Simplified(ctl))
    BY <1>3, <1>6 DEF Step, here
  <2>2. Step(prog, env, run) = StepControl(prog, here, ctl)
    BY <1>6 DEF Step, here
  <2>3. ~NoTarget(b)
    BY <1>2
  <2>4. Last(here.stack).block = b
    BY <1>4
  <2>5. \/ StepControl(q, here, Simplified(prog.blocks[Last(here.stack).block].ctl))
              = StepControl(prog, here, prog.blocks[Last(here.stack).block].ctl)
        \/ StepControl(prog, here, prog.blocks[Last(here.stack).block].ctl).status = "undefined"
    BY <1>3, <1>4, <2>3, <2>4, SimplifiedControlSteps
  <2> QED BY <2>1, <2>2, <2>4, <2>5 DEF q
<1> QED BY <1>5, <1>6

(* Executions of the two programs agree until one reads an undefined local. *)
LEMMA AppliedExecution ==
    ASSUME NEW env \in Environments, IsSettled, \A b \in reachable : ~NoTarget(b),
           NEW n \in Nat, NEW f \in EntryPoints(prog)
    PROVE  \/ Execution(prog, env, f, n) = Execution(Applied, env, f, n)
           \/ Execution(prog, env, f, n).status = "undefined"
<1> DEFINE q == Applied
<1>1. SccpTypeOK /\ IsProgram(prog) /\ IsAlike(q)
  BY AppliedParts DEF IsSettled, SccpTypeOK
<1> HIDE DEF q
<1>2. PICK run : /\ run[0] = Start(prog, f) /\ run[n] = Execution(prog, env, f, n)
                 /\ \A k \in 1 .. n : run[k] = Advance(prog, env, run[k - 1])
  BY ExecutionSteps
<1>3. PICK new : /\ new[0] = Start(q, f) /\ new[n] = Execution(q, env, f, n)
                 /\ \A k \in 1 .. n : new[k] = Advance(q, env, new[k - 1])
  BY ExecutionSteps
<1>4. \A k \in 0 .. n : RunIsSound(run[k], env)
  BY <1>2, StartIsSound, StepsAreSound
<1>5. Start(q, f) = Start(prog, f)
  BY <1>1 DEF IsAlike, Start, Entry
<1> DEFINE T == {k \in 0 .. n : run[k] = new[k] \/ run[k].status = "undefined"}
<1>6. 0 \in T
  BY <1>2, <1>3, <1>5
<1>7. ASSUME NEW k \in 1 .. n, k - 1 \in T PROVE k \in T
  <2>1. run[k] = Advance(prog, env, run[k - 1]) /\ new[k] = Advance(q, env, new[k - 1])
    BY <1>2, <1>3
  <2>2. RunIsSound(run[k - 1], env)
    BY <1>4
  <2>3. CASE run[k - 1].status # "running"
    BY <1>7, <2>1, <2>3 DEF Advance
  <2>4. CASE run[k - 1].status = "running"
    <3>1. run[k - 1] = new[k - 1]
      BY <1>7, <2>4
    <3>2. run[k] = Step(prog, env, run[k - 1]) /\ new[k] = Step(q, env, run[k - 1])
      BY <2>1, <2>4, <3>1 DEF Advance
    <3>3. \/ Step(q, env, run[k - 1]) = Step(prog, env, run[k - 1])
          \/ Step(prog, env, run[k - 1]).status = "undefined"
      BY <2>2, AppliedSteps DEF q
    <3> QED BY <3>2, <3>3
  <2> QED BY <2>3, <2>4
<1>8. n \in T
  <2>1. 0 .. n \subseteq T
    <3> HIDE DEF T
    <3> QED BY <1>6, <1>7, InductionUpTo
  <2> QED BY <2>1
<1> QED BY <1>2, <1>3, <1>8 DEF q

(* Rewriting by the conclusions of SCCP is sound: from each entry point, in   *)
(* every environment and for any number of steps, the program that apply      *)
(* leaves behind does exactly what it was made from has done (the same stores *)
(* in the same order, the same values in the same locals, the same end),      *)
(* unless that one has read a local that was never set.                       *)
RewritingIsSafe ==
    [][Apply =>
          \A env \in Environments : \A f \in EntryPoints(prog) :
              LET before == Execution(prog, env, f, Steps)
                  after == Execution(prog', env, f, Steps)
              IN before = after \/ before.status = "undefined"]_sccpVars

(* No run of SCCP ends in a rewriting that a caller of the program can tell: *)
(* apply keeps every execution that reads only what was set.                 *)
THEOREM RewritingPreservesExecutions == SccpSpec => RewritingIsSafe
<1>1. SoundnessInv /\ FixedPoint /\ [SccpNext]_sccpVars =>
          [Apply =>
              \A env \in Environments : \A f \in EntryPoints(prog) :
                  LET before == Execution(prog, env, f, Steps)
                      after == Execution(prog', env, f, Steps)
                  IN before = after \/ before.status = "undefined"]_sccpVars
  <2> SUFFICES ASSUME SoundnessInv, FixedPoint, Apply, NEW env \in Environments, NEW f \in EntryPoints(prog)
               PROVE  \/ Execution(prog, env, f, Steps) = Execution(prog', env, f, Steps)
                      \/ Execution(prog, env, f, Steps).status = "undefined"
    OBVIOUS
  <2>1. AnalysisDone /\ (\A b \in reachable : ~NoTarget(b)) /\ prog' = Applied
    BY DEF Apply
  <2>2. IsSettled
    BY <2>1, EndIsSettled DEF SoundnessInv
  <2> QED BY <2>1, <2>2, AppliedExecution, SemanticsAssumption
<1> QED BY <1>1, SoundnessInvHolds, NothingIsLeftToConclude, PTL DEF SccpSpec, RewritingIsSafe
=============================================================================

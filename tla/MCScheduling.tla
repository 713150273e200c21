---------------------------- MODULE MCScheduling -----------------------------
(***************************************************************************)
(* What the stack scheduler promises: code that an EVM can run, and that   *)
(* does what the program does.                                             *)
(***************************************************************************)
EXTENDS StackScheduling, SirSemantics, SirAnalyses

CONSTANT Programs

(* What the release backend hands to the scheduler: legal programs, with   *)
(* critical edges split and no jump back to the entry of a function.       *)
IsInput(p) ==
    /\ IsLegal(p)
    /\ LET rpo == ReversePostOrder(p)
           preds == Predecessors(p, ReachableBlocks(rpo))
       IN /\ \A b \in ReachableBlocks(rpo) : Len(Successors(p, b)) > 1 =>
                \A to \in Cfg(p)[b] : Len(preds[to]) = 1
          /\ \A f \in ToSet(rpo.functions) : preds[Entry(p, f)] = <<>>

ASSUME ProgramsAssumption == \A p \in Programs : IsInput(p)

Init == prog \in Programs /\ SchedulingInit
Stopped == stage \in {"done", "panic"} /\ UNCHANGED vars
Next == SchedulingNext \/ Stopped
Spec == Init /\ [][Next]_vars

-----------------------------------------------------------------------------
(* No assertion, expect, lookup or step limit of the scheduler fails:      *)
(* operands are where they must be when an operation is reached, whatever  *)
(* the two greedy algorithms did before, and both come to an end.          *)
SchedulerAssertionsHold == stage # "panic"

(* Between two operations every value that is used later, by an operation  *)
(* that is not done or by the end of the block, is on the stack or spilled.*)
NoValueIsLost ==
    stage = "operations" =>
        \A k \in DOMAIN graph.nodes : \A v \in ToSet(graph.nodes[k].ins) \cup ToSet(graph.end) :
            LET made == v <= graph.inputs \/ \E j \in done : v \in ToSet(graph.nodes[j].outs)
                needed == Consumers(graph, v) \ done # {} \/ v \in ToSet(graph.end)
            IN made /\ needed => OnStack(s, v) \/ IsSpilled(s, v)

(* The scheduler gets through every block, with all the values it still    *)
(* needs at hand.                                                          *)
BlocksGetThrough == SchedulerAssertionsHold /\ NoValueIsLost

-----------------------------------------------------------------------------
(* The machine that runs the scheduled code: one stack of words and return *)
(* destinations for all functions, one slot for each static allocation.    *)
Boot(f) ==
    [status |-> "running", trace |-> <<>>, stack |-> <<>>, memory |-> <<>>,
     block |-> Entry(prog, f), pc |-> 1]

Goto(run, to) == [run EXCEPT !.block = to, !.pc = 1]

(* Words are <<word>>, return destinations <<block, pc>>. *)
IsWord(x) == Len(x) = 1

(* The place after the call numbered op. *)
AfterCall(op) ==
    LET b == CHOOSE b \in DOMAIN code : op \in ToSet(prog.blocks[b].ops)
    IN <<b, 1 + CHOOSE i \in DOMAIN code[b] : code[b][i] = <<"op", op>>>>

RunOperation(run, env, o) ==
    LET n == Len(o.ins)
        args == [i \in 1 .. n |-> run.stack[i][1]]
        below == SubSeq(run.stack, n + 1, Len(run.stack))
        results == Results(env, o, args)
    IN CASE IsCall(o) -> Goto(run, Entry(prog, o.val))
         [] ~IsCall(o) /\ (n > Len(run.stack) \/ \E i \in 1 .. n : ~IsWord(run.stack[i])) ->
                [run EXCEPT !.status = "undefined"]
         [] o.op \in {"stop", "invalid"} -> [run EXCEPT !.status = o.op]
         [] o.op = "sstore" -> [run EXCEPT !.trace = Append(@, args), !.stack = below]
         [] OTHER -> [run EXCEPT !.stack = [i \in DOMAIN results |-> <<results[i]>>] \o below]

RunInstruction(run, env, op) ==
    LET next == [run EXCEPT !.pc = @ + 1]
        st == run.stack
        Fails == [run EXCEPT !.status = "undefined"]
        needed == CASE op[1] \in {"swap", "dup"} -> op[2] + 1
                    [] op[1] \in {"pop", "store"} -> 1
                    [] OTHER -> 0
    IN CASE needed > Len(st) -> Fails
         [] needed <= Len(st) ->
                CASE op[1] = "pop" -> [next EXCEPT !.stack = Tail(st)]
                  [] op[1] = "swap" -> [next EXCEPT !.stack[1] = st[op[2] + 1], !.stack[op[2] + 1] = st[1]]
                  [] op[1] = "dup" -> [next EXCEPT !.stack = <<st[op[2] + 1]>> \o st]
                  [] op[1] = "store" -> [next EXCEPT !.stack = Tail(st), !.memory = (op[2] :> Head(st)) @@ @]
                  [] op[1] = "load" -> IF op[2] \in DOMAIN run.memory
                                       THEN [next EXCEPT !.stack = <<run.memory[op[2]]>> \o st]
                                       ELSE Fails
                  [] op[1] = "retDest" -> [next EXCEPT !.stack = <<AfterCall(op[2])>> \o st]
                  [] op[1] = "op" -> RunOperation(next, env, prog.ops[op[2]])

RunControl(run, ctl) ==
    LET top == Head(run.stack)
        rest == [run EXCEPT !.stack = Tail(@)]
    IN CASE ctl.kind = "goto" -> Goto(run, ctl.to)
         [] ctl.kind # "goto" /\ (run.stack = <<>> \/ IsWord(top) = (ctl.kind = "iret")) ->
                [run EXCEPT !.status = "undefined"]
         [] OTHER ->
                CASE ctl.kind = "iret" -> [rest EXCEPT !.block = top[1], !.pc = top[2]]
                  [] ctl.kind = "branch" -> Goto(rest, IF top = <<0>> THEN ctl.zero ELSE ctl.nonZero)
                  [] ctl.kind = "switch" -> Goto(rest, SwitchTarget(ctl, top[1]))

RunStep(run, env) ==
    IF run.pc <= Len(code[run.block]) THEN RunInstruction(run, env, code[run.block][run.pc])
    ELSE RunControl(run, prog.blocks[run.block].ctl)

StackExecution(env, f, n) ==
    FoldLeft(LAMBDA run, i : IF run.status = "running" THEN RunStep(run, env) ELSE run,
             Boot(f), [i \in 1 .. n |-> i])

(* What can be encoded: no swap or duplicate reaches too far, and a slot   *)
(* is loaded only after it was stored by the same block.                   *)
IsEncodable(ops) ==
    \A i \in DOMAIN ops :
        /\ ops[i][1] = "swap" => ops[i][2] \in 1 .. MaxSwapDepth
        /\ ops[i][1] = "dup" => ops[i][2] \in 0 .. MaxDupDepth
        /\ ops[i][1] = "load" => \E j \in 1 .. i - 1 : ops[j] = <<"store", ops[i][2]>>

(* The scheduled code can be encoded and does what the program does,       *)
(* though blocks agree on the stack only through their layouts, and        *)
(* callers and callees only through the layout of the entry.               *)
ScheduledCodeRuns ==
    stage = "done" =>
        /\ \A b \in DOMAIN code : IsEncodable(code[b])
        /\ \A env \in Environments, f \in EntryPoints(prog) :
                SameRun(Execution(prog, env, f, Steps), StackExecution(env, f, 8 * Steps))

-----------------------------------------------------------------------------
(* The orders in which the graph allows the operations of a block. *)
RECURSIVE OrdersFrom(_, _)
OrdersFrom(g, d) ==
    IF d = DOMAIN g.nodes THEN {<<>>}
    ELSE UNION {{<<k>> \o rest : rest \in OrdersFrom(g, d \cup {k})} : k \in Completable(g, d)}

Reordered(p, b, g, order) ==
    LET operations == SelectSeq(order, LAMBDA k : g.nodes[k].kind = "op")
    IN [p EXCEPT !.blocks[b].ops = [i \in DOMAIN operations |-> g.nodes[operations[i]].op]]

(* The graph leaves an order open only where it makes no difference: in    *)
(* any order it allows, the block does what it did.                        *)
OrderIsFree ==
    stage = "operations" /\ done = {} =>
        \A order \in OrdersFrom(graph, {}) : \A env \in Environments :
            SameBehaviour(prog, Reordered(prog, block, graph, order), env, Steps)

-----------------------------------------------------------------------------
(* Programs for the stack scheduler: every small rearrangement of a stack, *)
(* every small list of operands, and control of every kind.                *)
UpTo(n, m) == UNION {[1 .. k -> 1 .. n] : k \in 0 .. m}
Orders(n) == {o \in [1 .. n -> 1 .. n] : ToSet(o) = 1 .. n}
Shift(seq, by) == [i \in DOMAIN seq |-> seq[i] + by]
Numbers(n) == [i \in 1 .. n |-> i]
Constants(n) == [i \in 1 .. n |-> SetConst(i, i)]
StoreAll(first, n) == [i \in 1 .. n |-> SStore(first + i, first + i)]

(* Block 2 takes n values and hands over any of them, in any order. *)
Handover(n, outs) ==
    Program(<<"handover", n, outs>>, <<1>>, None,
        <<Block(<<>>, Constants(n), Numbers(n), ContinuesTo(2)),
          Block(Shift(Numbers(n), n), <<>>, Shift(outs, n), ContinuesTo(3)),
          Block(Shift(Numbers(Len(outs)), 2 * n), StoreAll(2 * n, Len(outs)) \o <<Stop>>, <<>>, LastOpTerminates)>>)
Handovers ==
    {Handover(3, outs) : outs \in UpTo(3, 4)} \cup {Handover(4, outs) : outs \in Orders(4)}
    \cup {Handover(5, outs) : outs \in {<<5, 4, 3, 2, 1>>, <<1, 3, 2, 5, 4>>, <<2, 3, 4, 5, 1>>}}

(* A call with any operands out of n values, of which some are used again. *)
OperandsOf(n, args, later) ==
    Program(<<"operands", n, args, later>>, <<1, 3>>, None,
        <<Block(<<>>, Constants(n), Numbers(n), ContinuesTo(2)),
          Block(Shift(Numbers(n), n), <<CallTo(2, <<2 * n + 1>>, Shift(args, n))>>
                \o [i \in DOMAIN later |-> SStore(n + later[i], 2 * n + 1)] \o <<Stop>>, <<>>, LastOpTerminates),
          Block(Shift(Numbers(Len(args)), 20), StoreAll(20, Len(args)) \o <<SetConst(30, 7)>>, <<30>>, InternalReturn)>>)
Operands ==
    {OperandsOf(3, args, later) : args \in UpTo(3, 3), later \in {<<>>, <<1>>, <<3, 2>>}}
    \cup {OperandsOf(4, args, <<2>>) : args \in {<<4, 3, 2, 1>>, <<1, 4, 2, 3>>, <<2, 2, 4, 1>>}}

(* A loop around a call; 3 lives through it.  The callee has an input that *)
(* is not used and returns from two blocks, perhaps after a call that      *)
(* stores.  The loop is left for a block that reads what it wrote or for a *)
(* call that does not return; the other of the two is not reached.         *)
EvmKind == CHOOSE k \in EvmKinds : TRUE
ControlFlow ==
    {Program(<<"control", last, first, ctl>>, <<1, 6, 10, 9>>, None,
        <<Block(<<>>, <<Evm(1, EvmKind), SetConst(2, 6), SetConst(3, 1)>>, first, ContinuesTo(2)),
          Block(<<4, 5>>, <<IsZero(6, 4), Balance(7, 5)>>, <<>>, ctl),
          Block(<<>>, <<CallTo(2, <<8, 9>>, <<5, 3, 4>>), SStore(8, 7), Add(11, 9, 3)>>, <<11, 8>>, ContinuesTo(2)),
          Block(<<>>, <<SStore(7, 3), Balance(12, 3), SStore(5, 12), Stop>>, <<>>, LastOpTerminates),
          Block(<<>>, <<CallNever(4, <<5>>)>>, <<>>, LastOpTerminates),
          Block(<<20, 21, 22>>, last, <<>>, Branches(20, 7, 8)),
          Block(<<>>, <<Add(23, 20, 22)>>, <<22, 23>>, InternalReturn),
          Block(<<>>, <<>>, <<22, 22>>, InternalReturn),
          Block(<<30>>, <<SStore(30, 30), Stop>>, <<>>, LastOpTerminates),
          Block(<<40, 41>>, <<SStore(41, 40), Balance(42, 41)>>, <<42>>, InternalReturn)>>)
        : last \in {<<>>, <<CallTo(3, <<43>>, <<21, 22>>)>>}, first \in {<<1, 2>>, <<2, 1>>},
          ctl \in {Branches(6, 4, 3), Branches(6, 3, 5), Switch(4, <<<<1, 5>>, <<2, 4>>>>, 3)}}

MCPrograms == Handovers \cup Operands \cup ControlFlow
==============================================================================

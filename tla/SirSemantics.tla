---------------------------- MODULE SirSemantics ---------------------------
(***************************************************************************)
(* What a SIR program does: the reference of the passes, which promise to  *)
(* preserve it.  An environment gives the EVM constants and what `balance` *)
(* reads; an execution is a finite prefix of the run from one entry point. *)
(***************************************************************************)
EXTENDS Sir

CONSTANTS
    Steps,         \* how far executions are followed
    BalanceOffsets \* what tells environments apart besides the EVM constants

ASSUME SemanticsAssumption == Steps \in Nat /\ BalanceOffsets \subseteq Int

Environments ==
    {[evm |-> evm, balance |-> b] :
        evm \in {e \in [EvmKinds -> Word] : \A k \in NonZeroKinds : e[k] # 0},
        b \in BalanceOffsets}

EntryPoints(p) == {p.init, p.main} \ {None}

(* The value of local l; reading one that was never set is an error. *)
Undefined == None

Start(p, f) ==
    [status |-> "running", trace |-> <<>>, seen |-> {}, visited |-> {},
     stack |-> <<[block |-> Entry(p, f), pc |-> 1, outs |-> <<>>,
                  regs |-> [l \in Locals(p) |-> Undefined]]>>]

(* Values are handed over as far as there are locals to take them. *)
Taken(locals, values) == 1 .. (IF Len(locals) < Len(values) THEN Len(locals) ELSE Len(values))

Assign(regs, locals, values) ==
    [l \in DOMAIN regs |->
        IF \E i \in Taken(locals, values) : locals[i] = l
        THEN values[CHOOSE i \in Taken(locals, values) : locals[i] = l] ELSE regs[l]]

Read(frame, locals) == [i \in 1 .. Len(locals) |-> frame.regs[locals[i]]]

(* The frame on top sets locals to values and goes on at pc of block. *)
Continue(run, block, pc, locals, values) ==
    LET frame == Last(run.stack)
        top == [frame EXCEPT !.block = block, !.pc = pc, !.regs = Assign(@, locals, values)]
    IN [run EXCEPT !.stack = [run.stack EXCEPT ![Len(run.stack)] = top],
                   !.seen = @ \cup {<<locals[i], values[i]>> : i \in Taken(locals, values)}]

(* Before SSA form a jump back to a function's entry hands nothing over. *)
Jump(p, run, to) ==
    LET frame == Last(run.stack)
        outs == p.blocks[frame.block].outs
    IN Continue(run, to, 1, IF outs = <<>> THEN <<>> ELSE p.blocks[to].ins, Read(frame, outs))

Effect(run, args) == [run EXCEPT !.trace = Append(@, args)]
PushFrame(run, frame) == [run EXCEPT !.stack = Append(@, frame)]
PopFrame(run) == [run EXCEPT !.stack = Front(@)]
Halt(run, how) == [run EXCEPT !.status = how]

Call(p, run, o, outs) ==
    LET frame == Last(run.stack)
        entry == Entry(p, o.val)
        callee == [block |-> entry, pc |-> 1, outs |-> outs,
                   regs |-> [l \in Locals(p) |-> Undefined]]
        calling == Continue(run, frame.block, frame.pc + 1, <<>>, <<>>)
    IN Continue(PushFrame(calling, callee), entry, 1, p.blocks[entry].ins, Read(frame, o.ins))

Return(p, run) ==
    LET frame == Last(run.stack)
        caller == Last(Front(run.stack))
    IN IF Len(run.stack) = 1 THEN Halt(run, "no caller")
       ELSE Continue(PopFrame(run), caller.block, caller.pc,
                     frame.outs, Read(frame, p.blocks[frame.block].outs))

Turn(p, run, to) == IF to = None THEN Halt(run, "no target") ELSE Jump(p, run, to)

Results(env, o, args) ==
    CASE o.op = "const" -> <<o.val>>
      [] o.op = "evm" -> <<env.evm[o.val]>>
      [] o.op = "copy" -> args
      [] o.op = "balance" -> <<(env.balance + args[1]) % WordCount>>
      [] o.op \in Foldable -> <<Evaluate(o.op, args)>>
      [] OTHER -> <<>>

StepOp(p, env, run, o) ==
    LET frame == Last(run.stack)
        args == Read(frame, o.ins)
    IN IF \E i \in 1 .. Len(args) : args[i] = Undefined THEN Halt(run, "undefined")
       ELSE CASE IsCall(o) -> Call(p, run, o, o.outs)
              [] o.op \in {"stop", "invalid"} -> Halt(run, o.op)
              [] o.op = "sstore" -> Effect(Continue(run, frame.block, frame.pc + 1, <<>>, <<>>), args)
              [] OTHER -> Continue(run, frame.block, frame.pc + 1, o.outs, Results(env, o, args))

StepControl(p, run, ctl) ==
    LET frame == Last(run.stack)
        used == Read(frame, p.blocks[frame.block].outs)
    IN IF \/ \E i \in 1 .. Len(used) : used[i] = Undefined
          \/ \E l \in Condition(ctl) : frame.regs[l] = Undefined
       THEN Halt(run, "undefined")
       ELSE CASE ctl.kind = "last" -> Halt(run, "no terminator")
              [] ctl.kind = "iret" -> Return(p, run)
              [] ctl.kind = "goto" -> Jump(p, run, ctl.to)
              [] ctl.kind = "branch" -> Jump(p, run, IF frame.regs[ctl.cond] = 0 THEN ctl.zero ELSE ctl.nonZero)
              [] ctl.kind = "switch" -> Turn(p, run, SwitchTarget(ctl, frame.regs[ctl.cond]))

Step(p, env, run) ==
    LET frame == Last(run.stack)
        ops == p.blocks[frame.block].ops
        here == [run EXCEPT !.visited = @ \cup {frame.block}]
    IN IF frame.pc <= Len(ops) THEN StepOp(p, env, here, p.ops[ops[frame.pc]])
       ELSE StepControl(p, here, p.blocks[frame.block].ctl)

Advance(p, env, run) == IF run.status = "running" THEN Step(p, env, run) ELSE run

(* The first n steps from function f. *)
Execution(p, env, f, n) ==
    LET run[k \in 0 .. n] == IF k = 0 THEN Start(p, f) ELSE Advance(p, env, run[k - 1])
    IN run[n]

(* Two runs do the same, as far as they go. *)
SameRun(x, y) ==
    /\ x.status # "running" /\ y.status # "running" => x.trace = y.trace /\ x.status = y.status
    /\ IsPrefix(x.trace, y.trace) \/ IsPrefix(y.trace, x.trace)
    /\ x.status # "running" => IsPrefix(y.trace, x.trace)
    /\ y.status # "running" => IsPrefix(x.trace, y.trace)

(* p and q do the same, as far as they have run. *)
SameBehaviour(p, q, env, n) ==
    /\ SameRun(Execution(p, env, p.init, n), Execution(q, env, q.init, n))
    /\ (p.main = None) = (q.main = None)
    /\ p.main # None => SameRun(Execution(p, env, p.main, n), Execution(q, env, q.main, n))

-----------------------------------------------------------------------------
(* How the MC modules write SIR programs.                                  *)
Block(ins, ops, outs, ctl) == [ins |-> ins, ops |-> ops, outs |-> outs, ctl |-> ctl]

(* What a function returns: the outputs of the first block that does. *)
Returns(blocks, entry) ==
    LET within[n \in Nat] ==
            IF n = 0 THEN {entry}
            ELSE LET nearer == within[n - 1]
                 IN nearer \cup UNION {ToSet(Outgoing(blocks[b].ctl)) : b \in nearer}
        returning == {b \in within[Len(blocks)] : blocks[b].ctl = InternalReturn}
    IN IF returning = {} THEN None ELSE Len(blocks[CHOOSE b \in returning : TRUE].outs)

(* A program from its blocks with their operations in place, as the parser *)
(* lays them out.                                                          *)
Program(id, entries, main, blocks) ==
    LET table == FlattenSeq([b \in 1 .. Len(blocks) |-> blocks[b].ops])
        before(b) == Len(FlattenSeq([c \in 1 .. b - 1 |-> blocks[c].ops]))
        locals == UNION {ToSet(blocks[b].ins) : b \in 1 .. Len(blocks)}
                  \cup UNION {ToSet(table[i].outs) : i \in 1 .. Len(table)}
    IN [id |-> id, init |-> 1, main |-> main,
        functions |-> [f \in 1 .. Len(entries) |->
                          [entry |-> entries[f], returns |-> Returns(blocks, entries[f])]],
        nextLocal |-> 1 + FoldSet(LAMBDA x, y : IF x > y THEN x ELSE y, 0, locals),
        ops |-> table,
        blocks |-> [b \in 1 .. Len(blocks) |->
                       [blocks[b] EXCEPT !.ops = [i \in 1 .. Len(blocks[b].ops) |-> before(b) + i]]]]

Evm(out, kind) == Op("evm", <<out>>, <<>>, kind)
Add(out, x, y) == Op("add", <<out>>, <<x, y>>, None)
IsZero(out, x) == Op("iszero", <<out>>, <<x>>, None)
Balance(out, x) == Op("balance", <<out>>, <<x>>, None)
SStore(x, y) == Op("sstore", <<>>, <<x, y>>, None)
CallTo(f, outs, ins) == Op("call", outs, ins, f)
CallNever(f, ins) == Op("never", <<>>, ins, f)
Stop == Op("stop", <<>>, <<>>, None)
=============================================================================

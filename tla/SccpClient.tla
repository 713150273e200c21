----------------------------- MODULE SccpClient ----------------------------
(* SCCP on its own: one run of the pass on one of the inputs.              *)
EXTENDS Sccp, SirSemantics

CONSTANT Inputs   \* programs with their functions_rpo and DefUse

Uses(p) ==
    {u \in [block : BlockIds(p), kind : UseKinds, at : Nat] :
        /\ u.kind = "opUse" => u.at \in 1 .. Len(p.ops)
        /\ u.kind = "outputUse" => u.at \in 1 .. Len(p.blocks[u.block].outs)}

(* A block hands over as many values as its successor takes (Legalizer).   *)
EdgesMatch(p) ==
    \A b \in BlockIds(p) : \A k \in 1 .. Len(Successors(p, b)) :
        Len(p.blocks[Successors(p, b)[k]].ins) = Len(p.blocks[b].outs)

(* Every place of a block where a local is read is in its list of uses. *)
IsUsed(us, l, block, kind, at) ==
    \E k \in 1 .. Len(us[l]) : us[l][k] = [block |-> block, kind |-> kind, at |-> at]
ReadsAreListed(p, us, b) ==
    /\ \A j \in 1 .. Len(p.blocks[b].ops) :
          LET i == p.blocks[b].ops[j]
          IN \A k \in 1 .. Len(p.ops[i].ins) : IsUsed(us, p.ops[i].ins[k], b, "opUse", i)
    /\ \A l \in Condition(p.blocks[b].ctl) : IsUsed(us, l, b, "controlUse", 0)
    /\ \A i \in 1 .. Len(p.blocks[b].outs) : IsUsed(us, p.blocks[b].outs[i], b, "outputUse", i)

IsListed(fs, f) == \E k \in 1 .. Len(fs) : fs[k] = f
CallsAreListed(p, fs, b) ==
    \A j \in 1 .. Len(p.blocks[b].ops) :
        LET o == p.ops[p.blocks[b].ops[j]] IN IsCall(o) => IsListed(fs, o.val)

(* DefUse looks at the blocks of a region that no edge leaves and that has *)
(* the entries of the functions in it; functions_rpo lists the entry       *)
(* points and what that region calls.                                      *)
IsCovered(p, fs, us, region) ==
    /\ \A f \in EntryPoints(p) : IsListed(fs, f)
    /\ \A k \in 1 .. Len(fs) : Entry(p, fs[k]) \in region
    /\ \A b \in region :
          /\ ReadsAreListed(p, us, b) /\ CallsAreListed(p, fs, b)
          /\ \A k \in 1 .. Len(Successors(p, b)) : Successors(p, b)[k] \in region

IsInput(in) ==
    /\ IsProgram(in.prog) /\ EdgesMatch(in.prog)
    /\ in.functions \in Seq(FunctionIds(in.prog))
    /\ in.uses \in [Locals(in.prog) -> Seq(Uses(in.prog))]
    /\ \E region \in SUBSET BlockIds(in.prog) : IsCovered(in.prog, in.functions, in.uses, region)

ASSUME InputsAssumption == \A in \in Inputs : IsInput(in)

SccpInit ==
    /\ \E in \in Inputs : prog = in.prog /\ functions = in.functions /\ uses = in.uses
    /\ lat = [l \in Locals(prog) |-> Unknown]
    /\ reachable = {} /\ cfgWork = <<>> /\ valueWork = <<>> /\ todo = <<>>
    /\ sccp = "idle"

SccpNext == (sccp = "idle" /\ StartAnalysis) \/ AnalysisStep \/ Apply \/ ApplyNoTarget

SccpSpec == SccpInit /\ [][SccpNext]_sccpVars /\ WF_sccpVars(SccpNext)

-----------------------------------------------------------------------------
IsOpTask(t) == t.from \in BlockIds(prog) /\ t.i \in 1 .. Len(prog.ops)
IsEdgeTask(t) == t.from \in BlockIds(prog) /\ t.to \in BlockIds(prog)
IsOutput(t) == IsEdgeTask(t) /\ t.i \in 1 .. Len(prog.blocks[t.from].outs)
IsFlow(t) == IsOutput(t) /\ t.i \in 1 .. Len(prog.blocks[t.to].ins)

Tasks ==
    {t \in [kind : {"op", "edge", "flow", "output", "sink"} \cup UseKinds, from : Nat, to : Nat, i : Nat] :
        /\ t.kind \in {"op", "opUse"} => IsOpTask(t)
        /\ t.kind \in {"edge", "controlUse"} => IsEdgeTask(t)
        /\ t.kind = "outputUse" => IsOutput(t)
        /\ t.kind \in {"flow", "output"} => IsFlow(t)
        /\ t.kind = "sink" => t.i \in Locals(prog)}

(* The types of the variables: the work lists name blocks and locals of the *)
(* program, and what is left of a handler names parts of it.               *)
SccpTypeOK ==
    /\ IsProgram(prog)
    /\ functions \in Seq(FunctionIds(prog))
    /\ uses \in [Locals(prog) -> Seq(Uses(prog))]
    /\ lat \in [Locals(prog) -> LatticeValue]
    /\ reachable \subseteq BlockIds(prog)
    /\ cfgWork \in Seq(BlockIds(prog))
    /\ valueWork \in Seq(Locals(prog))
    /\ todo \in Seq(Tasks)
    /\ sccp \in {"idle", "analysis", "done", "panic"}

(* What is known of a local is only ever revised downwards, and a block    *)
(* once reached stays so: this is what makes the work lists run dry.       *)
LatticeDescends ==
    [][sccp = "analysis" =>
          /\ \A l \in Locals(prog) : Below(lat'[l], lat[l])
          /\ reachable \subseteq reachable']_sccpVars

(* What the operation computes, as far as the lattice knows its inputs. *)
ResultOf(op) ==
    CASE op.op = "const" -> Const(op.val)
      [] op.op = "evm" -> EvmConst(op.val)
      [] Evaluates(op) -> Const(Evaluate(op.op, [j \in 1 .. Len(op.ins) |-> lat[op.ins[j]].val]))
      [] OTHER -> Overdefined

OpIsSettled(op) == \A k \in 1 .. Len(op.outs) : Below(lat[op.outs[k]], ResultOf(op))

EdgeIsSettled(b, to) ==
    EdgeReachable(b, to) =>
        /\ to \in reachable
        /\ \A k \in 1 .. Len(prog.blocks[to].ins) :
              Below(lat[prog.blocks[to].ins[k]], lat[prog.blocks[b].outs[k]])

(* The analysis stops with nothing left to conclude: every operation of a  *)
(* reached block and every edge that can be taken agrees with the lattice. *)
(* A wrong skip of a use, or a lost entry of a work list, would show here. *)
FixedPoint ==
    AnalysisDone =>
        \A b \in reachable :
            /\ \A j \in 1 .. Len(prog.blocks[b].ops) : OpIsSettled(prog.ops[prog.blocks[b].ops[j]])
            /\ \A k \in 1 .. Len(Successors(prog, b)) : EdgeIsSettled(b, Successors(prog, b)[k])

Agrees(value, word, env) ==
    CASE value.kind = "const" -> word = value.val
      [] value.kind = "evm" -> word = env.evm[value.val]
      [] value.kind = "over" -> TRUE
      [] OTHER -> FALSE

(* A local that the analysis takes for a constant has that value whenever  *)
(* any execution sets it, and an execution stays in the blocks it reached. *)
ConclusionsAreReal ==
    AnalysisDone =>
        \A env \in Environments : \A f \in EntryPoints(prog) :
            LET run == Execution(prog, env, f, Steps)
            IN /\ run.visited \subseteq reachable
               /\ \A s \in run.seen : Agrees(lat[s[1]], s[2], env)
=============================================================================

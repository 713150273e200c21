------------------------------ MODULE MirToSir ------------------------------
(***************************************************************************)
(* The lowering of MIR to SIR (mir-lower) with the builder of SIR programs *)
(* (sir/crates/data/src/builder.rs).  A local of a compound type becomes   *)
(* one SIR local for each word in it, and the nested blocks of a function  *)
(* become a graph of basic blocks.  An operator takes the state of the     *)
(* lowering and gives the next: `p` is the program so far, `bb` the block  *)
(* under construction, and of a sequence of MIR instructions `in` is the   *)
(* first block, `out` the last and `loose` whether it is still to be told  *)
(* where to go; `ends` are the sequences of a match.                       *)
(***************************************************************************)
EXTENDS Mir, FiniteSets

CONSTANTS
    None,
    SmallWords, EvmKinds, NonZeroKinds  \* as in Sir

Ir == INSTANCE Sir

EmptyBlock == [ins |-> <<>>, ops |-> <<>>]
NewLowering(mir) ==
    [mir |-> mir, sirOf |-> <<>>, types |-> <<>>, locals |-> <<>>, bb |-> EmptyBlock,
     p |-> [id |-> "lowered", init |-> None, main |-> None, functions |-> <<>>, nextLocal |-> 1,
            ops |-> <<>>, blocks |-> <<>>],
     placeholders |-> {}, returns |-> None, panicked |-> FALSE, in |-> 0, out |-> 0, loose |-> TRUE, ends |-> <<>>]
(* One step after another, unless the first failed.                        *)
Then(st, Rest(_)) == IF st.panicked THEN st ELSE Rest(st)
Expect(st, holds) == [st EXCEPT !.panicked = @ \/ ~holds]

-----------------------------------------------------------------------------
(* Locals: those a MIR local is mapped to hold its words in order.         *)
RECURSIVE SizeInLocals(_), Words(_)
SizeInLocals(type) ==
    CASE type = Never -> 0
      [] type \in {Bool, U256} -> 1
      [] ~IsPrim(type) -> FoldLeft(LAMBDA n, part : n + SizeInLocals(part), 0, Parts(type))
Words(value) ==
    IF value.of \in {Bool, U256} THEN <<value.word>>
    ELSE FlattenSeq([i \in DOMAIN value.parts |-> Words(value.parts[i])])

LocalsOf(st, local) == IF local \in DOMAIN st.locals THEN st.locals[local] ELSE <<>>
LocalsOfAll(st, args) == FlattenSeq([i \in DOMAIN args |-> LocalsOf(st, args[i])])
EnsureMany(st, local, count) ==
    IF local \in DOMAIN st.locals THEN Expect(st, Len(st.locals[local]) = count)
    ELSE [st EXCEPT !.locals = (local :> [i \in 1 .. count |-> st.p.nextLocal + i - 1]) @@ @,
                    !.p.nextLocal = @ + count]

(* Basic blocks.                                                           *)
AddOp(st, op, outs, ins, val) ==
    [st EXCEPT !.p.ops = Append(@, Ir!Op(op, outs, ins, val)), !.bb.ops = Append(@, Len(st.p.ops) + 1)]
Finish(st, outs, ctl) ==
    LET id == Len(st.p.blocks) + 1 IN
    [st EXCEPT !.p.blocks = Append(@, [ins |-> st.bb.ins, ops |-> st.bb.ops, outs |-> outs, ctl |-> ctl]),
               !.bb = EmptyBlock, !.in = IF @ = 0 THEN id ELSE @, !.out = id]
FinishWithPlaceholder(st) ==
    LET s == Finish(st, <<>>, Ir!LastOpTerminates) IN [s EXCEPT !.placeholders = @ \cup {s.out}]
FinishTerminating(st) == [Finish(st, <<>>, Ir!LastOpTerminates) EXCEPT !.loose = FALSE]
FinishReturn(st, outs) ==
    [Finish(Expect(st, st.returns \in {None, Len(outs)}), outs, Ir!InternalReturn)
        EXCEPT !.returns = Len(outs), !.loose = FALSE]

SetControl(st, b, ctl) ==
    IF b \notin st.placeholders THEN Expect(st, FALSE)
    ELSE [st EXCEPT !.p.blocks[b].ctl = ctl, !.placeholders = @ \ {b}]
(* Where a sequence that came to its end goes.                             *)
GoOn(st, segment, to) == IF segment.loose THEN SetControl(st, segment.out, Ir!ContinuesTo(to)) ELSE st

-----------------------------------------------------------------------------
(* Expressions.                                                            *)
CopyTo(st, target, from) ==
    Then(EnsureMany(st, target, Len(from)), LAMBDA s :
    FoldLeft(LAMBDA acc, i : AddOp(acc, "copy", <<LocalsOf(s, target)[i]>>, <<from[i]>>, None), s, [i \in DOMAIN from |-> i]))

LowerConst(st, target, value) ==
    LET words == Words(value) IN
    Then(EnsureMany(st, target, SizeInLocals(value.of)), LAMBDA s :
    FoldLeft(LAMBDA acc, i : AddOp(acc, "const", <<LocalsOf(s, target)[i]>>, <<>>, words[i]), s, [i \in DOMAIN words |-> i]))

FieldWords(st, object, index) ==
    LET parts == Parts(st.types[object])
        before == SizeInLocals(Tuple(SubSeq(parts, 1, index - 1)))
    IN SubSeq(LocalsOf(st, object), before + 1, before + SizeInLocals(parts[index]))

(* add_as_op: the operation a builtin becomes, and its operands.           *)
AsOp(op) ==
    CASE op = "bool_to_u256" -> "copy"
      [] op = "caller" -> "evm"
      [] OTHER -> op
Operands ==
    [add |-> 2, iszero |-> 1, bool_to_u256 |-> 1, balance |-> 1, caller |-> 0, sstore |-> 2, stop |-> 0, invalid |-> 0]
IsTerminating(op) == op \in {"stop", "invalid"}

LowerBuiltin(st, target, e) ==
    LET size == SizeInLocals(st.types[target])
        ins == LocalsOfAll(st, e.args)
    IN Then(IF size > 0 THEN EnsureMany(st, target, 1) ELSE st, LAMBDA s :
       Then(AddOp(Expect(s, Len(ins) = Operands[e.op]), AsOp(e.op), IF size > 0 THEN LocalsOf(s, target) ELSE <<>>, ins,
                  IF e.op = "caller" THEN CallerKind ELSE None), LAMBDA done :
       IF IsTerminating(e.op) THEN FinishTerminating(done) ELSE done))

(* A call is checked against what the function lowered before turned out   *)
(* to take and to return.                                                  *)
Fits(st, callee, ins, outs) ==
    callee.returns = outs /\ Len(ins) = Len(st.p.blocks[callee.entry].ins)
LowerCallTo(st, target, e) ==
    LET returns == st.mir.fns[e.callee].returns
        never == returns = Never
        ins == LocalsOfAll(st, e.args)
    IN Then(EnsureMany(st, target, SizeInLocals(returns)), LAMBDA s :
       Then(Expect(s, Fits(s, s.p.functions[s.sirOf[e.callee]], ins, IF never THEN None ELSE SizeInLocals(returns))), LAMBDA checked :
       Then(AddOp(checked, IF never THEN "never" ELSE "call", LocalsOf(s, target), ins, s.sirOf[e.callee]), LAMBDA done :
       IF never THEN FinishTerminating(done) ELSE done)))

LowerSet(st, i) ==
    LET e == i.expr IN
    CASE e.is = "const" -> LowerConst(st, i.target, e.value)
      [] e.is = "local" -> IF SizeInLocals(st.types[e.local]) = 0 THEN st ELSE CopyTo(st, i.target, LocalsOf(st, e.local))
      [] e.is = "builtin" -> LowerBuiltin(st, i.target, e)
      [] e.is = "call" -> LowerCallTo(st, i.target, e)
      [] e.is = "compound" -> IF SizeInLocals(e.type) = 0 THEN st ELSE CopyTo(st, i.target, LocalsOfAll(st, e.parts))
      [] e.is = "field" -> IF SizeInLocals(Parts(st.types[e.object])[e.index]) = 0 THEN st
                           ELSE CopyTo(st, i.target, FieldWords(st, e.object, e.index))

-----------------------------------------------------------------------------
(* Control.  A nested block is lowered on its own, and the one around it   *)
(* goes on in a new basic block.                                           *)
RECURSIVE LowerBlock(_, _)
Segment(st) == [in |-> st.in, out |-> st.out, loose |-> st.loose]
Inner(st, block) ==
    Then(LowerBlock([st EXCEPT !.in = 0, !.loose = TRUE], block), LAMBDA s :
    IF s.loose THEN FinishWithPlaceholder(s) ELSE s)
Outer(st, done) == [done EXCEPT !.in = st.in, !.loose = TRUE]
Next(st) == Len(st.p.blocks) + 1

LowerIf(st, i) ==
    LET condition == LocalsOf(st, i.condition) IN
    IF Len(condition) # 1 THEN Expect(st, FALSE)
    ELSE Then(FinishWithPlaceholder(st), LAMBDA begun :
         Then(Inner(begun, i.yes), LAMBDA yes :
         Then(Inner(yes, i.no), LAMBDA no :
         Then(SetControl(no, begun.out, Ir!Branches(condition[1], yes.in, no.in)), LAMBDA s :
         Outer(begun, GoOn(GoOn(s, Segment(yes), Next(no)), Segment(no), Next(no)))))))

(* The arms one after another, with the segments they became.              *)
LowerArms(st, arms) ==
    FoldLeft(LAMBDA acc, arm : Then(Inner(acc, arm.body), LAMBDA s : [s EXCEPT !.ends = Append(acc.ends, Segment(s))]),
             [st EXCEPT !.ends = <<>>], arms)
LowerMatch(st, i) ==
    LET subject == LocalsOf(st, i.subject)
        cases(ends) == [a \in DOMAIN i.arms |-> <<i.arms[a].key, ends[a].in>>]
    IN IF Len(subject) # 1 THEN Expect(st, FALSE)
       ELSE Then(FinishWithPlaceholder(st), LAMBDA begun :
            Then(LowerArms(begun, i.arms), LAMBDA arms :
            Then(Inner(arms, i.fallback), LAMBDA other :
            Outer(begun, FoldLeft(LAMBDA acc, end : GoOn(acc, end, Next(other)),
                                  SetControl(other, begun.out, Ir!Switch(subject[1], cases(arms.ends), other.in)),
                                  Append(arms.ends, Segment(other)))))))

CloseWhile(begun, first, body, back, i) ==
    LET condition == LocalsOf(first, i.condition)
        closed == GoOn(body, Segment(body), back)
    IN Outer(begun, IF first.loose THEN SetControl(closed, first.out, Ir!Branches(condition[1], body.in, Next(body))) ELSE closed)
(* Mutation: the body of a loop goes on to the block before the condition. *)
LowerWhile_NoTest(st, i) ==
    Then(FinishWithPlaceholder(st), LAMBDA begun :
    Then(Inner(begun, i.first), LAMBDA first :
    IF Len(LocalsOf(first, i.condition)) # 1 THEN Expect(first, FALSE)
    ELSE Then(Inner(SetControl(first, begun.out, Ir!ContinuesTo(first.in)), i.body), LAMBDA body :
         CloseWhile(begun, first, body, body.in, i))))

LowerWhile(st, i) ==
    Then(FinishWithPlaceholder(st), LAMBDA begun :
    Then(Inner(begun, i.first), LAMBDA first :
    IF Len(LocalsOf(first, i.condition)) # 1 THEN Expect(first, FALSE)
    ELSE Then(Inner(SetControl(first, begun.out, Ir!ContinuesTo(first.in)), i.body), LAMBDA body :
         CloseWhile(begun, first, body, first.in, i))))

LowerInstr(st, i) ==
    CASE i.do = "set" -> LowerSet(st, i)
      [] i.do = "return" -> FinishReturn(st, LocalsOf(st, i.local))
      [] i.do = "if" -> LowerIf(st, i)
      [] i.do = "match" -> LowerMatch(st, i)
      [] i.do = "while" -> LowerWhile(st, i)
LowerBlock(st, block) ==
    FoldLeft(LAMBDA acc, i : IF acc.panicked \/ ~acc.loose THEN acc ELSE LowerInstr(acc, i), st, block)

-----------------------------------------------------------------------------
(* Functions: those called in a function are lowered before it.            *)
RECURSIVE LowerFunction(_, _), CalledIn(_)
CalledIn(block) ==
    FlattenSeq([k \in DOMAIN block |->
        LET i == block[k] IN
        CASE i.do = "set" -> IF i.expr.is = "call" THEN <<i.expr.callee>> ELSE <<>>
          [] i.do = "return" -> <<>>
          [] i.do = "if" -> CalledIn(i.yes) \o CalledIn(i.no)
          [] i.do = "match" -> FlattenSeq([a \in DOMAIN i.arms |-> CalledIn(i.arms[a].body)]) \o CalledIn(i.fallback)
          [] i.do = "while" -> CalledIn(i.first) \o CalledIn(i.body)])

(* One that comes to its end ends in `invalid`.                            *)
EndBody(st) == IF st.loose THEN FinishTerminating(AddOp(st, "invalid", <<>>, <<>>, None)) ELSE st
BeginFunction(st, fn, params) ==
    FoldLeft(LAMBDA acc, i : EnsureMany(acc, i, SizeInLocals(fn.locals[i])),
             [st EXCEPT !.locals = <<>>, !.types = fn.locals, !.returns = None, !.in = 0, !.loose = TRUE], params)
WithInputs(st, params) == [st EXCEPT !.bb.ins = LocalsOfAll(st, params)]
FinishFunction(st, f) ==
    [Expect(st, st.placeholders = {})
        EXCEPT !.p.functions = Append(@, [entry |-> st.in, returns |-> st.returns]),
               !.sirOf = (f :> Len(st.p.functions) + 1) @@ @]
LowerFunction(st, f) ==
    LET fn == st.mir.fns[f]
        params == [i \in 1 .. fn.params |-> i]
    IN IF f \in DOMAIN st.sirOf \/ st.panicked THEN st
       ELSE Then(FoldLeft(LAMBDA acc, callee : LowerFunction(acc, callee), st, CalledIn(fn.body)), LAMBDA ready :
            Then(LowerBlock(WithInputs(BeginFunction(ready, fn, params), params), fn.body), LAMBDA s :
            FinishFunction(EndBody(s), f)))

(* The whole program: both entry points and what they call.                *)
LowerToSir(mir) ==
    Then(LowerFunction(NewLowering(mir), mir.init), LAMBDA init :
    Then(IF mir.run = None THEN init ELSE LowerFunction(init, mir.run), LAMBDA all :
    [all EXCEPT !.p.init = all.sirOf[mir.init], !.p.main = IF mir.run = None THEN None ELSE all.sirOf[mir.run]]))
=============================================================================

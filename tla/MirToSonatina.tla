---------------------------- MODULE MirToSonatina ---------------------------
(***************************************************************************)
(* The lowering of MIR to the IR of the Sonatina backend (mir-lower-sona), *)
(* and what that code does.  The backend keeps compound values whole: a    *)
(* local is a variable unless its type has no words in it.  Each section   *)
(* of the contract has its own copy of the functions it calls.             *)
(*                                                                         *)
(* An operator takes the state of the lowering and gives the next; `at` is *)
(* the block instructions are added to, `loose` whether control comes to   *)
(* its end.  Of the values an instruction reads, which the library names,  *)
(* only the variables they are of are kept.                                *)
(***************************************************************************)
EXTENDS Mir, FiniteSets

CONSTANT None

RECURSIVE HasShape(_)
HasShape(type) ==
    IF IsPrim(type) THEN type # Never ELSE \E i \in DOMAIN Parts(type) : HasShape(Parts(type)[i])

(* Instructions: on variables, they are those of MIR.                      *)
Def(var, expr) == [do |-> "def", var |-> var, expr |-> expr]
Effect(expr) == [do |-> "effect", expr |-> expr]
Jump(to) == [do |-> "jump", to |-> to]
Br(condition, yes, no) == [do |-> "br", condition |-> condition, yes |-> yes, no |-> no]
BrEq(subject, key, yes, no) == [do |-> "br eq", subject |-> subject, key |-> key, yes |-> yes, no |-> no]
ReturnValues(vars) == [do |-> "return", vars |-> vars]
Invalid == Effect(Builtin("invalid", <<>>))
IsTerminator(i) ==
    i.do \in {"jump", "br", "br eq", "return"} \/ (i.do = "effect" /\ i.expr.is = "builtin" /\ i.expr.op \in {"stop", "invalid"})

NewFunction(mir, f, callable) ==
    [mir |-> mir, f |-> f, callable |-> callable, blocks |-> <<<<>>>>, at |-> 1, loose |-> TRUE, panicked |-> FALSE]
Demand(st, holds) == [st EXCEPT !.panicked = @ \/ ~holds]
(* Nothing may be added to a block that has its terminator.                *)
Insert(st, i) ==
    LET block == st.blocks[st.at]
    IN [Demand(st, block = <<>> \/ ~IsTerminator(Last(block))) EXCEPT !.blocks[st.at] = Append(@, i)]
AppendBlocks(st, count) == [st EXCEPT !.blocks = @ \o [i \in 1 .. count |-> <<>>]]
SwitchTo(st, block) == [st EXCEPT !.at = block, !.loose = TRUE]
Terminated(st) == [st EXCEPT !.loose = FALSE]

TypeIn(st, local) == st.mir.fns[st.f].locals[local]
HasSlot(st, local) == HasShape(TypeIn(st, local))
Slots(st, locals) == SelectSeq(locals, LAMBDA l : HasSlot(st, l))

-----------------------------------------------------------------------------
(* write_local: a variable is given a value if there is one for it.        *)
WriteLocal(st, local, hasValue, expr) ==
    LET s == Demand(st, HasSlot(st, local) = hasValue)
    IN IF hasValue THEN Insert(s, Def(local, expr)) ELSE s

Produces == {"add", "iszero", "bool_to_u256", "balance", "caller"}
EmitBuiltin(st, target, e) ==
    LET s == Demand(st, Slots(st, e.args) = e.args)
    IN CASE e.op \in Produces -> WriteLocal(s, target, TRUE, e)
         [] e.op = "sstore" -> Demand(Insert(s, Effect(e)), ~HasSlot(s, target))
         [] e.op \in {"stop", "invalid"} -> Terminated(Insert(s, Effect(e)))

EmitCall(st, target, e) ==
    LET returns == st.mir.fns[e.callee].returns
        call == Call(e.callee, Slots(st, e.args))
        s == Demand(st, e.callee \in st.callable /\ HasSlot(st, target) = HasShape(returns))
        called == IF HasShape(returns) THEN Insert(s, Def(target, call)) ELSE Insert(s, Effect(call))
    IN IF returns = Never THEN Terminated(Insert(called, Invalid)) ELSE called

(* Parts without a value of their own are left out of an aggregate.        *)
EmitSet(st, i) ==
    LET e == i.expr IN
    CASE e.is = "const" -> WriteLocal(st, i.target, HasShape(e.value.of), e)
      [] e.is = "local" -> WriteLocal(st, i.target, HasSlot(st, e.local), e)
      [] e.is = "builtin" -> EmitBuiltin(st, i.target, e)
      [] e.is = "call" -> EmitCall(st, i.target, e)
      [] e.is = "compound" ->
            WriteLocal(Demand(st, Len(e.parts) = Len(Parts(e.type))), i.target, HasShape(e.type),
                       [e EXCEPT !.parts = [k \in DOMAIN @ |-> IF HasSlot(st, @[k]) THEN @[k] ELSE None]])
      [] e.is = "field" ->
            LET valued == HasShape(Parts(TypeIn(st, e.object))[e.index])
            IN WriteLocal(Demand(st, valued => HasSlot(st, e.object)), i.target, valued, e)

-----------------------------------------------------------------------------
RECURSIVE EmitBlock(_, _)

(* The ends that are loose are joined in a new block.                      *)
Merge(st, ends) ==
    IF ends = <<>> THEN Terminated(st)
    ELSE LET merged == AppendBlocks(st, 1)
             to == Len(merged.blocks)
         IN SwitchTo(FoldLeft(LAMBDA acc, end : Insert(SwitchTo(acc, end), Jump(to)), merged, ends), to)
LooseEnd(st) == IF st.loose THEN <<st.at>> ELSE <<>>

EmitIf(st, i) ==
    LET no == Len(st.blocks) + 1
        branched == Insert(Demand(AppendBlocks(st, 2), HasSlot(st, i.condition)), Br(i.condition, no + 1, no))
        then == EmitBlock(SwitchTo(branched, no + 1), i.yes)
        else == EmitBlock(SwitchTo(then, no), i.no)
    IN Merge(else, LooseEnd(then) \o LooseEnd(else))

(* One comparison after another, each in a block of its own.               *)
Comparisons(st, i, first) ==
    LET count == Len(i.arms)
        fallback == first + count
    IN FoldLeft(LAMBDA acc, a :
                    LET more == IF a = count THEN acc ELSE AppendBlocks(acc, 1)
                        next == IF a = count THEN fallback ELSE Len(more.blocks)
                        compared == Insert(more, BrEq(i.subject, i.arms[a].key, first + a - 1, next))
                    IN IF a = count THEN compared ELSE SwitchTo(compared, next),
                IF count = 0 THEN Insert(st, Jump(fallback)) ELSE st, [a \in 1 .. count |-> a])

EmitMatch(st, i) ==
    LET first == Len(st.blocks) + 1
        compared == Comparisons(Demand(AppendBlocks(st, Len(i.arms) + 1), HasSlot(st, i.subject)), i, first)
        arms == FoldLeft(LAMBDA acc, a : LET s == EmitBlock(SwitchTo(acc.st, first + a - 1), i.arms[a].body)
                                         IN [st |-> s, ends |-> acc.ends \o LooseEnd(s)],
                         [st |-> compared, ends |-> <<>>], [a \in DOMAIN i.arms |-> a])
        other == EmitBlock(SwitchTo(arms.st, first + Len(i.arms)), i.fallback)
    IN Merge(other, arms.ends \o LooseEnd(other))

EmitWhile(st, i) ==
    LET condition == Len(st.blocks) + 1
        tested == EmitBlock(SwitchTo(Insert(AppendBlocks(st, 1), Jump(condition)), condition), i.first)
        body == Len(tested.blocks) + 1
        branched == Insert(Demand(AppendBlocks(tested, 2), HasSlot(tested, i.condition)), Br(i.condition, body, body + 1))
        looped == EmitBlock(SwitchTo(branched, body), i.body)
    IN IF ~tested.loose THEN tested
       ELSE SwitchTo(IF looped.loose THEN Insert(looped, Jump(condition)) ELSE looped, body + 1)

EmitInstr(st, i) ==
    CASE i.do = "set" -> EmitSet(st, i)
      [] i.do = "return" -> Terminated(Insert(st, ReturnValues(Slots(st, <<i.local>>))))
      [] i.do = "if" -> EmitIf(st, i)
      [] i.do = "match" -> EmitMatch(st, i)
      [] i.do = "while" -> EmitWhile(st, i)
EmitBlock(st, block) ==
    FoldLeft(LAMBDA acc, i : IF acc.panicked \/ ~acc.loose THEN acc ELSE EmitInstr(acc, i), st, block)

EmitFunction(mir, f, callable) ==
    LET done == EmitBlock(NewFunction(mir, f, callable), mir.fns[f].body)
    IN IF done.loose THEN Insert(done, Invalid) ELSE done

-----------------------------------------------------------------------------
(* Sections: the functions an entry point calls, each under its name.      *)
RECURSIVE CalleesIn(_), Reach(_, _, _)
CalleesIn(block) ==
    UNION {LET i == block[k] IN
           CASE i.do = "set" -> IF i.expr.is = "call" THEN {i.expr.callee} ELSE {}
             [] i.do = "return" -> {}
             [] i.do = "if" -> CalleesIn(i.yes) \cup CalleesIn(i.no)
             [] i.do = "match" -> UNION {CalleesIn(i.arms[a].body) : a \in DOMAIN i.arms} \cup CalleesIn(i.fallback)
             [] i.do = "while" -> CalleesIn(i.first) \cup CalleesIn(i.body) : k \in DOMAIN block}
Reach(mir, reachable, worklist) ==
    IF worklist = {} THEN reachable
    ELSE LET f == CHOOSE g \in worklist : TRUE
             new == CalleesIn(mir.fns[f].body) \ reachable
         IN Reach(mir, reachable \cup new, (worklist \ {f}) \cup new)
Reachable(mir, root) == IF root = None THEN {} ELSE Reach(mir, {root}, {root})

FunctionName(mir, f, section) ==
    CASE f = mir.init -> <<"init">>
      [] f = mir.run -> <<"run">>
      [] OTHER -> IF section = "runtime" /\ f \in Reachable(mir, mir.init) THEN <<"fn", f, "runtime">> ELSE <<"fn", f>>

Section(mir, section, root) ==
    LET callable == Reachable(mir, root) IN [f \in callable |-> EmitFunction(mir, f, callable)]

LowerToSonatina(mir) ==
    LET named(section, root) == {<<f, section, FunctionName(mir, f, section)>> : f \in Reachable(mir, root)}
        all == named("init", mir.init) \cup named("runtime", mir.run)
        init == Section(mir, "init", mir.init)
        runtime == Section(mir, "runtime", mir.run)
    IN [mir |-> mir, init |-> init, runtime |-> runtime,
        panicked |-> \/ \E f \in DOMAIN init : init[f].panicked
                     \/ \E f \in DOMAIN runtime : runtime[f].panicked
                     \/ Cardinality({n[3] : n \in all}) # Cardinality(all)]

-----------------------------------------------------------------------------
(* A run of the code of a section.                                         *)
RECURSIVE RunFrom(_, _, _, _, _), RunCode(_, _, _, _, _)

Unset == Compound(VoidType, <<"unset">>)
Var(r, var) == IF var \in DOMAIN r.locals THEN r.locals[var] ELSE Unset
RunValue(r, env, code, e) ==
    CASE e.is = "call" -> RunCode(r, env, code, e.callee, [i \in DOMAIN e.args |-> Var(r, e.args[i])])
      [] e.is = "compound" ->
            Results(r, Compound(e.type, [i \in DOMAIN e.parts |-> IF e.parts[i] = None THEN Unset ELSE Var(r, e.parts[i])]))
      [] OTHER -> RunExpr(r, env, <<>>, e)

(* Jumps back are the rounds of loops.                                     *)
Goto(r, env, code, fn, from, to) ==
    IF to > from THEN RunFrom(r, env, code, fn, to)
    ELSE IF r.rounds = Rounds THEN Ends(r, "endless")
    ELSE RunFrom([r EXCEPT !.rounds = @ + 1], env, code, fn, to)

RunFrom(r, env, code, fn, b) ==
    FoldLeft(LAMBDA acc, i :
                 IF acc.over # "" THEN acc
                 ELSE CASE i.do = "def" -> LET v == RunValue(acc, env, code, i.expr)
                                           IN IF v.over # "" THEN v ELSE [v EXCEPT !.locals = (i.var :> v.out) @@ @]
                        [] i.do = "effect" -> RunValue(acc, env, code, i.expr)
                        [] i.do = "return" -> Ends(IF i.vars = <<>> THEN acc ELSE Results(acc, Var(acc, i.vars[1])), "return")
                        [] i.do = "jump" -> Goto(acc, env, code, fn, b, i.to)
                        [] i.do = "br" -> RunFrom(acc, env, code, fn, IF Var(acc, i.condition).word # 0 THEN i.yes ELSE i.no)
                        [] i.do = "br eq" -> RunFrom(acc, env, code, fn, IF Var(acc, i.subject).word = i.key THEN i.yes ELSE i.no),
             r, code[fn].blocks[b])

RunCode(r, env, code, f, args) ==
    LET params == Slots(code[f], [i \in 1 .. code[f].mir.fns[f].params |-> i])
        done == RunFrom([r EXCEPT !.locals = [p \in ToSet(params) |-> args[CHOOSE i \in DOMAIN params : params[i] = p]]],
                        env, code, f, 1)
    IN [done EXCEPT !.locals = r.locals, !.over = IF done.over = "return" THEN "" ELSE done.over]

RunSonatina(env, code, f) == RunCode(NewRun, env, code, f, <<>>)
=============================================================================

----------------------------- MODULE HirMeaning ----------------------------
(***************************************************************************)
(* What a body means, said twice: of its tree, where a name stands for a   *)
(* cell of a store and a function remembers the values around it; and of   *)
(* the instructions it was lowered to, where there are only numbered       *)
(* locals.  A run leaves a trace of the operations it applies, in order.   *)
(***************************************************************************)
EXTENDS HirLowering, FiniteSets, TLC

CONSTANTS
    MaxRounds,           \* bound on the rounds of the loops of a run
    Opaque,              \* whether constants stand for themselves, not for their values
    Perform(_, _, _, _)  \* what an operation on labelled values does to a run

NoCode == [is |-> "no code"]
Plain(shown) == [shown |-> shown, code |-> NoCode]
Word(w) == Plain(<<w>>)
Closure(code) == [shown |-> <<"fn">>, code |-> code]
Shown(values) == [i \in DOMAIN values |-> values[i].shown]
IsTrue(value) == value.shown = <<"true">>

(* A run: `out` is the value last computed, `over` what is over, nothing   *)
(* yet, the function or all of it.                                         *)
NewRun == [env |-> <<>>, store |-> <<>>, locals |-> <<>>, args |-> <<>>,
           trace |-> <<>>, rounds |-> 0, out |-> Word("void"), over |-> "nothing"]
Yields(r, value) == [r EXCEPT !.out = value]
Notes(r, event) == [r EXCEPT !.trace = Append(@, event)]
(* Performed for its own sake, an operation is known by its operands.       *)
Symbolic(r, op, labels, values) ==
    Yields(Notes(r, <<op, Shown(values)>>),
           IF op = "!" THEN Word(IF IsTrue(values[1]) THEN "false" ELSE "true")
           ELSE Plain(<<op>> \o labels \o Shown(values)))
FieldNames(fields) == [i \in DOMAIN fields |-> fields[i].name]
FieldValues(fields) == [i \in DOMAIN fields |-> fields[i].value]
StructOf(shown, code) == [shown |-> <<"struct">> \o shown, code |-> code]

(* Steps of which the later ones are not taken once the function is over.  *)
IsOver(r) == r.over # "nothing"
Continue(r, Rest(_)) == IF IsOver(r) THEN r ELSE Rest(r)
Returns(r) == [r EXCEPT !.over = "function"]
CallOver(over) == IF over = "function" THEN "nothing" ELSE over

-----------------------------------------------------------------------------
(* Trees.                                                                  *)
RECURSIVE Eval(_, _, _), Do(_, _, _)

Declare(r, name, value) ==
    [r EXCEPT !.store = Append(@, value), !.env = (name :> Len(r.store) + 1) @@ @]
Look(r, consts, name) ==
    CASE name \in Primitives -> Word(name)
      [] name \notin Primitives /\ name \in DOMAIN r.env -> r.store[r.env[name]]
      [] OTHER -> IF Opaque THEN Plain(<<"const", consts[name]>>) ELSE Eval(NewRun, consts, consts[name]).out
Around(r) == [n \in DOMAIN r.env |-> r.store[r.env[n]]]

(* The values of expressions in order, left in r.args after those there.   *)
EvalArgs(r, consts, args) ==
    FoldLeft(LAMBDA acc, a : Continue(Eval(acc, consts, a), LAMBDA v : [v EXCEPT !.args = Append(@, v.out)]), r, args)
Args(r, start) == SubSeq(r.args, start + 1, Len(r.args))

EvalBody(r, consts, block) ==
    Continue(FoldLeft(LAMBDA acc, s : IF IsOver(acc) THEN acc ELSE Do(acc, consts, s), r, block.statements), LAMBDA s :
    IF block.end = Missing THEN Yields(s, Word("void")) ELSE Eval(s, consts, block.end))
EvalScope(r, consts, block) == [EvalBody(r, consts, block) EXCEPT !.env = r.env]

BindParam(r, consts, param, arg) ==
    Continue(IF param.type.is = "any" THEN Declare(r, param.type.name, Plain(<<"type of", arg.shown>>))
             ELSE Continue(Eval(r, consts, param.type), LAMBDA t : Notes(t, <<"takes", t.out.shown>>)), LAMBDA typed :
    Declare(typed, param.name, arg))

CallTree(r, consts, fn, around, args) ==
    LET names == DOMAIN around
        order == SetToSeq(names)
        inside == [r EXCEPT !.env = [n \in names |-> Len(r.store) + (CHOOSE i \in DOMAIN order : order[i] = n)],
                            !.store = @ \o [i \in DOMAIN order |-> around[order[i]]]]
    IN  [Continue(FoldLeft(LAMBDA acc, i : BindParam(acc, consts, fn.params[i], args[i]), inside, [i \in DOMAIN args |-> i]), LAMBDA bound :
         Continue(Eval(bound, consts, fn.returns), LAMBDA typed :
         EvalBody(Notes(typed, <<"returns", typed.out.shown>>), consts, fn.body)))
            EXCEPT !.env = r.env, !.over = CallOver(@)]

(* An operation, or the call of what its first operand is.  A method of a  *)
(* value whose type is known is passed the value.                          *)
ApplyTree(r, consts, op, args) ==
    LET operand == IF args = <<>> THEN NoCode ELSE args[1].code
        type == IF operand.is = "instance" THEN operand.type ELSE args[1]
        code == IF operand.is = "instance" THEN type.code ELSE operand
    IN CASE op = "call" /\ code.is = "fn" -> CallTree(r, consts, code.fn, code.around, Tail(args))
         [] code.is = "struct" /\ op \in DOMAIN code.methods ->
               CallTree(r, consts, code.methods[op], (SelfBinding :> type) @@ code.around,
                        IF operand.is = "instance" THEN args ELSE Tail(args))
         [] OTHER -> Perform(r, op, <<>>, args)

EvalStruct(r, consts, e) ==
    LET operands == (IF e.index = Missing THEN <<Value("void")>> ELSE <<e.index>>) \o FieldValues(e.fields)
        method(m) == e.methods[CHOOSE i \in DOMAIN e.methods : e.methods[i].name = m].fn
    IN  Continue(EvalArgs(r, consts, operands), LAMBDA s :
        Yields([s EXCEPT !.args = r.args],
               StructOf(FieldNames(e.fields) \o Shown(Args(s, Len(r.args))),
                        [is |-> "struct", methods |-> [m \in NamesOf(e.methods) |-> method(m)], around |-> Around(s)])))

EvalApply(r, consts, op, operands) ==
    Continue(EvalArgs(r, consts, operands), LAMBDA s :
    ApplyTree([s EXCEPT !.args = r.args], consts, op, Args(s, Len(r.args))))

RECURSIVE EvalBranches(_, _, _, _)
EvalBranches(r, consts, branches, no) ==
    IF branches = <<>> THEN IF no = Missing THEN Yields(r, Word("void")) ELSE EvalScope(r, consts, no)
    ELSE Continue(Eval(r, consts, branches[1].condition), LAMBDA c :
         IF IsTrue(c.out) THEN EvalScope(c, consts, branches[1].yes)
         ELSE EvalBranches(c, consts, Tail(branches), no))

(* The keys of a match are looked at before its arms.                      *)
EvalMatch(r, consts, e) ==
    LET cases == SelectSeq(e.arms, LAMBDA a : a.key # Missing)
        other == SelectSeq(e.arms, LAMBDA a : a.key = Missing)[1]
    IN  Continue(Eval(r, consts, e.subject), LAMBDA subject :
        Continue(EvalArgs(subject, consts, [i \in DOMAIN cases |-> cases[i].key]), LAMBDA keyed :
        LET hits == {i \in DOMAIN cases : Args(keyed, Len(r.args))[i].shown = subject.out.shown}
            s == [keyed EXCEPT !.args = r.args]
            arm == IF hits = {} THEN other ELSE cases[CHOOSE i \in hits : \A j \in hits : i <= j]
        IN [Eval(IF hits = {} /\ arm.binding # "" THEN Declare(s, arm.binding, subject.out) ELSE s, consts, arm.body)
               EXCEPT !.env = r.env]))

Eval(r, consts, e) ==
    CASE IsOver(r) -> r
      [] e.is = "value" -> Yields(r, Word(e.value))
      [] e.is = "error" -> Yields(r, Word("poison"))
      [] e.is = "name" -> Yields(r, Look(r, consts, e.name))
      [] e.is = "self" -> Yields(r, r.store[r.env[SelfBinding]])
      [] e.is = "builtin call" -> EvalApply(r, consts, e.name, e.args)
      [] e.is = "apply" -> EvalApply(r, consts, e.op, e.args)
      [] e.is = "literal" -> Continue(EvalArgs(r, consts, <<e.type>> \o FieldValues(e.fields)), LAMBDA s :
            Perform([s EXCEPT !.args = r.args], "literal", FieldNames(e.fields), Args(s, Len(r.args))))
      [] e.is = "struct" -> EvalStruct(r, consts, e)
      [] e.is = "fn" -> Yields(r, Closure([is |-> "fn", fn |-> e, around |-> Around(r)]))
      [] e.is = "block" -> EvalScope(r, consts, e)
      [] e.is = "comptime" -> EvalScope(r, consts, e.body)
      [] e.is = "if" -> EvalBranches(r, consts, <<[condition |-> e.condition, yes |-> e.yes]>> \o e.branches, e.no)
      [] e.is = "match" -> EvalMatch(r, consts, e)
      [] e.is \in {"and", "or"} -> Continue(Eval(r, consts, e.left), LAMBDA left :
            IF IsTrue(left.out) = (e.is = "or") THEN Yields(left, Word(IF e.is = "or" THEN "true" ELSE "false"))
            ELSE Eval(left, consts, e.right))

Typed(r, consts, type, value) ==
    IF type = Missing THEN Eval(r, consts, value)
    ELSE Continue(Eval(r, consts, type), LAMBDA t :
         Continue(Eval(t, consts, value), LAMBDA v : Notes(v, <<"typed", t.out.shown>>)))

Do(r, consts, s) ==
    CASE s.is = "let" -> Continue(Typed(r, consts, s.type, s.value), LAMBDA v : Declare(v, s.name, v.out))
      [] s.is = "no statement" -> r
      [] s.is = "eval" -> Eval(r, consts, s.value)
      [] s.is = "return" -> Continue(Eval(r, consts, s.value), LAMBDA v : Returns(v))
      [] s.is = "assign" -> Continue(Eval(r, consts, s.value), LAMBDA v :
            [v EXCEPT !.store[v.env[s.target.name]] = v.out])
      [] s.is = "while" -> Continue(Eval(r, consts, s.condition), LAMBDA c :
            IF ~IsTrue(c.out) \/ c.rounds = MaxRounds THEN c
            ELSE Continue(EvalScope([c EXCEPT !.rounds = @ + 1], consts, s.body), LAMBDA b : Do(b, consts, s)))

(* The run of a definition, and the value of a constant.                   *)
RunTree(consts, def) ==
    IF def.kind = "const" THEN Typed(NewRun, consts, def.type, def.value) ELSE EvalBody(NewRun, consts, def.body)

-----------------------------------------------------------------------------
(* Instructions.                                                           *)
RECURSIVE Execute(_, _, _), RunBlock(_, _, _)

Read(r, local) == IF local \in DOMAIN r.locals THEN r.locals[local] ELSE Word("unset")
Write(r, local, value) == [r EXCEPT !.locals = (local :> value) @@ @]
ReadAll(r, locals) == [i \in DOMAIN locals |-> Read(r, locals[i])]

Caught(r, captures) == [c \in {captures[i].inner : i \in DOMAIN captures} |->
                           Read(r, captures[CHOOSE i \in DOMAIN captures : captures[i].inner = c].outer)]

(* A call runs in locals of its own.                                       *)
CallFn(r, hir, fn, locals, args) ==
    [Continue(RunBlock([r EXCEPT !.locals = locals, !.args = args], hir, fn.preamble), LAMBDA bound :
     RunBlock(Notes(bound, <<"returns", Read(bound, fn.returns).shown>>), hir, fn.body))
        EXCEPT !.locals = r.locals, !.args = r.args, !.over = CallOver(@)]

ApplyLocals(r, hir, op, args) ==
    LET code == IF args = <<>> THEN NoCode ELSE args[1].code
        hits == IF code.is = "struct" THEN {i \in DOMAIN code.methods : code.methods[i].name = op} ELSE {}
    IN CASE op = "call" /\ code.is = "fn" -> CallFn(r, hir, hir.fns[code.fn], code.caught, Tail(args))
         [] hits # {} ->
               LET m == code.methods[Min(hits)]
               IN CallFn(r, hir, hir.fns[m.fn], (m.self :> args[1]) @@ code.caught[Min(hits)], Tail(args))
         [] OTHER -> Perform(r, op, <<>>, args)

MakeStruct(r, hir, def) ==
    StructOf(FieldNames(def.fields) \o Shown(<<Read(r, def.index)>> \o ReadAll(r, FieldValues(def.fields))),
             [is |-> "struct", methods |-> def.methods,
              caught |-> [i \in DOMAIN def.methods |-> Caught(r, hir.fns[def.methods[i].fn].captures)]])

Compute(r, hir, e) ==
    CASE e.is = "value" -> Yields(r, Word(e.value))
      [] e.is = "poison" -> Yields(r, Word("poison"))
      [] e.is = "local" -> Yields(r, Read(r, e.local))
      [] e.is = "const" -> Yields(r, Plain(<<"const", e.const>>))
      [] e.is = "apply" -> ApplyLocals(r, hir, e.op, ReadAll(r, e.args))
      [] e.is = "literal" -> Perform(r, "literal", FieldNames(e.fields), ReadAll(r, <<e.type>> \o FieldValues(e.fields)))
      [] e.is = "fn" -> Yields(r, Closure([is |-> "fn", fn |-> e.fn, caught |-> Caught(r, hir.fns[e.fn].captures)]))
      [] e.is = "struct" -> Yields(r, MakeStruct(r, hir, hir.structs[e.def]))

RunBlock(r, hir, block) ==
    FoldLeft(LAMBDA acc, instr : IF IsOver(acc) THEN acc ELSE Execute(acc, hir, instr), r, hir.blocks[block])

Execute(r, hir, instr) ==
    CASE instr.do \in {"set", "set mut", "branch set", "assign"} -> Continue(Compute(r, hir, instr.expr), LAMBDA v :
            Write(IF instr.type = 0 THEN v ELSE Notes(v, <<"typed", Read(v, instr.type).shown>>), instr.local, v.out))
      [] instr.do = "eval" -> Compute(r, hir, instr.expr)
      [] instr.do = "return" -> Continue(Compute(r, hir, instr.expr), LAMBDA v : Returns(v))
      [] instr.do = "comptime" -> RunBlock(r, hir, instr.block)
      [] instr.do = "if" -> RunBlock(r, hir, IF IsTrue(Read(r, instr.condition)) THEN instr.yes ELSE instr.no)
      [] instr.do = "match" ->
            LET hits == {i \in DOMAIN instr.arms : Read(r, instr.arms[i].key).shown = Read(r, instr.subject).shown}
            IN RunBlock(r, hir, IF hits = {} THEN instr.fallback ELSE instr.arms[Min(hits)].body)
      [] instr.do = "while" -> Continue(RunBlock(r, hir, instr.first), LAMBDA c :
            IF ~IsTrue(Read(c, instr.condition)) \/ c.rounds = MaxRounds THEN c
            ELSE Continue(RunBlock([c EXCEPT !.rounds = @ + 1], hir, instr.body), LAMBDA b : Execute(b, hir, instr)))
      [] instr.do = "param" ->
            LET arg == Head(r.args)
            IN [Write(IF instr.any THEN Write(r, instr.type, Plain(<<"type of", arg.shown>>))
                      ELSE Notes(r, <<"takes", Read(r, instr.type).shown>>), instr.arg, arg) EXCEPT !.args = Tail(@)]

(* The run of what a definition was lowered to.                            *)
RunLowered(hir, lowered) ==
    Continue(RunBlock(NewRun, hir, lowered.body), LAMBDA r :
    IF lowered.result = 0 THEN r ELSE Yields(r, Read(r, lowered.result)))

(* A run is known by its trace and, if it is of a constant, its value.     *)
SameRun(r, s, def) == r.trace = s.trace /\ (def.kind = "const" => r.out.shown = s.out.shown)

-----------------------------------------------------------------------------
(* What is wrong with a body, by the names visible at each place of its    *)
(* tree (`kinds` tells how each was declared) and by what a `return` there *)
(* would leave.                                                            *)
RECURSIVE Faults(_, _, _, _), StatementFaults(_, _, _, _)

(* The names after statements and what is wrong with them.                 *)
StatementsFaults(statements, kinds, context, consts) ==
    FoldLeft(LAMBDA acc, s :
                 LET next == StatementFaults(s, acc.kinds, context, consts)
                 IN [kinds |-> next.kinds, faults |-> acc.faults \cup next.faults],
             [kinds |-> kinds, faults |-> {}], statements)
BlockFaults(block, kinds, context, consts) ==
    LET steps == StatementsFaults(block.statements, kinds, context, consts)
    IN steps.faults \cup (IF block.end = Missing THEN {} ELSE Faults(block.end, steps.kinds, context, consts))
AllFaults(trees, kinds, context, consts) == UNION {Faults(t, kinds, context, consts) : t \in trees}
Unless(ok, kind, name) == IF ok THEN {} ELSE {<<kind, name>>}
NameFaults(name) == Unless(name \notin Primitives, "primitive", name)
Bound(kinds, name, kind) == (name :> kind) @@ kinds

(* Parameters: `mine` are the names they have taken.                       *)
ParamFaults(acc, param, consts) ==
    LET any == param.type.is = "any"
        type == IF any THEN param.type.name ELSE ""
        typed == IF any THEN IF type \in acc.mine THEN {<<"duplicate type capture", type>>} ELSE NameFaults(type)
                 ELSE Faults(param.type, acc.kinds, "outside function", consts)
        mine == acc.mine \cup IF any THEN {type} ELSE {}
        kinds == IF any THEN Bound(acc.kinds, type, "immutable") ELSE acc.kinds
    IN [kinds |-> Bound(kinds, param.name, "immutable"), mine |-> mine \cup {param.name},
        faults |-> acc.faults \cup typed \cup
            IF param.name \in mine THEN {<<"duplicate parameter", param.name>>} ELSE NameFaults(param.name)]
FnFaults(fn, kinds, consts) ==
    LET start == [kinds |-> [n \in DOMAIN kinds |-> "immutable"], mine |-> {}, faults |-> {}]
        params == FoldLeft(LAMBDA acc, p : ParamFaults(acc, p, consts), start, fn.params)
    IN params.faults \cup Faults(fn.returns, params.kinds, "outside function", consts)
       \cup BlockFaults(fn.body, params.kinds, "function", consts)

StructFaults(e, kinds, context, consts) ==
    LET fields == ToSet(e.fields)
        repeated(i) == \E j \in 1 .. i - 1 : e.methods[j].name = e.methods[i].name
    IN (IF e.index = Missing THEN {} ELSE Faults(e.index, kinds, "comptime", consts))
       \cup AllFaults({f.value : f \in fields}, kinds, context, consts)
       \cup UNION {FnFaults(m.fn, Bound(kinds, SelfBinding, "immutable"), consts) : m \in ToSet(e.methods)}
       \cup UNION {Unless(e.methods[i].name \notin {f.name : f \in fields}, "duplicate member", e.methods[i].name)
                   \cup Unless(~repeated(i), "duplicate method", e.methods[i].name) : i \in DOMAIN e.methods}

MatchFaults(e, kinds, context, consts) ==
    LET elses == {i \in DOMAIN e.arms : e.arms[i].key = Missing}
        armKinds(a) == IF a.key = Missing /\ a.binding # "" THEN Bound(kinds, a.binding, "immutable") ELSE kinds
    IN Faults(e.subject, kinds, context, consts)
       \cup UNION {Faults(a.body, armKinds(a), context, consts) : a \in ToSet(e.arms)}
       \cup UNION {Faults(e.arms[i].key, kinds, "comptime", consts) : i \in DOMAIN e.arms \ elses}
       \cup UNION {NameFaults(e.arms[i].binding) : i \in elses}
       \cup Unless(elses # {}, "missing else", "") \cup Unless(Cardinality(elses) <= 1, "multiple else", "")
       \cup Unless(\A i \in elses : DOMAIN e.arms \ (elses \cup 1 .. i) = {}, "case after else", "")

Faults(e, kinds, context, consts) ==
    CASE e.is \in {"error", "value", "nothing"} -> {}
      [] e.is = "name" -> Unless(e.name \in Primitives \cup DOMAIN kinds \cup DOMAIN consts, "unresolved identifier", e.name)
      [] e.is = "self" -> Unless(SelfBinding \in DOMAIN kinds, "Self outside method", "")
      [] e.is = "too big" -> {<<"number out of range", "">>}
      [] e.is = "builtin" -> {<<IF e.name \in BuiltinNames THEN "builtin not called" ELSE "unknown builtin", e.name>>}
      [] e.is = "builtin call" -> AllFaults(ToSet(e.args), kinds, context, consts)
                                     \cup Unless(e.name \in BuiltinNames, "unknown builtin", e.name)
      [] e.is = "apply" -> AllFaults(ToSet(e.args), kinds, context, consts) \cup Unless(e.op # "/", "lone slash", "")
      [] e.is = "literal" -> AllFaults({e.type} \cup {f.value : f \in ToSet(e.fields)}, kinds, context, consts)
      [] e.is = "struct" -> StructFaults(e, kinds, context, consts)
      [] e.is = "fn" -> FnFaults(e, kinds, consts)
      [] e.is = "block" -> BlockFaults(e, kinds, context, consts)
      [] e.is = "comptime" -> BlockFaults(e.body, kinds, "comptime", consts)
      [] e.is = "if" -> AllFaults({e.condition, e.yes, e.no} \cup UNION {{b.condition, b.yes} : b \in ToSet(e.branches)},
                                  kinds, context, consts)
      [] e.is = "match" -> MatchFaults(e, kinds, context, consts)
      [] e.is \in {"and", "or"} -> AllFaults({e.left, e.right}, kinds, context, consts)

(* Nothing is asked of the value of an assignment that is wrong already.   *)
AssignFaults(s, kinds, context, consts) ==
    LET name == s.target.name IN
    CASE name \notin DOMAIN kinds -> {<<"unresolved identifier", name>>}
      [] name \in DOMAIN kinds /\ kinds[name] = "immutable" -> {<<"immutable", name>>}
      [] OTHER -> Faults(s.value, kinds, IF kinds[name] = "comptime mutable" THEN "comptime" ELSE context, consts)

StatementFaults(s, kinds, context, consts) ==
    CASE s.is = "let" ->
            LET inside == IF s.comptime THEN "comptime" ELSE context IN
            [kinds |-> Bound(kinds, s.name, CASE s.mutable /\ s.comptime -> "comptime mutable"
                                              [] s.mutable /\ ~s.comptime -> "runtime mutable"
                                              [] OTHER -> "immutable"),
             faults |-> AllFaults({s.type, s.value}, kinds, inside, consts) \cup NameFaults(s.name)]
      [] s.is = "assign" -> [kinds |-> kinds, faults |-> AssignFaults(s, kinds, context, consts)]
      [] s.is = "while" -> [kinds |-> kinds, faults |-> AllFaults({s.condition, s.body}, kinds, context, consts)]
      [] s.is = "return" -> [kinds |-> kinds, faults |-> Faults(s.value, kinds, context, consts) \cup
            CASE context = "function" -> {}
              [] context = "comptime" -> {<<"return in comptime", "">>}
              [] context = "outside function" -> {<<"return outside function", "">>}]
      [] s.is = "eval" -> [kinds |-> kinds, faults |-> Faults(s.value, kinds, context, consts)]
      [] s.is = "no statement" -> [kinds |-> kinds, faults |-> {}]

DefinitionFaults(consts, def) ==
    IF def.kind = "const" THEN AllFaults({def.type, def.value}, <<>>, "outside function", consts)
    ELSE BlockFaults(def.body, <<>>, "outside function", consts)
=============================================================================

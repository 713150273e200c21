---------------------------- MODULE HirLowering ----------------------------
(***************************************************************************)
(* The bodies of definitions become instructions on numbered locals        *)
(* (BlockLowerer in hir/src/lowerer/mod.rs).  A function has a frame of    *)
(* its own, with the locals its names stand for and the locals of the      *)
(* frames around it that it captures.  An operator takes the state of the  *)
(* lowerer and gives the next; `ret` is the expression a lowering returns, *)
(* `local` and `block` the newest ones, `found` the binding last looked    *)
(* for.  A tree is a record: `is` names its kind.                          *)
(***************************************************************************)
EXTENDS Naturals, Sequences, SequencesExt

CONSTANTS
    Primitives,   \* names of primitive types
    BuiltinNames  \* names of builtins

Missing == [is |-> "nothing"]
NoBinding == [name |-> "", id |-> 0, kind |-> "none"]
SelfBinding == "Self"

NewFrame == [scoped |-> <<>>, captures |-> <<>>, next |-> 1]
NewHir == [blocks |-> <<>>, fns |-> <<>>, structs |-> <<>>]
NewLowerer(hir, scope) ==
    [hir |-> hir, scope |-> scope, frames |-> <<NewFrame>>, context |-> "outside function",
     instrs |-> <<>>, locals |-> <<>>, fields |-> <<>>, methods |-> <<>>, params |-> <<>>,
     errors |-> {}, panicked |-> FALSE,
     ret |-> Missing, local |-> 0, block |-> 0, found |-> NoBinding]

Poison == [is |-> "poison"]
Value(v) == [is |-> "value", value |-> v]
Void == Value("void")
LocalRef(l) == [is |-> "local", local |-> l]

(* One step after another: the rest works on what the first one leaves,    *)
(* unless that was a panic.                                                *)
Then(st, Rest(_)) == IF st.panicked THEN st ELSE Rest(st)
Gives(st, expr) == [st EXCEPT !.ret = expr]
Complain(st, kind, name) == [st EXCEPT !.errors = @ \cup {<<kind, name>>}]
GivesPoison(st, kind, name) == Gives(Complain(st, kind, name), Poison)

Emit(st, instr) == [st EXCEPT !.instrs = Append(@, instr)]
Set(local, type, expr) == [do |-> "set", local |-> local, type |-> type, expr |-> expr]
SetMut(local, type, expr, comptime) ==
    [do |-> "set mut", local |-> local, type |-> type, expr |-> expr, comptime |-> comptime]
BranchSet(local, expr) == [do |-> "branch set", local |-> local, type |-> 0, expr |-> expr]
Assign(local, expr) == [do |-> "assign", local |-> local, type |-> 0, expr |-> expr]

-----------------------------------------------------------------------------
(* Frames, names and captures.                                             *)
Depth(st) == Len(st.frames)
TopFrame(st) == Last(st.frames)
AllocTemp(st) ==
    [st EXCEPT !.local = TopFrame(st).next, !.frames[Depth(st)].next = @ + 1]
Bind(st, name, id, kind) ==
    [st EXCEPT !.frames[Depth(st)].scoped = Append(@, [name |-> name, id |-> id, kind |-> kind])]

ValidateLocalName(st, name) == IF name \in Primitives THEN Complain(st, "primitive", name) ELSE st
AllocLocal(st, name, kind) ==
    Then(AllocTemp(ValidateLocalName(st, name)), LAMBDA s : Bind(s, name, s.local, kind))

FindBinding(frame, name) ==
    LET scoped == SelectSeq(frame.scoped, LAMBDA l : l.name = name)
        captured == SelectSeq(frame.captures, LAMBDA c : c.name = name)
    IN CASE scoped # <<>> -> Last(scoped)
         [] scoped = <<>> /\ captured # <<>> ->
               [name |-> name, id |-> captured[1].inner, kind |-> "immutable"]
         [] OTHER -> NoBinding

(* Frame `d` captures what was found around it, once.                      *)
CaptureBinding(st, d) ==
    LET known == SelectSeq(st.frames[d].captures, LAMBDA c : c.outer = st.found.id)
        inner == IF known # <<>> THEN known[1].inner ELSE st.frames[d].next
        found == [st EXCEPT !.found.id = inner, !.found.kind = "immutable"]
    IN IF known # <<>> THEN [found EXCEPT !.panicked = @ \/ known[1].name # st.found.name]
       ELSE [found EXCEPT !.frames[d].next = @ + 1,
                          !.frames[d].captures = Append(@, [name |-> st.found.name, outer |-> st.found.id, inner |-> inner])]

ResolveBinding(st, name) ==
    LET holding == {d \in 1 .. Depth(st) : FindBinding(st.frames[d], name) # NoBinding}
    IN IF holding = {} THEN [st EXCEPT !.found = NoBinding]
       ELSE LET from == CHOOSE d \in holding : \A e \in holding : e <= d
            IN FoldLeft(LAMBDA s, d : CaptureBinding(s, d),
                        [st EXCEPT !.found = FindBinding(st.frames[from], name)],
                        [i \in 1 .. Depth(st) - from |-> from + i])

ResolveName(st, name) ==
    IF name \in Primitives THEN Gives(st, Value(name))
    ELSE Then(ResolveBinding(st, name), LAMBDA s :
         IF s.found # NoBinding THEN Gives(s, LocalRef(s.found.id))
         ELSE IF name \in DOMAIN s.scope THEN Gives(s, [is |-> "const", const |-> s.scope[name]])
         ELSE GivesPoison(s, "unresolved identifier", name))

-----------------------------------------------------------------------------
(* Blocks: the instructions emitted since `start` are moved to a block of  *)
(* their own, and the names bound in it are forgotten.                     *)
Flush(st, start) ==
    [st EXCEPT !.hir.blocks = Append(@, SubSeq(st.instrs, start + 1, Len(st.instrs))),
               !.instrs = SubSeq(@, 1, start), !.block = Len(st.hir.blocks) + 1]

(* What was begun in `st` and has come to `done` is closed: the names it   *)
(* bound are forgotten, and a block is made of its instructions.           *)
Unscope(st, done) ==
    Then(done, LAMBDA s : [s EXCEPT !.frames[Depth(st)].scoped = SubSeq(@, 1, Len(TopFrame(st).scoped))])
CloseUnscoped(st, done) == Then(done, LAMBDA s : Flush(s, Len(st.instrs)))
CloseBlock(st, done) == CloseUnscoped(st, Unscope(st, done))

EnterComptime(st) == [st EXCEPT !.context = "comptime"]
(* Mutation: after a comptime block a `return` is taken for one within it. *)
LeaveComptime_Lasting(st, closed, reason) ==
    Then(closed, LAMBDA s : Emit(s, [do |-> "comptime", block |-> s.block, reason |-> reason]))

LeaveComptime(st, closed, reason) ==
    Then(closed, LAMBDA s :
    Emit([s EXCEPT !.context = st.context], [do |-> "comptime", block |-> s.block, reason |-> reason]))

EnterFunction(st) == [st EXCEPT !.frames = Append(@, NewFrame)]
LeaveFunction(done) == Then(done, LAMBDA s : [s EXCEPT !.frames = Front(@)])

-----------------------------------------------------------------------------
RECURSIVE LowerTree(_, _), LowerElseChain(_, _, _, _)

ExprToTemp(st, expr) == Then(AllocTemp(st), LAMBDA s : Emit(s, Set(s.local, 0, expr)))
ExprToLocal(st, e) == Then(LowerTree(st, e), LAMBDA s : ExprToTemp(s, s.ret))

(* locals_buf holds the locals of the arguments being lowered.             *)
LowerArgs(st, args) ==
    FoldLeft(LAMBDA acc, a : Then(ExprToLocal(acc, a), LAMBDA s : [s EXCEPT !.locals = Append(@, s.local)]), st, args)
TakeArgs(st, start) == SubSeq(st.locals, start + 1, Len(st.locals))
Apply(st, op, start) ==
    [st EXCEPT !.ret = [is |-> "apply", op |-> op, args |-> TakeArgs(st, start)], !.locals = SubSeq(@, 1, start)]

LowerBody(st, block) ==
    Then(FoldLeft(LAMBDA acc, s : LowerTree(acc, s), st, block.statements), LAMBDA s :
    IF block.end = Missing THEN Gives(s, Void) ELSE LowerTree(s, block.end))

BodyBlock(st, block) ==
    CloseBlock(st, Then(LowerBody(st, block), LAMBDA b :
    IF block.end = Missing THEN b ELSE Emit(b, [do |-> "eval", expr |-> b.ret])))

BranchBlock(st, e, result) ==
    CloseBlock(st, Then(LowerTree(st, e), LAMBDA b : Emit(b, BranchSet(result, b.ret))))
GivenBlock(st, expr, result) == CloseBlock(st, Emit(st, BranchSet(result, expr)))
BranchBody(st, block, result) ==
    CloseBlock(st, Then(LowerBody(st, block), LAMBDA b : Emit(b, BranchSet(result, b.ret))))

If(result, condition, yes, no) ==
    [do |-> "if", result |-> result, condition |-> condition, yes |-> yes, no |-> no]

LowerElseChain(st, result, branches, no) ==
    IF branches # <<>> THEN
        CloseBlock(st,
        Then(ExprToLocal(st, branches[1].condition), LAMBDA c :
        Then(BranchBody(c, branches[1].yes, result), LAMBDA yes :
        Then(LowerElseChain(yes, result, Tail(branches), no), LAMBDA rest :
        Emit(rest, If(0, c.local, yes.block, rest.block))))))
    ELSE IF no # Missing THEN BranchBody(st, no, result)
    ELSE GivenBlock(st, Void, result)

LowerIf(st, e) ==
    Then(AllocTemp(st), LAMBDA result :
    Then(ExprToLocal(result, e.condition), LAMBDA c :
    Then(BranchBody(c, e.yes, result.local), LAMBDA yes :
    Then(LowerElseChain(yes, result.local, e.branches, e.no), LAMBDA no :
    Gives(Emit(no, If(result.local, c.local, yes.block, no.block)), LocalRef(result.local))))))

(* Mutation: the branches of `or` are those of `and`.                      *)
LowerShortCircuit_Swapped(st, e) ==
    Then(AllocTemp(st), LAMBDA result :
    Then(ExprToLocal(result, e.left), LAMBDA left :
    Then(BranchBlock(left, e.right, result.local), LAMBDA right :
    Then(GivenBlock(right, Value(IF e.is = "or" THEN "true" ELSE "false"), result.local), LAMBDA short :
    Gives(Emit(short, If(result.local, left.local, right.block, short.block)), LocalRef(result.local))))))

LowerShortCircuit(st, e) ==
    Then(AllocTemp(st), LAMBDA result :
    Then(ExprToLocal(result, e.left), LAMBDA left :
    Then(BranchBlock(left, e.right, result.local), LAMBDA right :
    Then(GivenBlock(right, Value(IF e.is = "or" THEN "true" ELSE "false"), result.local), LAMBDA short :
    Gives(Emit(short, If(result.local, left.local, IF e.is = "or" THEN short.block ELSE right.block,
                         IF e.is = "or" THEN right.block ELSE short.block)), LocalRef(result.local))))))

(* An arm of a match; `acc` holds the arms so far and the first fallback.  *)
Case(acc, key, body) == [acc EXCEPT !.st = body, !.arms = Append(@, [key |-> key, body |-> body.block])]
CaseArm(acc, arm, result) ==
    LET st == IF acc.fallback = 0 THEN acc.st ELSE Complain(acc.st, "case after else", "")
        key == LeaveComptime(st, CloseBlock(st, ExprToLocal(EnterComptime(st), arm.key)), "key")
    IN Case(acc, key.local, BranchBlock(key, arm.body, result))

ArmBlock(st, binding, to, body, result) ==
    CloseBlock(st,
    Then(LowerTree(IF binding = "" THEN st ELSE Bind(st, binding, to, "immutable"), body), LAMBDA b :
    Emit(b, BranchSet(result, b.ret))))

(* A second fallback gets a key nothing is equal to.                       *)
ElseArm(acc, arm, subject, result) ==
    IF acc.fallback = 0 THEN
        LET body == ArmBlock(ValidateLocalName(acc.st, arm.binding), arm.binding, subject, arm.body, result)
        IN [acc EXCEPT !.st = body, !.fallback = body.block]
    ELSE
        LET key == ExprToTemp(acc.st, Poison)
            to == IF arm.binding = "" THEN key ELSE ExprToTemp(ValidateLocalName(key, arm.binding), Poison)
            body == ArmBlock(to, arm.binding, to.local, arm.body, result)
        IN Case(acc, key.local, Complain(body, "multiple else", ""))

EndMatch(acc, subject, result) ==
    Then(IF acc.fallback # 0 THEN [acc.st EXCEPT !.block = acc.fallback]
         ELSE GivenBlock(Complain(acc.st, "missing else", ""), Poison, result), LAMBDA no :
    Gives(Emit(no, [do |-> "match", result |-> result, subject |-> subject, arms |-> acc.arms, fallback |-> no.block]),
          LocalRef(result)))

LowerMatch(st, e) ==
    Then(ExprToLocal(st, e.subject), LAMBDA subject :
    Then(AllocTemp(subject), LAMBDA result :
    EndMatch(FoldLeft(LAMBDA acc, arm : IF arm.key # Missing THEN CaseArm(acc, arm, result.local)
                                        ELSE ElseArm(acc, arm, subject.local, result.local),
                      [st |-> result, arms |-> <<>>, fallback |-> 0], e.arms),
             subject.local, result.local)))

-----------------------------------------------------------------------------
(* A parameter: its type may use the ones before it, and its name is taken *)
(* if the frame has it already, be it as a capture.                        *)
Taken(st, name) == FindBinding(TopFrame(st), name) # NoBinding

ParamType(st, param) ==
    CASE param.type.is = "any" /\ Taken(st, param.type.name) ->
            [Complain(st, "duplicate type capture", param.type.name) EXCEPT !.local = 0]
      [] param.type.is = "any" /\ ~Taken(st, param.type.name) -> AllocLocal(st, param.type.name, "immutable")
      [] param.type.is = "nothing" -> [st EXCEPT !.local = 0]
      [] OTHER -> ExprToLocal(st, param.type)

LowerParam(st, param) ==
    Then(ParamType(st, param), LAMBDA type :
    Then(IF Taken(type, param.name) THEN AllocTemp(Complain(type, "duplicate parameter", param.name))
         ELSE AllocLocal(type, param.name, "immutable"), LAMBDA s :
    LET info == [do |-> "param", arg |-> s.local, type |-> type.local, any |-> param.type.is = "any",
                 comptime |-> param.comptime]
    IN Emit([s EXCEPT !.params = Append(@, info)], info)))

LowerFunction(st, fn) ==
    Then(FoldLeft(LAMBDA s, p : LowerParam(s, p), [st EXCEPT !.context = "outside function"], fn.params), LAMBDA params :
    Then(ExprToLocal(params, fn.returns), LAMBDA returns :
    Then(Flush(returns, Len(st.instrs)), LAMBDA preamble :
    Then(CloseBlock(preamble, Then(LowerBody([preamble EXCEPT !.context = "function"], fn.body), LAMBDA b :
                              Emit(b, [do |-> "return", expr |-> b.ret]))), LAMBDA body :
    [body EXCEPT
        !.hir.fns = Append(@, [preamble |-> preamble.block, returns |-> returns.local, body |-> body.block, eager |-> fn.eager,
                               params |-> SubSeq(body.params, Len(st.params) + 1, Len(body.params)),
                               captures |-> TopFrame(body).captures]),
        !.params = SubSeq(@, 1, Len(st.params)),
        !.context = st.context]))))

LowerFnDef(st, fn) ==
    Then(LeaveFunction(LowerFunction(EnterFunction(st), fn)), LAMBDA s :
    Gives(s, [is |-> "fn", fn |-> Len(s.hir.fns)]))

LowerMethod(st, method) ==
    LeaveFunction(
    Then(AllocTemp(EnterFunction(st)), LAMBDA self :
    Then(LowerFunction(Bind(self, SelfBinding, self.local, "immutable"), method.fn), LAMBDA done :
    [done EXCEPT !.methods = Append(@, [name |-> method.name, fn |-> Len(done.hir.fns), self |-> self.local])])))

LowerFields(st, fields) ==
    FoldLeft(LAMBDA acc, f : Then(ExprToLocal(acc, f.value), LAMBDA s :
                             [s EXCEPT !.fields = Append(@, [name |-> f.name, value |-> s.local])]), st, fields)
Fields(st, start) == SubSeq(st.fields, start + 1, Len(st.fields))
NamesOf(infos) == {infos[i].name : i \in DOMAIN infos}

LowerMethods(st, methods, fields) ==
    FoldLeft(LAMBDA acc, m :
        LET before == NamesOf(SubSeq(acc.methods, Len(st.methods) + 1, Len(acc.methods)))
            member == IF m.name \in NamesOf(fields) THEN Complain(acc, "duplicate member", m.name) ELSE acc
        IN LowerMethod(IF m.name \in before THEN Complain(member, "duplicate method", m.name) ELSE member, m),
        st, methods)

LowerStructDef(st, e) ==
    Then(AllocTemp(st), LAMBDA index :
    Then(IF e.index = Missing THEN Emit(index, Set(index.local, 0, Void))
         ELSE LeaveComptime(index, CloseBlock(index,
              Then(LowerTree(EnterComptime(index), e.index), LAMBDA v :
              Emit(v, Set(index.local, 0, v.ret)))), "explicit"), LAMBDA indexed :
    Then(LowerFields(indexed, e.fields), LAMBDA typed :
    Then([typed EXCEPT !.fields = SubSeq(@, 1, Len(st.fields))], LAMBDA taken :
    Then(LowerMethods(taken, e.methods, Fields(typed, Len(st.fields))), LAMBDA done :
    Gives([done EXCEPT
              !.hir.structs = Append(@, [index |-> index.local, fields |-> Fields(typed, Len(st.fields)),
                                         methods |-> SubSeq(done.methods, Len(st.methods) + 1, Len(done.methods))]),
              !.methods = SubSeq(@, 1, Len(st.methods))],
          [is |-> "struct", def |-> Len(done.hir.structs) + 1]))))))

LowerStructLit(st, e) ==
    Then(ExprToLocal(st, e.type), LAMBDA type :
    Then(LowerFields(type, e.fields), LAMBDA s :
    [s EXCEPT !.ret = [is |-> "literal", type |-> type.local, fields |-> Fields(s, Len(st.fields))],
              !.fields = SubSeq(@, 1, Len(st.fields))]))

-----------------------------------------------------------------------------
(* Calls of builtins, members and other values, operators, tuples: their   *)
(* operands become locals in order.                                        *)
LowerExpr(st, e) ==
    CASE e.is = "error" -> Gives(st, Poison)
      [] e.is = "name" -> ResolveName(st, e.name)
      [] e.is = "self" -> Then(ResolveBinding(st, SelfBinding), LAMBDA s :
            IF s.found # NoBinding THEN Gives(s, LocalRef(s.found.id))
            ELSE GivesPoison(s, "Self outside method", ""))
      [] e.is = "value" -> Gives(st, e)
      [] e.is = "too big" -> GivesPoison(st, "number out of range", "")
      [] e.is = "builtin" ->
            GivesPoison(st, IF e.name \in BuiltinNames THEN "builtin not called" ELSE "unknown builtin", e.name)
      [] e.is = "builtin call" -> Then(LowerArgs(st, e.args), LAMBDA s :
            Then(Apply(s, e.name, Len(st.locals)), LAMBDA a :
            IF e.name \in BuiltinNames THEN a ELSE GivesPoison(a, "unknown builtin", e.name)))
      [] e.is = "apply" -> Then(LowerArgs(IF e.op = "/" THEN Complain(st, "lone slash", "") ELSE st, e.args), LAMBDA s :
            Apply(s, e.op, Len(st.locals)))
      [] e.is = "literal" -> LowerStructLit(st, e)
      [] e.is = "struct" -> LowerStructDef(st, e)
      [] e.is = "fn" -> LowerFnDef(st, e)
      [] e.is = "block" -> Unscope(st, LowerBody(st, e))
      [] e.is = "if" -> LowerIf(st, e)
      [] e.is = "match" -> LowerMatch(st, e)
      [] e.is \in {"and", "or"} -> LowerShortCircuit(st, e)
      [] e.is = "comptime" ->
            Then(AllocTemp(st), LAMBDA result :
            Then(LeaveComptime(result, CloseBlock(result,
                    Then(LowerBody(EnterComptime(result), e.body), LAMBDA b :
                    Emit(b, Set(result.local, 0, b.ret)))), "explicit"), LAMBDA s :
            Gives(s, LocalRef(result.local))))

(* The name of a `let` is bound after its value is lowered.                *)
LowerLet(st, let) ==
    Then(IF let.type = Missing THEN [st EXCEPT !.local = 0] ELSE ExprToLocal(st, let.type), LAMBDA type :
    Then(LowerTree(type, let.value), LAMBDA v :
    Then(AllocLocal(v, let.name, CASE let.mutable /\ let.comptime -> "comptime mutable"
                                   [] let.mutable /\ ~let.comptime -> "runtime mutable"
                                   [] OTHER -> "immutable"), LAMBDA s :
    Emit(s, IF let.mutable THEN SetMut(s.local, type.local, v.ret, let.comptime)
            ELSE Set(s.local, type.local, v.ret)))))

LowerAssign(st, assign) ==
    IF assign.target.is # "name" THEN [st EXCEPT !.panicked = TRUE]
    ELSE Then(ResolveBinding(st, assign.target.name), LAMBDA s :
         CASE s.found = NoBinding -> Complain(s, "unresolved identifier", assign.target.name)
           [] s.found.kind = "immutable" -> Complain(s, "immutable", assign.target.name)
           [] s.found.kind = "runtime mutable" ->
                 Then(LowerTree(s, assign.value), LAMBDA v : Emit(v, Assign(s.found.id, v.ret)))
           [] s.found.kind = "comptime mutable" ->
                 LeaveComptime(s, CloseBlock(s,
                 Then(LowerTree(EnterComptime(s), assign.value), LAMBDA v : Emit(v, Assign(s.found.id, v.ret)))), "assign"))

LowerWhile(st, loop) ==
    Then(CloseBlock(st, ExprToLocal(st, loop.condition)), LAMBDA c :
    Then(BodyBlock(c, loop.body), LAMBDA body :
    Emit(body, [do |-> "while", inline |-> loop.inline, first |-> c.block, condition |-> c.local, body |-> body.block])))

LowerReturn(st, return) ==
    Then(LowerTree(st, return.value), LAMBDA v :
    IF st.context = "function" THEN Emit(v, [do |-> "return", expr |-> v.ret])
    ELSE Emit(Complain(v, IF st.context = "comptime" THEN "return in comptime" ELSE "return outside function", ""),
              [do |-> "eval", expr |-> v.ret]))

LowerStatement(st, s) ==
    CASE s.is = "let" /\ s.comptime -> LeaveComptime(st, CloseUnscoped(st, LowerLet(EnterComptime(st), s)), "let")
      [] s.is = "let" /\ ~s.comptime -> LowerLet(st, s)
      [] s.is = "eval" -> Then(LowerTree(st, s.value), LAMBDA v : Emit(v, [do |-> "eval", expr |-> v.ret]))
      [] s.is = "return" -> LowerReturn(st, s)
      [] s.is = "assign" -> LowerAssign(st, s)
      [] s.is = "while" -> LowerWhile(st, s)
      [] s.is = "no statement" -> st

IsStatement(t) == t.is \in {"let", "eval", "return", "assign", "while", "no statement"}
LowerTree(st, t) == IF IsStatement(t) THEN LowerStatement(st, t) ELSE LowerExpr(st, t)

-----------------------------------------------------------------------------
(* A constant's result is a local outside the scope of its block.          *)
LowerConst(st, def) ==
    Then(AllocTemp(st), LAMBDA result :
    Then(CloseBlock(result,
            Then(IF def.type = Missing THEN [result EXCEPT !.local = 0] ELSE ExprToLocal(result, def.type), LAMBDA type :
            Then(LowerTree(type, def.value), LAMBDA v : Emit(v, Set(result.local, type.local, v.ret))))), LAMBDA s :
    [s EXCEPT !.ret = [body |-> s.block, result |-> result.local]]))

LowerEntryPoint(st, def) ==
    Then(BodyBlock(st, def.body), LAMBDA s : [s EXCEPT !.ret = [body |-> s.block, result |-> 0]])

(* reset_scope asserts that nothing was left behind.                       *)
Balanced(st) ==
    /\ Depth(st) = 1 /\ st.context = "outside function"
    /\ \A buffer \in {st.instrs, st.locals, st.fields, st.methods, st.params} : buffer = <<>>
ResetScope(st) ==
    [st EXCEPT !.frames = <<NewFrame>>, !.panicked = @ \/ ~Balanced(st)]
LowerDefinition(st, def) ==
    IF def.kind = "const" THEN LowerConst(ResetScope(st), def) ELSE LowerEntryPoint(ResetScope(st), def)
=============================================================================

---------------------------- MODULE RuntimeEval ----------------------------
(***************************************************************************)
(* The evaluation of HIR into MIR (hir-eval): what is known at compile     *)
(* time is computed, the rest is emitted.  An operator takes the state of  *)
(* the evaluator and gives the next; `out` is the value of an expression,  *)
(* `over` says how control left the block (the Diverge of the code), and   *)
(* `block` and `left` are the block made last and how control left that.   *)
(* The state of a scope: what its locals are bound to, the types of its    *)
(* MIR locals, and where it is.  Branch quotas and the cache of evaluated  *)
(* calls are those of ComptimeEval.                                        *)
(***************************************************************************)
EXTENDS Mir, FiniteSets

CONSTANTS
    MemberNames,  \* names of fields
    MethodNames   \* names of methods

(* What a local is bound to, and what an expression is.                    *)
Comptime(value) == [comptime |-> value]
Runtime(local) == [runtime |-> local]
Poisoned == [poisoned |-> TRUE]
Expr(expr, type) == [expr |-> expr, type |-> type]
IsComptime(x) == "comptime" \in DOMAIN x
IsRuntime(x) == "runtime" \in DOMAIN x
IsPoisoned(x) == x = Poisoned
NoResult == [is |-> "no result"]
InProgress == [fn |-> 0]

NewScope(st) ==
    [st EXCEPT !.bindings = <<>>, !.locals = <<>>, !.comptime = FALSE, !.branch = FALSE, !.depth = 0,
               !.returns = Poisoned]
BackIn(st, done) ==
    [done EXCEPT !.bindings = st.bindings, !.locals = st.locals, !.comptime = st.comptime,
                 !.branch = st.branch, !.depth = st.depth, !.returns = st.returns]
NewEvaluator(hir, definitions) ==
    [hir |-> hir, definitions |-> definitions, consts |-> <<>>, fns |-> <<>>, lowered |-> <<>>, folding |-> {}, errors |-> {}, panicked |-> FALSE,
     instrs |-> <<>>, block |-> <<>>, left |-> "",
     bindings |-> <<>>, locals |-> <<>>, comptime |-> FALSE, branch |-> FALSE, depth |-> 0, returns |-> Poisoned,
     over |-> "", result |-> NoResult, out |-> Poisoned]

(* One step after another; `Then` unless control has left the block.       *)
After(st, Rest(_)) == IF st.panicked THEN st ELSE Rest(st)
Then(st, Rest(_)) == IF st.panicked \/ st.over # "" THEN st ELSE Rest(st)
Gives(st, out) == [st EXCEPT !.out = out]
Complain(st, kind) == [st EXCEPT !.errors = @ \cup {kind}]
GivesPoison(st, kind) == Gives(Complain(st, kind), Poisoned)
Diverges(st, how) == [st EXCEPT !.over = how, !.result = NoResult]
DivergesPoisoned(st, kind) == Diverges(Complain(st, kind), "poisoned")
Panic(st) == [st EXCEPT !.panicked = TRUE]

Emit(st, instr) == [st EXCEPT !.instrs = Append(@, instr), !.panicked = @ \/ st.comptime]
(* A new MIR local, the last one, set to an expression.                    *)
EmitNew(st, type, expr) ==
    Emit([st EXCEPT !.locals = Append(@, type)], Set(Len(st.locals) + 1, expr))
Newest(st) == Len(st.locals)

State(st, local) == st.bindings[local].state
BindAt(st, local, state, depth) ==
    [st EXCEPT !.bindings = (local :> [state |-> state, depth |-> depth]) @@ @]
Bind(st, local, state) == BindAt(st, local, state, 0)
StateType(st, state) == IF IsComptime(state) THEN state.comptime.of ELSE st.locals[state.runtime]
OutType(out) == IF IsComptime(out) THEN out.comptime.of ELSE out.type
OnlyComptime(x) == IsComptime(x) /\ ComptimeOnly(x.comptime.of)

-----------------------------------------------------------------------------
(* What a place asks of a value.                                           *)
ExpectType(st, local) ==
    LET state == State(st, local) IN
    CASE IsPoisoned(state) -> Gives(st, Poisoned)
      [] IsRuntime(state) -> GivesPoison(st, "type not comptime")
      [] IsComptime(state) -> IF state.comptime.of = Type THEN Gives(st, Comptime(state.comptime))
                              ELSE GivesPoison(st, "not a type")

ExpectComptime(st) == IF "expr" \in DOMAIN st.out THEN GivesPoison(st, "runtime value at comptime") ELSE st
(* value_to_runtime_expr                                                   *)
AsRuntime(st) ==
    CASE IsPoisoned(st.out) -> st
      [] OnlyComptime(st.out) -> GivesPoison(st, "comptime value at runtime")
      [] IsComptime(st.out) /\ ~OnlyComptime(st.out) -> Gives(st, Expr(Const(st.out.comptime), st.out.comptime.of))
      [] "expr" \in DOMAIN st.out -> st

CheckType(st, typeLocal) ==
    IF typeLocal = 0 \/ IsPoisoned(st.out) THEN st
    ELSE LET type == ExpectType(st, typeLocal) IN
         CASE IsPoisoned(type.out) -> type
           [] IsComptime(type.out) -> IF AssignableTo(OutType(st.out), type.out.comptime.type) THEN st
                                      ELSE GivesPoison(st, "type mismatch")

(* The value is kept in a MIR local of its own; what a local is bound to.  *)
Stored(st) ==
    IF IsPoisoned(st.out) THEN st
    ELSE Gives(EmitNew(st, st.out.type, st.out.expr), Runtime(Newest(st) + 1))
Settled(st) ==
    CASE st.comptime -> ExpectComptime(st)
      [] ~st.comptime /\ "expr" \in DOMAIN st.out -> Stored(st)
      [] ~st.comptime /\ "expr" \notin DOMAIN st.out -> st
Materialized(st) == IF st.comptime THEN ExpectComptime(st) ELSE Stored(AsRuntime(st))

(* materialize_as_local, for operands in order: the locals are st.out.     *)
MaterializeArgs(st, states) ==
    FoldLeft(LAMBDA acc, s :
                 IF IsRuntime(s) THEN Gives(acc, Append(acc.out, s.runtime))
                 ELSE Gives(EmitNew(acc, s.comptime.of, Const(s.comptime)), Append(acc.out, Newest(acc) + 1)),
             Gives(st, <<>>), states)

-----------------------------------------------------------------------------
(* Operations.                                                             *)
Signatures ==
    [add |-> [takes |-> <<U256, U256>>, gives |-> U256], iszero |-> [takes |-> <<U256>>, gives |-> Bool],
     bool_to_u256 |-> [takes |-> <<Bool>>, gives |-> U256],
     balance |-> [takes |-> <<U256>>, gives |-> U256], caller |-> [takes |-> <<>>, gives |-> U256],
     sstore |-> [takes |-> <<U256, U256>>, gives |-> VoidType], stop |-> [takes |-> <<>>, gives |-> Never],
     invalid |-> [takes |-> <<>>, gives |-> Never]]
Foldable == {"add", "iszero", "bool_to_u256"}

States(st, locals) == [i \in DOMAIN locals |-> State(st, locals[i])]
AnyPoisoned(states) == \E i \in DOMAIN states : IsPoisoned(states[i])
AllComptime(states) == \A i \in DOMAIN states : IsComptime(states[i])
MatchesSignature(st, op, states) ==
    /\ Len(states) = Len(Signatures[op].takes)
    /\ \A i \in DOMAIN states : AssignableTo(StateType(st, states[i]), Signatures[op].takes[i])

(* fold_runtime_builtin                                                    *)
Fold(op, words) ==
    CASE op = "add" -> Word((words[1] + words[2]) % WordCount)
      [] op = "iszero" -> Truth(words[1] = 0)
      [] op = "bool_to_u256" -> Word(words[1])

(* A call that does not return is emitted before the block is left.        *)
EmitBuiltin(st, op, states) ==
    After(MaterializeArgs(st, states), LAMBDA s :
    IF Signatures[op].gives = Never THEN Diverges(EmitNew(s, Never, Builtin(op, s.out)), "end")
    ELSE Gives(s, Expr(Builtin(op, s.out), Signatures[op].gives)))

EvalFoldable(st, op, states) ==
    CASE AnyPoisoned(states) -> Gives(st, Poisoned)
      [] ~AnyPoisoned(states) /\ ~MatchesSignature(st, op, states) -> GivesPoison(st, "no matching signature")
      [] OTHER -> IF AllComptime(states) THEN Gives(st, Comptime(Fold(op, [i \in DOMAIN states |-> states[i].comptime.word])))
                  ELSE IF st.comptime THEN GivesPoison(st, "runtime reference in comptime")
                  ELSE EmitBuiltin(st, op, states)

EvalRuntimeOnly(st, op, states) ==
    LET wrong == AnyPoisoned(states) \/ ~MatchesSignature(st, op, states)
        said == IF wrong /\ ~AnyPoisoned(states) THEN Complain(st, "no matching signature") ELSE st
        never == Signatures[op].gives = Never
    IN CASE st.comptime -> IF never THEN DivergesPoisoned(said, "runtime builtin in comptime")
                           ELSE GivesPoison(said, "runtime builtin in comptime")
         [] ~st.comptime /\ wrong -> IF never THEN Diverges(said, "end") ELSE Gives(said, Poisoned)
         [] ~st.comptime /\ ~wrong -> EmitBuiltin(st, op, states)

EvalNot(st, state) ==
    CASE IsPoisoned(state) -> Gives(st, Poisoned)
      [] ~IsPoisoned(state) /\ ~AssignableTo(StateType(st, state), Bool) -> GivesPoison(st, "not a bool")
      [] OTHER -> IF IsRuntime(state) THEN Gives(st, Expr(Builtin("iszero", <<state.runtime>>), Bool))
                  ELSE Gives(st, Comptime(Truth(state.comptime.word = 0)))

(* Tuples and structs.                                                     *)
TypesOf(st, locals) ==
    FoldLeft(LAMBDA acc, l :
                 LET t == ExpectType(acc, l)
                 IN Gives(t, IF IsPoisoned(t.out) \/ IsPoisoned(acc.out) THEN Poisoned
                             ELSE [types |-> Append(acc.out.types, t.out.comptime.type)]),
             Gives(st, [types |-> <<>>]), locals)
EvalTupleType(st, locals) ==
    LET done == TypesOf(st, locals)
    IN IF IsPoisoned(done.out) THEN done ELSE Gives(done, Comptime(TypeValue(Tuple(done.out.types))))

(* A literal of known parts is a value; of others the parts are gathered   *)
(* in locals, and a part known only to the compiler has no place there.    *)
Literal(st, type, states) ==
    CASE AnyPoisoned(states) -> Gives(st, Poisoned)
      [] ~AnyPoisoned(states) /\ AllComptime(states) ->
            Gives(st, Comptime(Compound(type, [i \in DOMAIN states |-> states[i].comptime])))
      [] ~AnyPoisoned(states) /\ ~AllComptime(states) ->
            IF st.comptime THEN GivesPoison(st, "runtime reference in comptime")
            ELSE IF \E i \in DOMAIN states : OnlyComptime(states[i]) THEN GivesPoison(st, "comptime and runtime parts")
            ELSE LET parts == MaterializeArgs(st, states) IN Gives(parts, Expr(CompoundLit(type, parts.out), type))
EvalTuple(st, states) ==
    Literal(st, IF AnyPoisoned(states) THEN VoidType ELSE Tuple([i \in DOMAIN states |-> StateType(st, states[i])]), states)

EvalStructLit(st, e) ==
    LET type == ExpectType(st, e.type)
        struct == type.out.comptime.type
        names == [i \in DOMAIN e.fields |-> e.fields[i].name]
        at(name) == CHOOSE i \in DOMAIN names : names[i] = name
        states == [i \in DOMAIN struct.names |-> State(st, e.fields[at(struct.names[i])].value)]
    IN CASE IsPoisoned(type.out) -> type
         [] IsComptime(type.out) /\ (IsPrim(struct) \/ ~IsStruct(struct)) -> GivesPoison(st, "not a struct")
         [] OTHER ->
            IF Len(names) # Len(struct.names) \/ ToSet(names) # ToSet(struct.names) THEN GivesPoison(st, "fields of literal")
            ELSE IF \E i \in DOMAIN states :
                        ~IsPoisoned(states[i]) /\ ~AssignableTo(StateType(st, states[i]), struct.fields[i])
                 THEN GivesPoison(st, "type mismatch")
            ELSE Literal(st, struct, states)

MethodOf(struct, name) == CHOOSE i \in DOMAIN struct.methods : struct.methods[i].name = name
HasMethod(type, name) ==
    ~IsPrim(type) /\ IsStruct(type) /\ \E i \in DOMAIN type.methods : type.methods[i].name = name
BoundMethod(struct, name) ==
    LET m == struct.methods[MethodOf(struct, name)]
    IN [m.closure EXCEPT !.self = [local |-> m.self, type |-> struct]]

EvalMember(st, state, name) ==
    LET type == StateType(st, state)
        index == CHOOSE i \in DOMAIN type.names : type.names[i] = name
    IN CASE IsPoisoned(state) -> Gives(st, Poisoned)
         [] ~IsPoisoned(state) /\ (IsPrim(type) \/ ~IsStruct(type)) -> GivesPoison(st, "member of no struct")
         [] OTHER -> IF name \notin ToSet(type.names) THEN GivesPoison(st, "unknown field")
                     ELSE IF IsComptime(state) THEN Gives(st, Comptime(state.comptime.parts[index]))
                     ELSE Gives(st, Expr(Field(state.runtime, index), type.fields[index]))

(* A function keeps the values around it, which must be known.             *)
EvalFnDef(st, fn) ==
    LET captures == st.hir.fns[fn].captures
        states == [i \in DOMAIN captures |-> State(st, captures[i].outer)]
    IN IF \E i \in DOMAIN states : IsRuntime(states[i]) THEN GivesPoison(st, "capture not comptime")
       ELSE IF AnyPoisoned(states) THEN Gives(st, Poisoned)
       ELSE Gives(st, Comptime([of |-> Function, fn |-> fn, self |-> NoResult,
                                caught |-> [i \in DOMAIN states |-> states[i].comptime]]))

ClosuresOf(st, methods) ==
    FoldLeft(LAMBDA acc, m :
                 After(EvalFnDef(acc, m.fn), LAMBDA c :
                 Gives(c, IF IsPoisoned(acc.out) \/ IsPoisoned(c.out) THEN Poisoned
                          ELSE [made |-> Append(acc.out.made, [name |-> m.name, closure |-> c.out.comptime, self |-> m.self])])),
             Gives(st, [made |-> <<>>]), methods)
EvalStructDef(st, def) ==
    LET struct == st.hir.structs[def]
        index == State(st, struct.index)
        names == [i \in DOMAIN struct.fields |-> struct.fields[i].name]
        values == [i \in DOMAIN struct.fields |-> struct.fields[i].value]
    IN After(TypesOf(IF IsRuntime(index) THEN Complain(st, "type index not comptime") ELSE st, values), LAMBDA types :
       IF IsPoisoned(types.out) THEN types
       ELSE IF Cardinality(ToSet(names)) # Len(names) THEN GivesPoison(types, "duplicate field")
       ELSE After(ClosuresOf(types, struct.methods), LAMBDA s :
            IF IsPoisoned(s.out) \/ ~IsComptime(index) THEN Gives(s, Poisoned)
            ELSE Gives(s, Comptime(TypeValue([struct |-> def, index |-> index.comptime, names |-> names,
                                              fields |-> types.out.types, methods |-> s.out.made])))))

-----------------------------------------------------------------------------
(* Blocks.  What was emitted since `st` becomes a block, and how control   *)
(* left it is kept apart from how it leaves the block around it.           *)
RECURSIVE EvalBlock(_, _), EvalComptimeWhile(_, _), EvalInlineWhile(_, _)

Extract(st, done) ==
    [done EXCEPT !.block = SubSeq(done.instrs, Len(st.instrs) + 1, Len(done.instrs)),
                 !.instrs = st.instrs, !.left = done.over, !.over = ""]
InComptime(st, Inner(_)) == [Inner([st EXCEPT !.comptime = TRUE]) EXCEPT !.comptime = st.comptime]
Controlled(st, branch, block) ==
    [EvalBlock([st EXCEPT !.branch = branch, !.depth = @ + 1], block) EXCEPT !.branch = st.branch, !.depth = st.depth]
ToBlock(st, branch, block) == Extract(st, Controlled(st, branch, block))

(* Mutation: control leaves both branches if it leaves one. *)
Join_Either(first, second) ==
    CASE "poisoned" \in {first, second} -> "poisoned"
      [] "poisoned" \notin {first, second} /\ "end" \in {first, second} -> "end"
      [] OTHER -> ""

(* join_branch_results                                                     *)
Join(first, second) ==
    CASE "poisoned" \in {first, second} -> "poisoned"
      [] first = "end" /\ second = "end" -> "end"
      [] OTHER -> ""
Leaves(st, how) == IF how = "" THEN st ELSE Diverges(st, how)

-----------------------------------------------------------------------------
(* Calls.  The scope of the function called: what it captured, the type it *)
(* is a method of, and its arguments, of which those known to the caller   *)
(* only are parameters of the MIR function.                                *)
BindArg(st, caller, param, arg, eager) ==
    LET known == param.comptime \/ caller.comptime \/ eager \/ OnlyComptime(arg) IN
    IF IsPoisoned(arg) \/ (IsComptime(arg) /\ known) THEN Bind(st, param.arg, arg)
    ELSE LET s == [st EXCEPT !.locals = Append(@, StateType(caller, arg))] IN Bind(s, param.arg, Runtime(Newest(s)))

EnterFn(st, closure, args, eager) ==
    LET fn == st.hir.fns[closure.fn]
        caught == FoldLeft(LAMBDA acc, i : Bind(acc, fn.captures[i].inner, Comptime(closure.caught[i])),
                           NewScope(st), [i \in DOMAIN fn.captures |-> i])
        self == IF closure.self = NoResult THEN caught
                ELSE Bind(caught, closure.self.local, Comptime(TypeValue(closure.self.type)))
    IN FoldLeft(LAMBDA acc, i : BindArg(acc, st, fn.params[i], args[i], eager), self, [i \in DOMAIN args |-> i])

EvalParam(st, param) ==
    LET arg == State(st, param.arg)
        type == ExpectType(st, param.type)
    IN CASE param.any -> Bind(st, param.type, IF IsPoisoned(arg) THEN Poisoned ELSE Comptime(TypeValue(StateType(st, arg))))
         [] ~param.any /\ param.type = 0 -> Bind(st, param.arg, Poisoned)
         [] ~param.any /\ param.type # 0 ->
               IF IsPoisoned(type.out) THEN Bind(type, param.arg, Poisoned)
               ELSE IF IsPoisoned(arg) \/ AssignableTo(StateType(st, arg), type.out.comptime.type) THEN type
               ELSE Bind(Complain(type, "argument type"), param.arg, Poisoned)

EvalPreamble(scope, fn) ==
    LET done == InComptime(scope, LAMBDA s : EvalBlock(s, fn.preamble)) IN
    IF done.over # "" THEN done
    ELSE LET type == ExpectType(done, fn.returns) IN [type EXCEPT !.returns = type.out]
ReturnsType(scope, type) == scope.returns = Comptime(TypeValue(type))
ReturnsComptimeOnly(scope) == IsComptime(scope.returns) /\ ComptimeOnly(scope.returns.comptime.type)

(* What a call is remembered by.                                           *)
Key(scope, fn, args) ==
    FlattenSeq([i \in DOMAIN args |->
        LET state == State(scope, fn.params[i].arg) IN
        CASE ~IsRuntime(state) -> <<state>>
          [] IsRuntime(state) /\ IsComptime(args[i]) /\ ReturnsComptimeOnly(scope) -> <<args[i]>>
          [] OTHER -> IF fn.params[i].any THEN <<State(scope, fn.params[i].type)>> ELSE <<>>])

(* A call that is poisoned does not return if the function says so.        *)
SuppressPoison(st, scope) == IF ReturnsType(scope, Never) THEN Diverges(st, "end") ELSE Gives(st, Poisoned)

(* The call is computed: its arguments are known in the body, also those   *)
(* the scope has in locals.                                                *)
KnownArgs(scope, fn, args) ==
    FoldLeft(LAMBDA acc, i : IF IsPoisoned(State(acc, fn.params[i].arg)) THEN acc ELSE Bind(acc, fn.params[i].arg, args[i]),
             scope, [i \in DOMAIN args |-> i])
EndFold(back, scope, how, result) ==
    CASE how = "" -> Panic(back)
      [] how = "poisoned" -> SuppressPoison(back, scope)
      [] how = "end" -> IF result = NoResult THEN Diverges(back, "end") ELSE Gives(back, Comptime(result))

FoldCall(st, scope, closure, args) ==
    LET fn == st.hir.fns[closure.fn]
        entry == <<closure, Key(scope, fn, args)>>
        open == {i \in DOMAIN args : ~fn.params[i].comptime /\ ~IsComptime(args[i])}
    IN CASE IsPoisoned(scope.returns) -> Gives(BackIn(st, scope), Poisoned)
         [] ~IsPoisoned(scope.returns) /\ entry \in st.folding -> GivesPoison(BackIn(st, scope), "infinite comptime recursion")
         [] ~IsPoisoned(scope.returns) /\ entry \notin st.folding ->
               IF open # {} THEN Gives(IF \A i \in open : IsPoisoned(args[i]) THEN BackIn(st, scope)
                                       ELSE Complain(BackIn(st, scope), "comptime-only return with runtime argument"), Poisoned)
               ELSE After(InComptime(KnownArgs([scope EXCEPT !.folding = @ \cup {entry}], fn, args),
                                     LAMBDA s : EvalBlock(s, fn.body)), LAMBDA done :
                    EndFold([BackIn(st, done) EXCEPT !.folding = st.folding, !.over = "", !.result = NoResult],
                            scope, done.over, done.result))

(* The function is lowered once for what it is remembered by; it may not   *)
(* be called while it is being lowered.                                    *)
Remember(st, entry, lowered) == [st EXCEPT !.lowered = (entry :> lowered) @@ @]
AddFn(st, params, returns) ==
    [st EXCEPT !.fns = Append(@, [body |-> st.block, params |-> params, locals |-> st.locals, returns |-> returns])]
EndLowering(st, scope, entry, params) ==
    CASE st.left = "" -> Panic(st)
      [] st.left = "poisoned" \/ IsPoisoned(scope.returns) -> Remember(st, entry, Poisoned)
      [] st.left = "end" /\ IsComptime(scope.returns) ->
            After(AddFn(st, params, scope.returns.comptime.type), LAMBDA s :
            IF IsPoisoned(s.lowered[entry]) THEN s ELSE Remember(s, entry, [fn |-> Len(s.fns)]))
LowerFnOnce(scope, entry, fn) ==
    LET begun == Remember(scope, entry, InProgress)
        params == Len(SelectSeq(fn.params, LAMBDA p : IsRuntime(State(scope, p.arg))))
    IN EndLowering(Extract(begun, EvalBlock(begun, fn.body)), scope, entry, params)

LowerCallAtSite(st, lowered, fn, args) ==
    LET passed == SelectSeq([i \in DOMAIN args |-> i],
                            LAMBDA i : IsRuntime(args[i]) \/ (~fn.params[i].comptime /\ ~OnlyComptime(args[i])))
        s == MaterializeArgs(st, [k \in DOMAIN passed |-> args[passed[k]]])
        call == Call(lowered.fn, s.out)
        returns == st.fns[lowered.fn].returns
    IN IF returns = Never THEN Diverges(EmitNew(s, Never, call), "end") ELSE Gives(s, Expr(call, returns))

CallLowered(st, scope, entry, fn, args) ==
    CASE st.lowered[entry] = InProgress -> DivergesPoisoned(Remember(st, entry, Poisoned), "recursion at run time")
      [] st.lowered[entry] = Poisoned -> SuppressPoison(st, scope)
      [] OTHER -> IF AnyPoisoned(args) THEN SuppressPoison(st, scope) ELSE LowerCallAtSite(st, st.lowered[entry], fn, args)
LowerCall(st, scope, closure, args) ==
    LET fn == st.hir.fns[closure.fn]
        entry == <<closure, Key(scope, fn, args)>>
    IN After(IF entry \in DOMAIN scope.lowered THEN scope ELSE LowerFnOnce(scope, entry, fn), LAMBDA s :
       CallLowered(BackIn(st, s), scope, entry, fn, args))

EvalCall(st, closure, args) ==
    LET fn == st.hir.fns[closure.fn]
        eager == fn.eager /\ AllComptime(args)
    IN CASE Len(args) # Len(fn.params) -> GivesPoison(st, "argument count")
         [] Len(args) = Len(fn.params) /\ \E i \in DOMAIN args : IsRuntime(args[i]) /\ (fn.params[i].comptime \/ st.comptime) ->
               GivesPoison(st, "comptime parameter got runtime value")
         [] OTHER ->
               After(EvalPreamble(EnterFn(st, closure, args, eager), fn), LAMBDA scope :
               IF scope.over # "" THEN Gives([BackIn(st, scope) EXCEPT !.over = "", !.result = NoResult], Poisoned)
               ELSE IF st.comptime \/ eager \/ ReturnsComptimeOnly(scope) THEN FoldCall(st, scope, closure, args)
               ELSE LowerCall(st, scope, closure, args))

EvalCallExpr(st, callee, args) ==
    CASE IsPoisoned(callee) -> Gives(st, Poisoned)
      [] IsRuntime(callee) -> GivesPoison(st, "call target not comptime")
      [] IsComptime(callee) -> IF callee.comptime.of = Function THEN EvalCall(st, callee.comptime, args)
                               ELSE GivesPoison(st, "not callable")

(* A method of an instance takes it as its first argument, one of the type *)
(* does not.                                                               *)
EvalMethodCall(st, receiver, name, args) ==
    LET ofType == IsComptime(receiver) /\ receiver.comptime.of = Type
        type == IF ofType THEN receiver.comptime.type ELSE StateType(st, receiver)
    IN CASE IsPoisoned(receiver) -> Gives(st, Poisoned)
         [] ~IsPoisoned(receiver) /\ ~HasMethod(type, name) -> GivesPoison(st, "unknown method")
         [] OTHER -> EvalCall(st, BoundMethod(type, name), IF ofType THEN args ELSE <<receiver>> \o args)

-----------------------------------------------------------------------------
(* Expressions.                                                            *)
Numerals == <<"0", "1", "2", "3">>
ValueOf(v) ==
    CASE v \in {"true", "false"} -> Truth(v = "true")
      [] v = "void" -> Void
      [] v \in {"u256", "bool", "type", "never", "function"} -> TypeValue(Prim(v))
      [] v \in ToSet(Numerals) -> Word(CHOOSE i \in 0 .. Len(Numerals) - 1 : Numerals[i + 1] = v)

EvalApply(st, op, args) ==
    LET states == States(st, args) IN
    CASE op = "call" -> EvalCallExpr(st, states[1], Tail(states))
      [] op = "!" -> EvalNot(st, states[1])
      [] op = "tuple" -> EvalTuple(st, states)
      [] op = "tuple type" -> EvalTupleType(st, args)
      [] op \in MemberNames -> EvalMember(st, states[1], op)
      [] op \in MethodNames -> EvalMethodCall(st, states[1], op, Tail(states))
      [] op \in Foldable -> EvalFoldable(st, op, states)
      [] op \in DOMAIN Signatures \ Foldable -> EvalRuntimeOnly(st, op, states)

(* A constant is evaluated once, for its first use or on its own.          *)
KeepConst(st, const, value) ==
    Gives([st EXCEPT !.consts[const] = IF @ = InProgress THEN value ELSE Poisoned, !.over = "", !.result = NoResult], value)
EvaluateConst(st, const) ==
    LET def == st.definitions[const] IN
    CASE const \notin DOMAIN st.consts ->
            After(EvalBlock([NewScope(st) EXCEPT !.comptime = TRUE, !.consts = (const :> InProgress) @@ @], def.body), LAMBDA done :
            KeepConst(BackIn(st, done), const, IF done.over # "" THEN Poisoned ELSE State(done, def.result)))
      [] const \in DOMAIN st.consts /\ st.consts[const] = InProgress ->
            GivesPoison([st EXCEPT !.consts[const] = Poisoned], "constant cycle")
      [] OTHER -> Gives(st, st.consts[const])

EvalExpr(st, e) ==
    CASE e.is = "value" -> Gives(st, Comptime(ValueOf(e.value)))
      [] e.is = "const" -> EvaluateConst(st, e.const)
      [] e.is = "poison" -> Gives(st, Poisoned)
      [] e.is = "local" ->
            LET state == State(st, e.local)
            IN Gives(st, IF IsRuntime(state) THEN Expr(LocalRef(state.runtime), st.locals[state.runtime]) ELSE state)
      [] e.is = "fn" -> EvalFnDef(st, e.fn)
      [] e.is = "struct" -> EvalStructDef(st, e.def)
      [] e.is = "literal" -> EvalStructLit(st, e)
      [] e.is = "apply" -> EvalApply(st, e.op, e.args)

-----------------------------------------------------------------------------
(* Instructions.                                                           *)
EvalSet(st, i) ==
    Then(EvalExpr(st, i.expr), LAMBDA v : LET s == Settled(CheckType(v, i.type)) IN Bind(s, i.local, s.out))
(* A local that may change is in a MIR local from the start; one that only *)
(* changes at compile time knows how deep under runtime control it was.    *)
EvalSetMut(st, i) ==
    Then(EvalExpr(st, i.expr), LAMBDA v :
    LET s == Materialized(CheckType(v, i.type)) IN BindAt(s, i.local, s.out, IF i.comptime THEN st.depth + 1 ELSE 0))

(* The result of a branch: the first to give one makes the local, which is *)
(* given the results of the others.                                        *)
JoinResult(st, local, previous) ==
    CASE IsPoisoned(st.out) \/ IsPoisoned(previous) -> Gives(st, Poisoned)
      [] ~IsPoisoned(st.out) /\ IsRuntime(previous) ->
            IF st.locals[previous.runtime] # st.out.type THEN GivesPoison(st, "incompatible branch types")
            ELSE Gives(Emit(st, Set(previous.runtime, st.out.expr)), previous)
      [] ~IsPoisoned(st.out) /\ IsComptime(previous) -> Panic(st)
EvalBranchSet(st, i) ==
    IF ~st.branch THEN EvalSet(st, i)
    ELSE Then(EvalExpr(st, i.expr), LAMBDA v :
         LET s == IF v.comptime THEN ExpectComptime(v)
                  ELSE IF i.local \notin DOMAIN v.bindings THEN Stored(AsRuntime(v))
                  ELSE JoinResult(AsRuntime(v), i.local, State(v, i.local))
         IN Bind(s, i.local, s.out))

Rebind(st, local, state) == BindAt(st, local, state, st.bindings[local].depth)
AssignTo(st, local, state) ==
    LET checked == IF AssignableTo(OutType(st.out), StateType(st, state)) THEN st ELSE Complain(st, "type mismatch")
        known == ExpectComptime(checked)
        stored == AsRuntime(checked)
    IN CASE IsPoisoned(st.out) \/ IsPoisoned(state) -> Gives(st, Poisoned)
         [] ~IsPoisoned(st.out) /\ IsRuntime(state) ->
               IF st.comptime THEN GivesPoison(known, "runtime reference in comptime")
               ELSE IF IsPoisoned(stored.out) THEN stored
               ELSE Gives(Emit(stored, Set(state.runtime, stored.out.expr)), state)
         [] ~IsPoisoned(st.out) /\ IsComptime(state) ->
               IF ~st.comptime THEN Panic(st)
               ELSE IF checked.errors # st.errors THEN Gives(known, Poisoned) ELSE known
(* Mutation: what is known at compile time may change in a branch taken at run time. *)
EvalAssign_AnyDepth(st, i) ==
    Then(EvalExpr(st, i.expr), LAMBDA v :
    LET s == AssignTo(v, i.local, st.bindings[i.local].state) IN Rebind(s, i.local, s.out))

EvalAssign(st, i) ==
    LET binding == st.bindings[i.local] IN
    IF binding.depth \notin {0, st.depth + 1}
    THEN Rebind(Complain(st, "comptime assignment under runtime control"), i.local, Poisoned)
    ELSE Then(EvalExpr(st, i.expr), LAMBDA v :
         LET s == AssignTo(v, i.local, binding.state) IN Rebind(s, i.local, s.out))

(* A value nobody wants is computed for what it does.                      *)
EvalStatement(st, i) ==
    Then(EvalExpr(st, i.expr), LAMBDA v :
    CASE v.comptime -> ExpectComptime(v)
      [] ~v.comptime /\ "expr" \in DOMAIN v.out -> Stored(v)
      [] ~v.comptime /\ "expr" \notin DOMAIN v.out -> v)

EvalReturn(st, i) ==
    Then(EvalExpr(st, i.expr), LAMBDA v :
    LET wrong == IsComptime(v.returns) /\ ~IsPoisoned(v.out) /\ ~AssignableTo(OutType(v.out), v.returns.comptime.type)
        s == IF v.comptime THEN ExpectComptime(v) ELSE Stored(AsRuntime(v))
    IN CASE wrong -> DivergesPoisoned(v, "return type")
         [] ~wrong /\ IsPoisoned(s.out) -> Diverges(s, "poisoned")
         [] ~wrong /\ IsComptime(s.out) -> [Diverges(s, "end") EXCEPT !.result = s.out.comptime]
         [] ~wrong /\ IsRuntime(s.out) -> Diverges(Emit(s, Return(s.out.runtime)), "end"))

Unbind(st, local) == [st EXCEPT !.bindings = [l \in DOMAIN @ \ {local} |-> @[l]]]
EvalIf(st, i) ==
    LET condition == State(st, i.condition)
        fresh == Unbind(st, i.result)
    IN CASE IsPoisoned(condition) -> Diverges(fresh, "poisoned")
         [] ~IsPoisoned(condition) /\ ~AssignableTo(StateType(st, condition), Bool) -> DivergesPoisoned(fresh, "condition not a bool")
         [] OTHER ->
               IF IsComptime(condition) THEN EvalBlock(fresh, IF condition.comptime = Truth(TRUE) THEN i.yes ELSE i.no)
               ELSE IF st.comptime THEN DivergesPoisoned(fresh, "runtime value at comptime")
               ELSE After(ToBlock(fresh, TRUE, i.yes), LAMBDA yes :
                    After(ToBlock(yes, TRUE, i.no), LAMBDA no :
                    Leaves(Emit(no, If(condition.runtime, yes.block, no.block)), Join(yes.left, no.left))))

(* The keys of a match are words, each once.                               *)
MatchKeys(st, arms) ==
    FoldLeft(LAMBDA acc, arm :
                 LET state == State(acc, arm.key)
                     skipped == Gives(acc, Append(acc.out, Poisoned))
                 IN CASE IsPoisoned(state) -> skipped
                      [] IsRuntime(state) -> Panic(acc)
                      [] IsComptime(state) ->
                            IF state.comptime.of # U256 THEN Complain(skipped, "unsupported match value")
                            ELSE IF state \in ToSet(acc.out) THEN Complain(skipped, "duplicate match key")
                            ELSE Gives(acc, Append(acc.out, state)),
             Gives(st, <<>>), arms)
AddArm(acc, key, st) ==
    [st |-> st, left |-> Join(acc.left, st.left),
     made |-> IF IsPoisoned(key) THEN acc.made ELSE Append(acc.made, [key |-> key.comptime.word, body |-> st.block])]
MatchArms(st, arms, keys) ==
    FoldLeft(LAMBDA acc, a : AddArm(acc, keys[a], ToBlock(acc.st, TRUE, arms[a].body)),
             [st |-> st, left |-> "end", made |-> <<>>], [a \in DOMAIN arms |-> a])
EndMatch(st, subject, arms, keys) ==
    IF AnyPoisoned(keys) THEN Diverges(st, "poisoned")
    ELSE Leaves(Emit(st, Match(subject.runtime, arms.made, st.block)), Join(arms.left, st.left))
EvalArms(st, i, subject, keys, arms) == EndMatch(ToBlock(arms.st, TRUE, i.fallback), subject, arms, keys)

EvalMatch(st, i) ==
    LET subject == State(st, i.subject)
        hits(keys) == {a \in DOMAIN keys : keys[a] = subject}
    IN CASE IsPoisoned(subject) -> Diverges(st, "poisoned")
         [] ~IsPoisoned(subject) /\ ~AssignableTo(StateType(st, subject), U256) -> DivergesPoisoned(st, "unsupported match value")
         [] OTHER ->
               After(MatchKeys(Unbind(st, i.result), i.arms), LAMBDA keyed :
               IF IsRuntime(subject) THEN EvalArms(keyed, i, subject, keyed.out, MatchArms(keyed, i.arms, keyed.out))
               ELSE IF AnyPoisoned(keyed.out) THEN Diverges(keyed, "poisoned")
               ELSE EvalBlock(keyed, IF hits(keyed.out) = {} THEN i.fallback
                                     ELSE i.arms[CHOOSE a \in hits(keyed.out) : TRUE].body))

(* Loops.  The condition of a loop at run time is a block of its own,      *)
(* which ends in a local with the condition: `out`.                        *)
TestRuntime(st, i) ==
    Then(Controlled(st, FALSE, i.first), LAMBDA s :
    LET condition == State(s, i.condition) IN
    CASE IsPoisoned(condition) -> Diverges(s, "poisoned")
      [] ~IsPoisoned(condition) /\ ~AssignableTo(StateType(s, condition), Bool) -> DivergesPoisoned(s, "condition not a bool")
      [] OTHER -> MaterializeArgs(s, <<condition>>))
EvalRuntimeWhile(st, i) ==
    After(Extract(st, TestRuntime(st, i)), LAMBDA tested :
    IF tested.left # "" THEN Leaves(tested, tested.left)
    ELSE After(ToBlock(tested, FALSE, i.body), LAMBDA body :
         IF body.left = "poisoned" THEN Diverges(body, "poisoned")
         ELSE Emit(body, While(tested.block, tested.out[1], body.block))))

ComptimeCondition(st, local) ==
    LET condition == State(st, local) IN
    CASE IsPoisoned(condition) -> Diverges(st, "poisoned")
      [] IsRuntime(condition) -> DivergesPoisoned(st, "runtime value at comptime")
      [] IsComptime(condition) -> IF condition.comptime.of = Bool THEN Gives(st, condition)
                                  ELSE DivergesPoisoned(st, "condition not a bool")
Holds(st) == st.out = Comptime(Truth(TRUE))
EvalComptimeWhile(st, i) ==
    Then(EvalBlock(st, i.first), LAMBDA tested :
    Then(ComptimeCondition(tested, i.condition), LAMBDA c :
    IF ~Holds(c) THEN c ELSE Then(EvalBlock(c, i.body), LAMBDA s : EvalComptimeWhile(s, i))))
EvalInlineWhile(st, i) ==
    Then(InComptime(st, LAMBDA s : Then(EvalBlock(s, i.first), LAMBDA tested : ComptimeCondition(tested, i.condition))), LAMBDA c :
    IF ~Holds(c) THEN c ELSE Then(EvalBlock(c, i.body), LAMBDA s : EvalInlineWhile(s, i)))

EvalWhile(st, i) ==
    CASE i.inline -> EvalInlineWhile(st, i)
      [] ~i.inline /\ st.comptime -> EvalComptimeWhile(st, i)
      [] ~i.inline /\ ~st.comptime -> EvalRuntimeWhile(st, i)

EvalInstr(st, i) ==
    CASE i.do = "set" -> EvalSet(st, i)
      [] i.do = "set mut" -> EvalSetMut(st, i)
      [] i.do = "branch set" -> EvalBranchSet(st, i)
      [] i.do = "assign" -> EvalAssign(st, i)
      [] i.do = "eval" -> EvalStatement(st, i)
      [] i.do = "return" -> EvalReturn(st, i)
      [] i.do = "comptime" -> InComptime(st, LAMBDA s : EvalBlock(s, i.block))
      [] i.do = "if" -> EvalIf(st, i)
      [] i.do = "match" -> EvalMatch(st, i)
      [] i.do = "while" -> EvalWhile(st, i)
      [] i.do = "param" -> EvalParam(st, i)

EvalBlock(st, block) ==
    FoldLeft(LAMBDA acc, i : Then(acc, LAMBDA s : EvalInstr(s, i)), st, st.hir.blocks[block])

-----------------------------------------------------------------------------
(* An entry point does not return, and may not come to its end.            *)
LowerEntrypoint(st, body) ==
    After(Extract(NewScope(st), EvalBlock(NewScope(st), body)), LAMBDA done :
    AddFn(IF done.left = "" THEN Complain(done, "missing terminator") ELSE done, 0, Never))
=============================================================================

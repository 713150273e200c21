-------------------------------- MODULE Mir --------------------------------
(***************************************************************************)
(* The intermediate representation MIR (mir/src/lib.rs): functions over    *)
(* typed locals whose blocks are nested, and what they do when run.        *)
(*                                                                         *)
(* A type is a record [prim], [tuple] or [struct, index, names, fields,    *)
(* methods]; a value knows its type.  Blocks, arguments and arms, which    *)
(* the code keeps in tables, are the sequences they denote.                *)
(***************************************************************************)
EXTENDS Naturals, Sequences, SequencesExt, TLC

CONSTANTS
    WordCount,  \* values of a word: 2^256 in the code
    Rounds,     \* bound on the rounds of the loops of a run
    CallerKind  \* what of the environment `caller` reads

Prim(name) == [prim |-> name]
U256 == Prim("u256")
Bool == Prim("bool")
Type == Prim("type")
Never == Prim("never")
Function == Prim("function")
Tuple(types) == [tuple |-> types]
VoidType == Tuple(<<>>)

IsPrim(type) == "prim" \in DOMAIN type
IsStruct(type) == "struct" \in DOMAIN type
Parts(type) == IF IsStruct(type) THEN type.fields ELSE type.tuple

RECURSIVE ComptimeOnly(_)
ComptimeOnly(type) ==
    IF IsPrim(type) THEN type \in {Type, Function} ELSE \E i \in DOMAIN Parts(type) : ComptimeOnly(Parts(type)[i])
AssignableTo(type, target) == type \in {target, Never}

Word(w) == [of |-> U256, word |-> w]
Truth(b) == [of |-> Bool, word |-> IF b THEN 1 ELSE 0]
TypeValue(type) == [of |-> Type, type |-> type]
Compound(type, parts) == [of |-> type, parts |-> parts]
Void == Compound(VoidType, <<>>)

(* Instructions and expressions.                                           *)
Set(target, expr) == [do |-> "set", target |-> target, expr |-> expr]
Return(local) == [do |-> "return", local |-> local]
If(condition, yes, no) == [do |-> "if", condition |-> condition, yes |-> yes, no |-> no]
Match(subject, arms, fallback) == [do |-> "match", subject |-> subject, arms |-> arms, fallback |-> fallback]
While(first, condition, body) == [do |-> "while", first |-> first, condition |-> condition, body |-> body]
LocalRef(local) == [is |-> "local", local |-> local]
Const(value) == [is |-> "const", value |-> value]
Call(callee, args) == [is |-> "call", callee |-> callee, args |-> args]
Builtin(op, args) == [is |-> "builtin", op |-> op, args |-> args]
CompoundLit(type, parts) == [is |-> "compound", type |-> type, parts |-> parts]
Field(object, index) == [is |-> "field", object |-> object, index |-> index]

-----------------------------------------------------------------------------
(* A run of a function in an environment: `trace` holds what it stored,    *)
(* `over` how it ended.                                                    *)
RECURSIVE RunMirBlock(_, _, _, _), RunMirFn(_, _, _, _, _)

NewRun == [locals |-> <<>>, trace |-> <<>>, over |-> "", out |-> Void, rounds |-> 0]
Reads(r, locals) == [i \in DOMAIN locals |-> r.locals[locals[i]]]
Results(r, value) == [r EXCEPT !.out = value]
Ends(r, how) == [r EXCEPT !.over = how]

(* What a builtin does with the words of its operands.                     *)
Builtins == {"add", "iszero", "balance", "caller", "sstore", "stop", "invalid", "bool_to_u256"}
RunBuiltin(r, env, op, words) ==
    CASE op = "add" -> Results(r, Word((words[1] + words[2]) % WordCount))
      [] op = "iszero" -> Results(r, Truth(words[1] = 0))
      [] op = "bool_to_u256" -> Results(r, Word(words[1]))
      [] op = "balance" -> Results(r, Word((env.balance + words[1]) % WordCount))
      [] op = "caller" -> Results(r, Word(env.evm[CallerKind]))
      [] op = "sstore" -> Results([r EXCEPT !.trace = Append(@, words)], Void)
      [] op \in {"stop", "invalid"} -> Ends(r, op)

RunExpr(r, env, fns, e) ==
    CASE e.is = "local" -> Results(r, r.locals[e.local])
      [] e.is = "const" -> Results(r, e.value)
      [] e.is = "call" -> RunMirFn(r, env, fns, e.callee, Reads(r, e.args))
      [] e.is = "builtin" -> RunBuiltin(r, env, e.op, [i \in DOMAIN e.args |-> r.locals[e.args[i]].word])
      [] e.is = "compound" -> Results(r, Compound(e.type, Reads(r, e.parts)))
      [] e.is = "field" -> Results(r, r.locals[e.object].parts[e.index])

RunWhile(r, env, fns, i) ==
    LET tested == RunMirBlock(r, env, fns, i.first) IN
    IF tested.over # "" \/ tested.locals[i.condition].word = 0 THEN tested
    ELSE IF tested.rounds = Rounds THEN Ends(tested, "endless")
    ELSE RunMirBlock([tested EXCEPT !.rounds = @ + 1], env, fns, Append(i.body, i))

RunInstr(r, env, fns, i) ==
    CASE i.do = "set" -> LET v == RunExpr(r, env, fns, i.expr)
                         IN IF v.over # "" THEN v ELSE [v EXCEPT !.locals = (i.target :> v.out) @@ @]
      [] i.do = "return" -> Ends(Results(r, r.locals[i.local]), "return")
      [] i.do = "if" -> RunMirBlock(r, env, fns, IF r.locals[i.condition].word = 1 THEN i.yes ELSE i.no)
      [] i.do = "match" -> LET hits == {a \in DOMAIN i.arms : i.arms[a].key = r.locals[i.subject].word}
                           IN RunMirBlock(r, env, fns, IF hits = {} THEN i.fallback ELSE i.arms[CHOOSE a \in hits : TRUE].body)
      [] i.do = "while" -> RunWhile(r, env, fns, i)

RunMirBlock(r, env, fns, block) ==
    FoldLeft(LAMBDA acc, i : IF acc.over # "" THEN acc ELSE RunInstr(acc, env, fns, i), r, block)

(* A function runs in locals of its own; one that comes to its end without *)
(* returning is not to be continued.                                       *)
RunMirFn(r, env, fns, f, args) ==
    LET done == RunMirBlock([r EXCEPT !.locals = [i \in DOMAIN args |-> args[i]]], env, fns, fns[f].body)
    IN [done EXCEPT !.locals = r.locals,
                    !.over = CASE done.over = "return" -> "" [] done.over = "" -> "invalid" [] OTHER -> done.over]

RunMir(mir, env, f) == RunMirFn(NewRun, env, mir.fns, f, <<>>)
=============================================================================

------------------------------ MODULE MCMiddle ------------------------------
(***************************************************************************)
(* Sources of an init block, with and without a run block and constants    *)
(* they share: three statements of a pool in every order, in the block     *)
(* itself and in a function called at run time or at compile time.         *)
(***************************************************************************)
EXTENDS MiddleEnd

Missing == [is |-> "nothing"]
V(v) == [is |-> "value", value |-> v]
N(name) == [is |-> "name", name |-> name]
B(op, args) == [is |-> "builtin call", name |-> op, args |-> args]
Op(op, args) == [is |-> "apply", op |-> op, args |-> args]
Call(args) == Op("call", args)
Tree(statements, end) == [is |-> "block", statements |-> statements, end |-> end]
Do(e) == [is |-> "eval", value |-> e]
Let(mutable, comptime, name, value) ==
    [is |-> "let", mutable |-> mutable, comptime |-> comptime, name |-> name, type |-> Missing, value |-> value]
Const(name, value) == [kind |-> "const", name |-> name, type |-> Missing, value |-> value]
Becomes(name, value) == [is |-> "assign", target |-> N(name), value |-> value]
Return(value) == [is |-> "return", value |-> value]
If(condition, yes, no) == [is |-> "if", condition |-> condition, yes |-> yes, branches |-> <<>>, no |-> no]
Match(subject, arms) == [is |-> "match", subject |-> subject, arms |-> arms]
Arm(key, binding, body) == [key |-> key, binding |-> binding, body |-> body]
While(inline, condition, statements) ==
    [is |-> "while", inline |-> inline, condition |-> condition, body |-> Tree(statements, Missing)]
Choice(is, left, right) == [is |-> is, left |-> left, right |-> right]
ComptimeBlock(statements, end) == [is |-> "comptime", body |-> Tree(statements, end)]
Param(comptime, name, type) == [name |-> name, type |-> type, comptime |-> comptime]
AnyType(name) == [is |-> "any", name |-> name]
Fn(params, returns, statements, end) ==
    [is |-> "fn", eager |-> FALSE, params |-> params, returns |-> returns, body |-> Tree(statements, end)]
Field(name, value) == [name |-> name, value |-> value]
Literal(type, fields) == [is |-> "literal", type |-> type, fields |-> fields]
Entry(kind, statements) == [kind |-> kind, body |-> Tree(statements, Missing)]

Store(k, v) == Do(B("sstore", <<k, v>>))
Stop == Do(B("stop", <<>>))
Caller == B("caller", <<>>)
Add(a, b) == B("add", <<a, b>>)
IsZero(a) == B("iszero", <<a>>)
Word == N("u256")
x == N("x")
y == N("y")
z == N("z")
p == N("p")
f == N("f")
g == N("g")
s == N("s")
T == N("T")

(* x may change, y and p are known at run time only, z at compile time.    *)
Point == [is |-> "struct", index |-> Missing, fields |-> <<Field("a", Word), Field("b", N("bool"))>>,
          methods |-> <<[name |-> "m", fn |-> Fn(<<Param(FALSE, "self", [is |-> "self"]), Param(FALSE, "k", Word)>>, Word,
                                                <<Do(If(Op("b", <<N("self")>>), Tree(<<Return(N("k"))>>, Missing), Missing))>>,
                                                Op("a", <<N("self")>>))]>>]
Shared == Fn(<<Param(FALSE, "k", Word)>>, Word,
             <<Do(If(IsZero(N("k")), Tree(<<Return(V("1"))>>, Missing), Missing)), Store(N("k"), V("3"))>>, Add(N("k"), V("2")))
Generic == Fn(<<Param(TRUE, "n", Word), Param(FALSE, "v", AnyType("T"))>>, T, <<Store(N("n"), V("1"))>>, N("v"))
Fails == Fn(<<Param(FALSE, "k", Word)>>, N("never"), <<Store(N("k"), N("k"))>>, B("invalid", <<>>))
Count == Fn(<<Param(TRUE, "n", Word)>>, Word, <<>>,
            If(IsZero(N("n")), Tree(<<>>, V("2")), Tree(<<>>, Add(V("1"), Call(<<N("count"), Add(N("n"), V("3"))>>)))))
Forever == Fn(<<Param(FALSE, "k", Word)>>, Word, <<>>, Call(<<N("forever"), N("k")>>))
Pick == Fn(<<Param(TRUE, "n", Word), Param(FALSE, "v", AnyType("T"))>>, T, <<>>, N("v"))
Consts == <<Const("point", Point), Const("shared", Shared), Const("generic", Generic), Const("fails", Fails),
            Const("count", Count), Const("forever", Forever), Const("pick", Pick)>>

Prelude == <<Let(TRUE, FALSE, "x", V("1")), Let(FALSE, FALSE, "y", Caller), Let(FALSE, FALSE, "z", V("2")),
             Let(FALSE, FALSE, "p", IsZero(y))>>
Ends == Do(If(Choice("or", IsZero(z), p), Tree(<<Do(Call(<<N("fails"), z>>))>>, Missing), Tree(<<Stop>>, Missing)))
Pool == <<
    Becomes("x", Add(x, y)),
    Do(If(p, Tree(<<Becomes("x", Add(x, V("1")))>>, Missing), Tree(<<Store(x, z)>>, Missing))),
    Let(FALSE, FALSE, "z", If(Choice("and", p, IsZero(x)), Tree(<<>>, y), Tree(<<Store(z, x)>>, V("3")))),
    Let(FALSE, FALSE, "z", Match(y, <<Arm(V("0"), "", x), Arm(V("1"), "", Tree(<<Store(V("0"), z)>>, z)), Arm(Missing, "k", Add(N("k"), z))>>)),
    While(FALSE, Op("!", <<IsZero(x)>>), <<Becomes("x", Add(x, V("3"))), Store(x, z)>>),
    Let(FALSE, FALSE, "z", ComptimeBlock(<<Let(TRUE, FALSE, "t", z), While(FALSE, Op("!", <<IsZero(N("t"))>>), <<Becomes("t", Add(N("t"), V("3")))>>)>>, Add(N("t"), z))),
    Let(FALSE, FALSE, "z", Call(<<N("shared"), x>>)),
    Let(FALSE, FALSE, "z", Call(<<N("shared"), z>>)),
    Let(FALSE, FALSE, "p", Call(<<N("generic"), V("2"), p>>)),
    Let(FALSE, FALSE, "z", Call(<<N("generic"), V("2"), z>>)),
    Let(FALSE, FALSE, "z", Op("m", <<Literal(N("point"), <<Field("b", p), Field("a", x)>>), z>>)),
    Do(If(p, Tree(<<Stop>>, Missing), Missing)),
    Ends>>
Unit == Tree(<<>>, Missing)
Two == V("2")
Down(local, by) == Becomes(local, Add(N(local), by))
More == <<
    Do(Tree(<<Let(TRUE, TRUE, "n", Two), While(TRUE, Op("!", <<IsZero(N("n"))>>), <<Down("n", V("3")), Store(N("n"), x)>>)>>, Missing)),
    Do(Call(<<N("generic"), V("1"), Op("tuple", <<x, p, Unit, z>>)>>)),
    Let(FALSE, FALSE, "z", Op("a", <<Call(<<N("generic"), V("1"), Literal(N("point"), <<Field("a", x), Field("b", p)>>)>>)>>)),
    Let(FALSE, FALSE, "z", Op("m", <<N("point"), Literal(N("point"), <<Field("a", z), Field("b", V("true"))>>), x>>)),
    Let(FALSE, FALSE, "z", Call(<<N("count"), Two>>)),
    Let(FALSE, FALSE, "z", Call(<<N("forever"), x>>)),
    Let(FALSE, FALSE, "z", Tree(<<Let(FALSE, FALSE, "f", Fn(<<Param(FALSE, "k", Word)>>, Word, <<>>, Add(N("k"), z)))>>, Call(<<f, x>>))),
    Let(FALSE, FALSE, "p", Op("b", <<Literal(Call(<<N("pick"), V("1"), N("point")>>), <<Field("a", z), Field("b", p)>>)>>)),
    Let(FALSE, FALSE, "z", If(IsZero(z), Tree(<<Becomes("x", V("1"))>>, x), Tree(<<>>, Add(z, V("1"))))),
    Let(FALSE, FALSE, "z", Match(z, <<Arm(V("2"), "", Add(z, x)), Arm(V("0"), "", V("1")), Arm(Missing, "k", N("k"))>>)),
    Let(FALSE, FALSE, "z", Match(x, <<Arm(V("0"), "", Tree(<<Do(Call(<<N("fails"), y>>))>>, V("0"))), Arm(Missing, "", If(p, Tree(<<Stop>>, z), Tree(<<>>, y)))>>)),
    Do(Call(<<N("generic"), V("1"), Unit>>)),
    Do(Unit),
    Becomes("x", If(p, Tree(<<Becomes("x", V("3"))>>, Add(x, z)), Tree(<<>>, x)))>>
InFunction == <<
    Return(x),
    Do(If(p, Tree(<<Return(z)>>, Missing), Missing)),
    Do(If(IsZero(x), Tree(<<Return(z)>>, Missing), Tree(<<Return(y)>>, Missing))),
    Do(Match(y, <<Arm(V("0"), "", Tree(<<Return(x)>>, Missing)), Arm(V("1"), "", Tree(<<Becomes("x", y)>>, Missing)), Arm(Missing, "", Tree(<<Return(z)>>, Missing))>>)),
    While(FALSE, Op("!", <<IsZero(x)>>), <<Down("x", V("3")), Do(If(p, Tree(<<Return(x)>>, Missing), Missing))>>)>>
Pure == <<
    Becomes("x", Add(x, y)),
    Do(If(p, Tree(<<Becomes("x", Add(x, V("1")))>>, Missing), Tree(<<Becomes("x", z)>>, Missing))),
    While(FALSE, Op("!", <<IsZero(x)>>), <<Down("x", V("3")), Do(If(IsZero(Add(x, z)), Tree(<<Return(y)>>, Missing), Missing))>>),
    Let(FALSE, FALSE, "z", Match(x, <<Arm(V("0"), "", y), Arm(V("1"), "", Tree(<<Becomes("x", z)>>, z)), Arm(Missing, "k", Add(N("k"), z))>>)),
    Let(FALSE, FALSE, "z", Call(<<N("pick"), V("1"), x>>)),
    Let(FALSE, FALSE, "p", Choice("or", p, Call(<<N("pick"), Two, IsZero(x)>>))),
    Let(FALSE, FALSE, "z", Op("m", <<Literal(N("point"), <<Field("b", p), Field("a", x)>>), z>>))>>

End == <<Store(x, z), Store(V("0"), If(p, Tree(<<>>, V("1")), Tree(<<>>, Two))), Stop>>

Bodies ==
    {Prelude \o <<Pool[i], Pool[j], Pool[k]>> \o End : i, j, k \in DOMAIN Pool}
        \cup {Prelude \o <<a, b>> \o End : a \in ToSet(More), b \in ToSet(Pool) \cup ToSet(More)}
        \cup {Prelude \o <<a, b>> \o End : a \in ToSet(Pool), b \in ToSet(More)}
Work(statements) ==
    Fn(<<Param(FALSE, "y", Word), Param(FALSE, "p", AnyType("T"))>>, Word,
       <<Let(TRUE, FALSE, "x", Add(y, V("1"))), Let(FALSE, FALSE, "z", Two)>> \o statements, Add(x, z))
Calling == <<Store(V("0"), Call(<<N("work"), Caller, IsZero(Caller)>>)), Store(V("1"), Call(<<N("work"), Two, V("true")>>)), Stop>>
Deployed == <<Store(Caller, Call(<<N("work"), Caller, V("false")>>)), Store(V("1"), Call(<<N("pick"), V("3"), Caller>>)), Stop>>
Computed == <<Store(V("0"), ComptimeBlock(<<>>, Add(Call(<<N("work"), V("3"), V("false")>>), Call(<<N("work"), Two, V("true")>>)))), Stop>>
Calls(statements) ==
    Consts \o <<Const("work", Work(statements)), Entry("init", Calling), Entry("run", Deployed)>>
Folds(statements) == Consts \o <<Const("work", Work(statements)), Entry("init", Computed)>>

(* One mistake each, at a place that is compiled.                          *)
Mistakes == {
    Do(Add(x, p)), Do(IsZero(Add(V("1"), V("true")))), Do(B("add", <<x>>)), Do(B("balance", <<p>>)), Do(Op("!", <<x>>)),
    Do(B("stop", <<x>>)), Do(Call(<<x, y>>)), Do(Call(<<Word>>)), Do(Call(<<N("shared")>>)), Do(Call(<<N("shared"), p>>)),
    Do(Call(<<N("shared"), N("point")>>)), Do(Call(<<N("generic"), x, y>>)), Do(Call(<<N("count"), V("true")>>)),
    Do(Op("a", <<x>>)), Do(Op("a", <<Op("tuple", <<x, y>>)>>)), Do(Op("m", <<x>>)), Do(Op("m", <<N("point"), x, y>>)),
    Do(Literal(Word, <<Field("a", x)>>)), Do(Literal(x, <<Field("a", x)>>)), Do(Literal(N("point"), <<Field("a", x)>>)),
    Do(Literal(N("point"), <<Field("a", x), Field("a", y)>>)), Do(Literal(N("point"), <<Field("a", p), Field("b", p)>>)),
    Do(Literal([Point EXCEPT !.fields = <<Field("a", Word), Field("a", Word)>>], <<Field("a", x)>>)),
    Do(Literal([Point EXCEPT !.index = x], <<Field("a", x), Field("b", p)>>)),
    Do(Op("tuple", <<x, Word>>)), Do(Op("tuple type", <<V("1"), Word>>)), Let(TRUE, FALSE, "t", Word),
    Do(Match(p, <<Arm(Missing, "", x)>>)), Do(Match(x, <<Arm(V("true"), "", x), Arm(Missing, "", y)>>)),
    Do(Match(x, <<Arm(V("1"), "", x), Arm(V("1"), "", y), Arm(Missing, "", y)>>)),
    Do(Match(z, <<Arm(Word, "", x), Arm(Missing, "", y)>>)),
    Do(If(x, Unit, Missing)), Do(If(p, Tree(<<>>, V("1")), Tree(<<>>, V("true")))), Do(If(p, Tree(<<>>, Word), Tree(<<>>, Word))),
    While(FALSE, x, <<>>), While(TRUE, p, <<>>), While(TRUE, V("1"), <<>>), Becomes("x", p), Becomes("x", Word),
    Do(Tree(<<Let(TRUE, TRUE, "n", Two), Do(If(p, Tree(<<Becomes("n", V("1"))>>, Missing), Missing))>>, Missing)),
    Do(Tree(<<Let(TRUE, TRUE, "n", Two), Becomes("n", V("true"))>>, Missing)),
    Do(Tree(<<Let(TRUE, TRUE, "n", Two), Becomes("n", x)>>, Missing)),
    Let(FALSE, TRUE, "n", Add(x, V("1"))), Do(ComptimeBlock(<<Store(V("1"), V("1"))>>, Missing)), Do(ComptimeBlock(<<Stop>>, Missing)),
    Do(ComptimeBlock(<<>>, If(p, Unit, Missing))), Do(ComptimeBlock(<<While(FALSE, V("1"), <<>>)>>, Missing)),
    Do(ComptimeBlock(<<>>, Match(x, <<Arm(V("1"), "", x), Arm(Missing, "", y)>>))),
    Do(Call(<<Fn(<<>>, Word, <<>>, V("true"))>>)), Do(Call(<<Fn(<<>>, V("1"), <<>>, V("1"))>>)),
    Do(Call(<<Fn(<<Param(FALSE, "k", V("1"))>>, Word, <<>>, V("1")), x>>)),
    Do(Call(<<Fn(<<Param(FALSE, "k", Word)>>, N("type"), <<>>, Word), x>>)), Do(Fn(<<>>, Word, <<>>, x)),
    Do(ComptimeBlock(<<>>, Call(<<N("forever"), V("1")>>))), Do(Call(<<N("forever"), V("1")>>))}
Wronged == <<Const("cycle", N("other")), Const("other", N("cycle"))>>
MCWrong ==
    {Consts \o <<Entry("init", Prelude \o <<m>> \o End)>> : m \in Mistakes}
        \cup {Consts \o <<Const("work", Work(<<m>>)), Entry("init", Calling)>> : m \in Mistakes}
        \cup {Consts \o <<Entry("init", Prelude)>>, Consts \o Wronged \o <<Entry("init", Prelude \o End)>>,
              Consts \o Wronged \o <<Entry("init", <<Do(N("cycle"))>> \o Prelude \o End)>>}

MCSources ==
    {Consts \o <<Entry("init", b)>> : b \in Bodies}
        \cup {Calls(<<a, b>>) : a \in ToSet(Pool \o More \o InFunction) \ {Ends}, b \in ToSet(Pool \o InFunction) \ {Ends}}
        \cup {Folds(<<Pure[i], Pure[j], Pure[k]>>) : i, j, k \in DOMAIN Pure}
        \cup MCWrong

-----------------------------------------------------------------------------
(* Loops that are left in their condition, and functions that say they     *)
(* return and do not.                                                      *)
LoopSources ==
    {Consts \o <<Entry("init", Prelude \o <<While(FALSE, Tree(<<a, Ends>>, p), <<Store(y, y)>>)>> \o End)>> : a \in ToSet(Pool) \ {Ends}}
CallSources == {Calls(<<a, Ends>>) : a \in ToSet(Pool) \ {Ends}}
=============================================================================

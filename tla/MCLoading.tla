------------------------------ MODULE MCLoading ------------------------------
(***************************************************************************)
(* Properties of loading a project, resolving the names of its files and   *)
(* lowering their definitions.                                             *)
(***************************************************************************)
EXTENDS NameResolution, HirMeaning

(* What the front end promises, for the files read so far and the verdict  *)
(* on the modules: what is wrong within a definition is no part of it.     *)
ModuleErrors == {e \in errors : Len(e.at) # 2 \/ IsImport(Text(e.source)[e.at[1]])}
Promise == INSTANCE ModuleSystem WITH
    sources <- ToSet(paths),
    answer <- CASE phase \notin {"refused", "lowered"} -> [verdict |-> "none", scopes |-> <<>>]
                [] phase \in {"refused", "lowered"} /\ ModuleErrors # {} -> [verdict |-> "refused", scopes |-> <<>>]
                [] phase = "lowered" /\ ModuleErrors = {} ->
                      [verdict |-> "accepted",
                       scopes |-> [f \in ToSet(paths) |->
                           LET s == SourceOf(f)
                           IN [n \in DOMAIN scopes[s] |-> <<paths[scopes[s][n][1]], scopes[s][n][2]>>]]]

(* ImplementsModuleSystem: the project is read, explained and answered for *)
(* as ModuleSystem promises.  Each file that is needed is read once, in    *)
(* whatever order and with whatever cycles; every project is answered; and *)
(* it is accepted exactly when its imports and names are well formed, each *)
(* name of each file then standing for the constant its imports give it    *)
(* (parse_project, resolve_reexports, build_file_scope).                   *)
ImplementsModuleSystem == Promise!Spec

(* NamesAreExact: in every project, the broken ones included, no name is   *)
(* being looked for once resolve_reexport has returned, and a public       *)
(* name only ever stands for a constant that public imports lead to; once  *)
(* names have been passed on it stands for one whenever there is one, its  *)
(* own before any other; and an import that is left out without a word of  *)
(* its own is explained by an error further along the way it looks         *)
(* (resolve_reexports, build_file_scope: "Poisoned | Cyclic => continue"). *)
ByFile(const) == <<paths[const[1]], const[2]>>

(* The public imports a name of a source may come from, as pairs of what   *)
(* they look for.                                                          *)
NextNames(s, n) ==
    {<<i.target, IF i.all THEN n ELSE i.name>> : i \in {j \in ToSet(imports[s]) : j.public /\ (j.all \/ j.as = n)}}
RECURSIVE OnTheWay(_)
OnTheWay(known) ==
    LET more == known \cup UNION {NextNames(k[1], k[2]) : k \in known}
    IN IF more = known THEN known ELSE OnTheWay(more)
Explained(s, n) ==
    \E k \in OnTheWay({<<s, n>>}), e \in errors :
        /\ e.kind \in {"cyclic reexport", "unresolved import"} /\ e.source = k[1]
        /\ \E i \in ToSet(imports[k[1]]) : i.span = e.at /\ i.public /\ (i.all \/ i.as = k[2])

NamesAreExact ==
    phase \in {"propagate", "explain", "lower", "lowered"} =>
        /\ \A s \in Sources : \A n \in ToSet(Names) \cap DOMAIN names[s] :
              names[s][n].state \in {"resolved", "not found", "poisoned", "cyclic"}
        /\ LET exports == Promise!Exports IN
           \A s \in Sources, n \in ToSet(Names) :
            LET means == Promise!Meanings(exports, paths[s], n) IN
            /\ IsResolved(s, n) => ByFile(names[s][n].const) \in means
            /\ phase # "propagate" /\ means # {} => IsResolved(s, n)
            /\ n \in Promise!Own(paths[s]) => names[s][n].const = <<s, n>>
        /\ phase = "lowered" =>
            \A s \in Sources : \A i \in ToSet(imports[s]) :
                ~i.all /\ ~IsResolved(i.target, i.name) =>
                    \/ Explained(i.target, i.name)
                    \/ Error("unresolved import", s, i.span) \in errors

(* MeaningIsKept: a project without errors is lowered to instructions that *)
(* do what its trees say, in every file: the same operations on the same   *)
(* values in the same order, whatever blocks, branches, loops, matches and *)
(* early returns lie between, and whatever scopes are opened, names        *)
(* shadowed and values captured on the way (BlockLowerer, lower).          *)
Def(s, body) == Text(s)[body.def]
MeaningIsKept ==
    phase = "lowered" /\ errors = {} =>
        \A s \in Sources : \A b \in ToSet(bodies[s]) :
            SameRun(RunTree(scopes[s], Def(s, b)), RunLowered(hir, b), Def(s, b))

(* FaultsAreFound: what lowering reports of a definition is what is wrong  *)
(* with it by the names visible at each place and what a `return` there    *)
(* would leave.  Lowering also takes the name of a parameter for used if a *)
(* type before it captures one from outside (lower_function looks for it   *)
(* in the whole frame).  None of the lowerer's expects and unreachables    *)
(* fails on the way (panicked).                                            *)
Reported(s, i) ==
    {<<e.kind, e.at[2]>> : e \in {f \in errors : f.source = s /\ Len(f.at) = 2 /\ f.at[1] = i}}
FaultsAreFound ==
    /\ ~panicked
    /\ phase = "lowered" =>
        \A s \in Sources : \A b \in ToSet(bodies[s]) :
            LET faults == DefinitionFaults(scopes[s], Def(s, b))
                reported == Reported(s, b.def)
            IN /\ faults \subseteq reported
               /\ \A f \in reported \ faults : f[1] \in {"duplicate parameter", "duplicate type capture"}

-----------------------------------------------------------------------------
(***************************************************************************)
(* Projects of up to three files: every way a name can be passed on, and   *)
(* lost, between them; every way a file can fail to be there; every set of *)
(* init and run blocks; and, in one file, bodies of statements of every    *)
(* kind in every order, alone and in a function or at compile time.        *)
(***************************************************************************)
Path(file) == <<"m", file>>
MCCanonical ==
    (Path("a") :> "A") @@ (Path("b") :> "B") @@ (Path("c") :> "C")
        @@ (Path("link") :> "B") @@ (Path("locked") :> "Locked")

Const(name) == [kind |-> "const", name |-> name, type |-> Missing, value |-> Value("1")]
Nothing == [is |-> "block", statements |-> <<>>, end |-> Missing]
Block(kind) == [kind |-> kind, body |-> Nothing]
One(public, file, name, as) ==
    [kind |-> "import", public |-> public, all |-> FALSE, path |-> Append(Path(file), name), as |-> as]
All(public, file) == [kind |-> "import", public |-> public, all |-> TRUE, path |-> Path(file), as |-> ""]
At(path) == [kind |-> "import", public |-> FALSE, all |-> FALSE, path |-> path, as |-> ""]
Group(public, file, items) == [kind |-> "group", public |-> public, path |-> Path(file), items |-> items]
Item(name, as) == [name |-> name, as |-> as]

Project(entry, modules, a, b, c) ==
    [entry |-> Path(entry), core |-> modules, text |-> ("A" :> a) @@ ("B" :> b) @@ ("C" :> c)]

Consts == {<<>>, <<Const("x")>>, <<Const("y")>>}
Entries == {
    <<One(FALSE, "b", "x", "")>>, <<One(FALSE, "b", "x", "y")>>, <<One(FALSE, "b", "y", "")>>,
    <<All(FALSE, "b")>>, <<All(FALSE, "b"), All(FALSE, "c")>>, <<One(FALSE, "b", "x", ""), All(FALSE, "c")>>,
    <<All(TRUE, "b"), Const("x")>>, <<Const("y"), Const("y"), One(TRUE, "c", "x", "y")>>}
Passers == {
    <<>>, <<All(TRUE, "c")>>, <<One(TRUE, "c", "x", "")>>, <<One(TRUE, "c", "x", "y")>>, <<One(TRUE, "c", "y", "x")>>,
    <<All(TRUE, "b")>>, <<All(FALSE, "c")>>, <<All(TRUE, "a"), One(TRUE, "c", "x", "")>>,
    <<All(TRUE, "c"), Group(TRUE, "c", <<Item("x", "y"), Item("y", "x")>>)>>}
Sinks == {<<>>, <<All(TRUE, "b")>>, <<One(TRUE, "b", "x", "")>>, <<One(TRUE, "a", "x", "y")>>, <<All(TRUE, "a")>>}
NameProjects ==
    {Project("a", <<>>, <<Block("init")>> \o a, b \o passed, c \o sunk) :
        a \in Entries, b \in Consts, passed \in Passers, c \in Consts, sunk \in Sinks}

Imports == {
    All(FALSE, "b"), All(FALSE, "link"), All(FALSE, "a"), All(FALSE, "nowhere"), All(FALSE, "locked"),
    At(<<>>), At(<<"m">>), At(<<"n", "b", "x">>), One(FALSE, "b", "x", ""),
    Group(FALSE, "c", <<Item("x", ""), Item("", ""), Item("x", "z")>>), Group(FALSE, "locked", <<Item("x", "")>>)}
Cores == {<<>>, <<Path("c"), Path("nowhere")>>, <<Path("locked"), Path("link")>>}
FilesOf(entry, modules, i, j, k) ==
    Project(entry, modules, <<i, j, Block("init")>>, <<Const("x"), k>>, <<Const("x")>>)
Others == {All(TRUE, "a"), All(FALSE, "locked"), Block("init")}
FileProjects ==
    {FilesOf("a", <<>>, i, j, k) : i \in Imports, j \in Imports, k \in Others}
        \cup {FilesOf(entry, modules, i, All(FALSE, "b"), k) :
                  entry \in {"a", "b", "nowhere", "locked"}, modules \in Cores, i \in Imports, k \in Others}

EntryBlocks == {<<>>, <<Block("init")>>, <<Block("run")>>, <<Block("run"), Block("init")>>,
            <<Block("init"), Block("init")>>, <<Block("run"), Block("run"), Block("init")>>}
BlockProjects ==
    {Project("a", <<>>, a \o <<All(FALSE, "b")>>, b, <<>>) : a \in EntryBlocks, b \in EntryBlocks}

-----------------------------------------------------------------------------
(* Bodies. *)
N(name) == [is |-> "name", name |-> name]
Tree(statements, end) == [is |-> "block", statements |-> statements, end |-> end]
Op(args) == [is |-> "apply", op |-> "op", args |-> args]
Call(args) == [is |-> "apply", op |-> "call", args |-> args]
Run(e) == [is |-> "eval", value |-> e]
Let(mutable, comptime, name, value) ==
    [is |-> "let", mutable |-> mutable, comptime |-> comptime, name |-> name, type |-> Missing, value |-> value]
Becomes(name, value) == [is |-> "assign", target |-> N(name), value |-> value]
Return(value) == [is |-> "return", value |-> value]
Choice(is, left, right) == [is |-> is, left |-> left, right |-> right]
Arm(key, binding, body) == [key |-> key, binding |-> binding, body |-> body]
Match(subject, arms) == [is |-> "match", subject |-> subject, arms |-> arms]
Param(name, type) == [name |-> name, type |-> type, comptime |-> FALSE]
AnyType(name) == [is |-> "any", name |-> name]
Fn(params, statements, end) == [is |-> "fn", eager |-> FALSE, params |-> params, returns |-> N("u256"), body |-> Tree(statements, end)]
Method(name, fn) == [name |-> name, fn |-> fn]
Field(name, value) == [name |-> name, value |-> value]
Struct(index, fields, methods) == [is |-> "struct", index |-> index, fields |-> fields, methods |-> methods]

x == N("x")
y == N("y")
f == N("f")
True == Value("true")
Inner == Fn(<<Param("r", N("q"))>>, <<Run(Op(<<x, N("r"), y>>)), Return(N("p"))>>, Missing)
Maker == Fn(<<Param("p", N("u256")), Param("q", AnyType("T"))>>,
            <<Let(FALSE, FALSE, "g", Inner), Let(FALSE, FALSE, "x", N("T"))>>, Op(<<Call(<<N("g"), x>>), y>>))
Pool == <<
    Let(FALSE, FALSE, "x", Op(<<x, y>>)),
    Let(TRUE, FALSE, "x", True),
    Let(TRUE, TRUE, "y", x),
    Becomes("x", y),
    Becomes("y", [is |-> "apply", op |-> "!", args |-> <<y>>]),
    [is |-> "while", inline |-> FALSE, condition |-> x, body |-> Tree(<<Let(FALSE, FALSE, "y", x), Becomes("x", Op(<<y>>))>>, y)],
    Run([is |-> "if", condition |-> x, yes |-> Tree(<<Let(FALSE, FALSE, "x", y)>>, Op(<<x>>)),
         branches |-> <<[condition |-> y, yes |-> Tree(<<Return(x)>>, Missing)]>>, no |-> Tree(<<Run(Op(<<x>>))>>, Missing)]),
    Let(FALSE, FALSE, "f", Maker),
    Run(Call(<<f, x, y>>)),
    Let(FALSE, FALSE, "y", Match(x, <<Arm(True, "", Op(<<x>>)), Arm(y, "", Op(<<y>>)), Arm(Missing, "x", Tree(<<>>, Op(<<x>>)))>>)),
    Run([is |-> "comptime", body |-> Tree(<<Let(TRUE, FALSE, "x", y), Becomes("x", Op(<<>>))>>, Choice("or", x, Op(<<y>>)))]),
    Let(FALSE, FALSE, "f", Struct(y, <<Field("a", x)>>, <<Method("m", Fn(<<Param("y", [is |-> "self"])>>, <<>>, Op(<<x, y>>)))>>)),
    Run([is |-> "apply", op |-> "m", args |-> <<f, Choice("and", x, y)>>]),
    Return(y)>>
Prelude == <<Let(FALSE, FALSE, "x", True), Let(TRUE, FALSE, "y", Op(<<x>>))>>
Bodies ==
    {Tree(Prelude \o <<Pool[i], Pool[j], Pool[k]>>, Op(<<x, y>>)) : i, j, k \in DOMAIN Pool}
        \cup {Tree(Prelude \o <<Run(Call(<<Fn(<<Param("a", AnyType("T")), Param("x", N("T"))>>, <<Pool[i], Pool[j], Pool[k]>>, y), y, x>>))>>, y) :
                 i, j, k \in DOMAIN Pool}
        \cup {Tree(Prelude \o <<Run([is |-> "comptime", body |-> Tree(<<Pool[i], Pool[j]>>, Missing)])>>, y) : i, j \in DOMAIN Pool}

(* One fault each, and what only looks like one. *)
Faulty == {
    [is |-> "error"], [is |-> "self"], [is |-> "too big"], [is |-> "builtin", name |-> "evm"], [is |-> "builtin", name |-> "emv"],
    [is |-> "builtin call", name |-> "emv", args |-> <<x>>], [is |-> "apply", op |-> "/", args |-> <<True, True>>],
    Fn(<<Param("p", N("u256")), Param("p", N("p"))>>, <<>>, N("p")), Fn(<<Param("p", AnyType("x")), Param("x", N("u256"))>>, <<>>, x),
    Fn(<<Param("p", x), Param("x", N("u256"))>>, <<>>, x), Fn(<<Param("p", x), Param("q", AnyType("x"))>>, <<>>, x),
    Fn(<<Param("u256", Missing)>>, <<>>, N("p")), Tree(<<Return([is |-> "self"])>>, Missing),
    Match(True, <<Arm(True, "", N("p"))>>),
    Match(True, <<Arm(Missing, "p", N("p")), Arm(True, "", N("p")), Arm(Missing, "u256", N("u256"))>>),
    Struct(Tree(<<Return(x)>>, Missing), <<Field("a", x)>>,
           <<Method("a", Fn(<<>>, <<>>, True)), Method("m", Fn(<<>>, <<>>, [is |-> "self"])), Method("m", Fn(<<>>, <<>>, x))>>)}
Lawful == {
    [is |-> "builtin call", name |-> "evm", args |-> <<N("y"), Value("1")>>],
    [is |-> "literal", type |-> x, fields |-> <<Field("a", Op(<<>>)), Field("b", N("y"))>>],
    Struct(Missing, <<>>, <<Method("m", Fn(<<>>, <<Let(FALSE, FALSE, "x", x)>>, Fn(<<>>, <<>>, [is |-> "self"])))>>),
    [is |-> "comptime", body |-> Tree(<<Let(FALSE, TRUE, "p", True)>>, N("p"))]}
BodyProjects ==
    {Project("a", <<>>, <<[kind |-> "init", body |-> body]>>, <<>>, <<>>) : body \in Bodies}
        \cup {Project("a", <<>>, <<[kind |-> "init", body |-> Tree(<<Let(FALSE, FALSE, "x", True), [is |-> "no statement"]>>, e)],
                                   [Const("y") EXCEPT !.type = N("u256"), !.value = e], Const("x")>>, <<>>, <<>>) :
                 e \in Faulty \cup Lawful}

MCProjects == NameProjects \cup FileProjects \cup BlockProjects \cup BodyProjects
MCNames == <<"x", "y", "z">>
==============================================================================

--------------------------- MODULE NameResolution --------------------------
(***************************************************************************)
(* Names across files (hir/src/lowerer/mod.rs): every constant is made     *)
(* public in its file, public imports pass names on until nothing changes, *)
(* the names specific imports still miss are explained, and each file gets *)
(* the scope its definitions are lowered in, one after the other.          *)
(***************************************************************************)
EXTENDS ProjectLoading, HirLowering, TLC

CONSTANT Names  \* in the order of the maps they key

VARIABLES
    imports,  \* the filled slots of each source
    names,    \* public_names_by_source
    todo,     \* public_names_to_propagate, the next one last
    at,       \* the next import to look for or source to lower
    scopes,   \* the constants each lowered source sees
    hir,      \* the blocks, functions and structs made so far
    bodies,   \* what the definitions of each lowered source became
    init,     \* whether the root has an init block
    panicked

nameVars == <<imports, names, todo, at, scopes, hir, bodies, init, panicked>>
vars == <<loadVars, nameVars>>

Resolved(const, via, imported) == [state |-> "resolved", const |-> const, via |-> via, imported |-> imported]
Failed(why) == [state |-> why]
Resolving == [state |-> "resolving"]
IsResolved(s, n) == n \in DOMAIN names[s] /\ names[s][n].state = "resolved"

(* The keys of a map in its order.                                         *)
Keys(map) == SelectSeq(Names, LAMBDA n : n \in DOMAIN map)

(* The imports of all sources in order, each with the source it is in.     *)
Located(s) == [i \in DOMAIN imports[s] |-> <<s, imports[s][i]>>]
AllImports == FlattenSeq([s \in Sources |-> Located(s)])

-----------------------------------------------------------------------------
(* The project is complete: the slots that were filled are its imports.    *)
CompleteProject ==
    /\ Loaded
    /\ phase' = "register"
    /\ imports' = [s \in Sources |-> SelectSeq(slots[s], LAMBDA i : i # Empty)]
    /\ panicked' = (parsed # Sources)
    /\ UNCHANGED <<project, frames, wanted, reply, paths, slots, parsed, core, errors, names, todo, at, scopes, hir, bodies, init>>

(* The first constant of a name is the public one of its file.             *)
RegisterConsts ==
    /\ phase = "register"
    /\ phase' = "propagate"
    /\ LET defs(s, n) == {i \in DOMAIN Text(s) : Text(s)[i].kind = "const" /\ Text(s)[i].name = n}
           own(s) == {n \in ToSet(Names) : defs(s, n) # {}}
       IN /\ names' = [s \in Sources |-> [n \in own(s) |-> Resolved(<<s, n>>, s, FALSE)]]
          /\ errors' = errors \cup
                 UNION {{Error("duplicate constant", s, <<i>>) : i \in
                            UNION {{i \in defs(s, n) : \E j \in defs(s, n) : j < i} : n \in own(s)}} : s \in Sources}
          /\ todo' = FlattenSeq([s \in Sources |->
                        LET mine == SelectSeq(Names, LAMBDA n : n \in own(s))
                        IN [i \in DOMAIN mine |-> <<s, mine[i], <<s, mine[i]>>>>]])
    /\ UNCHANGED <<project, frames, wanted, reply, paths, slots, parsed, core, imports, at, scopes, hir, bodies, init, panicked>>

(* One name is passed on by every public import of its file that takes it, *)
(* where the importing file has no such name yet.                          *)
(* Mutation: a name is passed on as itself, whatever the import calls it.  *)
PassOn_Unaliased(st, source, import, name, const) ==
    IF (~import.all /\ import.name # name) \/ name \in DOMAIN st.names[source] THEN st
    ELSE [names |-> [st.names EXCEPT ![source] = (name :> Resolved(const, source, TRUE)) @@ @],
          todo |-> Append(st.todo, <<source, name, const>>)]

PassOn(st, source, import, name, const) ==
    LET as == IF import.all THEN name ELSE import.as
    IN IF (~import.all /\ import.name # name) \/ as \in DOMAIN st.names[source] THEN st
       ELSE [names |-> [st.names EXCEPT ![source] = (as :> Resolved(const, source, TRUE)) @@ @],
             todo |-> Append(st.todo, <<source, as, const>>)]

Propagate ==
    /\ phase = "propagate" /\ todo # <<>>
    /\ LET next == Last(todo)
           reexporters == SelectSeq(AllImports, LAMBDA i : i[2].public /\ i[2].target = next[1])
           result == FoldLeft(LAMBDA st, i : PassOn(st, i[1], i[2], next[2], next[3]),
                              [names |-> names, todo |-> Front(todo)], reexporters)
       IN names' = result.names /\ todo' = result.todo
    /\ UNCHANGED <<loadVars, imports, at, scopes, hir, bodies, init, panicked>>

EndPropagation ==
    /\ phase = "propagate" /\ todo = <<>>
    /\ phase' = "explain" /\ at' = 1
    /\ UNCHANGED <<project, frames, wanted, reply, paths, slots, parsed, core, errors, imports, names, todo, scopes, hir, bodies, init, panicked>>

-----------------------------------------------------------------------------
(* Why a public name of a source cannot be had.  An import on the way that *)
(* is still being looked into closes a cycle, which ends the search.       *)
RECURSIVE ResolveReexport(_, _, _), TryImports(_, _, _, _)

ResolveReexport(st, source, name) ==
    LET opened == [st EXCEPT !.names[source] = (name :> Resolving) @@ @, !.failure = "not found"]
        mine == SelectSeq(imports[source], LAMBDA i : i.public /\ (i.all \/ i.as = name))
        result == TryImports(opened, mine, source, name)
    IN [result EXCEPT !.names[source] = (name :> Failed(result.failure)) @@ @]

TryImports(st, left, source, name) ==
    IF left = <<>> THEN st
    ELSE LET import == Head(left)
             target == IF import.all THEN name ELSE import.name
             there == st.names[import.target]
             got == IF target \notin DOMAIN there THEN ResolveReexport(st, import.target, target)
                    ELSE IF there[target].state = "resolving"
                    THEN [st EXCEPT !.errors = @ \cup {Error("cyclic reexport", source, import.span)},
                                    !.failure = "cyclic"]
                    ELSE IF there[target].state = "resolved" THEN [st EXCEPT !.panicked = TRUE]
                    ELSE [st EXCEPT !.failure = there[target].state]
         IN CASE got.failure = "cyclic" -> got
              [] got.failure = "poisoned" \/ (got.failure = "not found" /\ ~import.all) ->
                    TryImports([got EXCEPT !.failure = "poisoned"], Tail(left), source, name)
              [] OTHER -> TryImports([got EXCEPT !.failure = st.failure], Tail(left), source, name)

ExplainImport ==
    /\ phase = "explain" /\ at <= Len(AllImports)
    /\ LET import == AllImports[at][2]
           st == [names |-> names, errors |-> errors, panicked |-> panicked, failure |-> "not found"]
           result == IF import.all \/ import.name \in DOMAIN names[import.target] THEN st
                     ELSE ResolveReexport(st, import.target, import.name)
       IN names' = result.names /\ errors' = result.errors /\ panicked' = result.panicked
    /\ at' = at + 1
    /\ UNCHANGED <<project, phase, frames, wanted, reply, paths, slots, parsed, core, imports, todo, scopes, hir, bodies, init>>

EndExplanation ==
    /\ phase = "explain" /\ at > Len(AllImports)
    /\ phase' = "lower" /\ at' = 1
    /\ UNCHANGED <<project, frames, wanted, reply, paths, slots, parsed, core, errors, imports, names, todo, scopes, hir, bodies, init, panicked>>

-----------------------------------------------------------------------------
(* build_file_scope: a name that is already bound is a collision, whatever *)
(* it is bound to.                                                         *)
(* Mutation: only another constant of that name is a collision.            *)
InsertImport_SameConstant(st, source, name, const, import) ==
    IF name \in DOMAIN st.scope /\ st.scope[name] # const
    THEN [st EXCEPT !.errors = @ \cup {Error("collision", source, Append(import.span, name))}]
    ELSE [st EXCEPT !.scope = (name :> const) @@ @]

InsertImport(st, source, name, const, import) ==
    IF name \in DOMAIN st.scope
    THEN [st EXCEPT !.errors = @ \cup {Error("collision", source, Append(import.span, name))}]
    ELSE [st EXCEPT !.scope = (name :> const) @@ @]

BringIn(st, source, import) ==
    LET there == names[import.target]
        given == SelectSeq(Keys(there), LAMBDA n : there[n].state = "resolved")
    IN IF import.all
       THEN FoldLeft(LAMBDA acc, n : InsertImport(acc, source, n, there[n].const, import), st, given)
       ELSE IF import.name \notin DOMAIN there THEN [st EXCEPT !.panicked = TRUE]
       ELSE CASE there[import.name].state = "resolved" ->
                    InsertImport(st, source, import.as, there[import.name].const, import)
              [] there[import.name].state \in {"poisoned", "cyclic"} -> st
              [] there[import.name].state = "not found" ->
                    [st EXCEPT !.errors = @ \cup {Error("unresolved import", source, import.span)}]
              [] there[import.name].state = "resolving" -> [st EXCEPT !.panicked = TRUE]

BuildFileScope(s) ==
    LET own == {n \in DOMAIN names[s] : names[s][n].state = "resolved" /\ ~names[s][n].imported}
    IN FoldLeft(LAMBDA st, i : BringIn(st, s, i),
                [scope |-> [n \in own |-> names[s][n].const], errors |-> errors, panicked |-> panicked],
                imports[s])

(* The init and run blocks of a source: every one is lowered, the first of *)
(* the root's are the program's.                                           *)
Blocks(s, kind) == {i \in DOMAIN Text(s) : Text(s)[i].kind = kind}
Repeated(s, kind) == {i \in Blocks(s, kind) : \E j \in Blocks(s, kind) : j < i}
EntryPointErrors(s) ==
    {Error("multiple init blocks", s, <<i>>) : i \in Repeated(s, "init")}
        \cup {Error("multiple run blocks", s, <<i>>) : i \in Repeated(s, "run")}
        \cup {Error("run without init", s, <<i>>) : i \in
                  IF s # ROOT /\ Blocks(s, "init") = {} THEN Blocks(s, "run") \ Repeated(s, "run") ELSE {}}

(* The definitions of a source are lowered in its scope, in order; a       *)
(* constant is looked up in it first.                                      *)
LookUp(st, def) ==
    [st EXCEPT !.panicked = @ \/ (def.kind = "const" /\ def.name \notin DOMAIN st.scope)]
Keep(acc, st, s, i) ==
    [st |-> [st EXCEPT !.errors = {}],
     errors |-> acc.errors \cup {Error(e[1], s, <<i, e[2]>>) : e \in st.errors},
     bodies |-> IF st.panicked THEN acc.bodies
                ELSE Append(acc.bodies, [def |-> i, body |-> st.ret.body, result |-> st.ret.result])]
LowerSourceIn(s, built) ==
    FoldLeft(LAMBDA acc, i : Keep(acc, LowerDefinition(LookUp(acc.st, Text(s)[i]), Text(s)[i]), s, i),
             [st |-> [NewLowerer(hir, built.scope) EXCEPT !.panicked = built.panicked],
              errors |-> built.errors \cup EntryPointErrors(s), bodies |-> <<>>],
             SelectSeq([i \in DOMAIN Text(s) |-> i], LAMBDA i : ~IsImport(Text(s)[i])))

LowerSource ==
    /\ phase = "lower" /\ at \in Sources
    /\ \E built \in {BuildFileScope(at)} : \E result \in {LowerSourceIn(at, built)} :
          /\ scopes' = Append(scopes, built.scope)
          /\ hir' = result.st.hir
          /\ bodies' = Append(bodies, result.bodies)
          /\ errors' = result.errors
          /\ panicked' = result.st.panicked
    /\ init' = IF at = ROOT THEN Blocks(at, "init") # {} ELSE init
    /\ at' = at + 1
    /\ UNCHANGED <<project, phase, frames, wanted, reply, paths, slots, parsed, core, imports, names, todo>>

FinishLowering ==
    /\ phase = "lower" /\ at \notin Sources
    /\ phase' = "lowered"
    /\ errors' = IF init THEN errors ELSE errors \cup {Error("missing init block", ROOT, <<>>)}
    /\ UNCHANGED <<project, frames, wanted, reply, paths, slots, parsed, core, nameVars>>

Answered == phase \in {"refused", "lowered"}
Done == Answered /\ UNCHANGED vars

-----------------------------------------------------------------------------
Init ==
    /\ LoadInit
    /\ imports = <<>> /\ names = <<>> /\ todo = <<>> /\ at = 0 /\ scopes = <<>> /\ hir = NewHir /\ bodies = <<>>
    /\ init = FALSE /\ panicked = FALSE

Load == LoadNext /\ UNCHANGED nameVars
Step ==
    \/ Load
    \/ CompleteProject \/ RegisterConsts \/ Propagate \/ EndPropagation
    \/ ExplainImport \/ EndExplanation \/ LowerSource \/ FinishLowering
Next == Step \/ Done

(* The program runs until it has answered: weak fairness of Step, which is *)
(* enabled until then, said without ENABLED.                               *)
Runs == []<>Answered \/ []<><<TRUE>>_vars
Spec == Init /\ [][Next]_vars /\ Runs
=============================================================================

----------------------------- MODULE MiddleEnd ------------------------------
(***************************************************************************)
(* The compilation of a project's entry points from trees to the programs  *)
(* of both backends, and what they promise: each does in every environment *)
(* what the tree means.  An error that was found stops the compilation.    *)
(***************************************************************************)
EXTENDS Naturals, Sequences, SequencesExt

CONSTANTS
    Sources, Wrong,                      \* sequences of definitions, and those of them with a mistake
    Primitives, BuiltinNames,            \* as in HirLowering
    MaxRounds, Opaque,                   \* as in HirMeaning
    MemberNames, MethodNames,            \* as in RuntimeEval
    WordCount, Rounds, CallerKind,       \* as in Mir
    None, SmallWords, EvmKinds, NonZeroKinds, Steps, BalanceOffsets  \* as in SirSemantics

VARIABLES
    source,      \* the definitions, with the trees of their bodies
    environment, \* what the program runs in, once it runs
    stage,       \* how far the compilation has come
    lowerer,     \* the state of the lowering to HIR, and
    bodies,      \*   the bodies it made of the definitions
    evaluator,   \* the state of the evaluation to MIR, and
    entries,     \*   the functions it made of the entry points
    sir,         \* the state of the lowering to SIR
    sonatina     \* what was made for Sonatina
vars == <<source, environment, stage, lowerer, bodies, evaluator, entries, sir, sonatina>>

Lowering == INSTANCE HirLowering
Eval == INSTANCE RuntimeEval
ToSir == INSTANCE MirToSir
ToSonatina == INSTANCE MirToSonatina
Ir == INSTANCE SirSemantics
Analyses == INSTANCE SirAnalyses

IsConst(d) == source[d].kind = "const"
ConstIds == [n \in {source[d].name : d \in {k \in DOMAIN source : IsConst(k)}} |->
                CHOOSE d \in DOMAIN source : IsConst(d) /\ source[d].name = n]
EntryPoints == SelectSeq([d \in DOMAIN source |-> d], LAMBDA d : ~IsConst(d))

NotYet == [panicked |-> FALSE]
Init ==
    /\ source \in Sources /\ environment = None
    /\ stage = "lower" /\ lowerer = Lowering!NewLowerer(Lowering!NewHir, ConstIds)
    /\ bodies = <<>> /\ evaluator = NotYet /\ entries = <<>> /\ sir = NotYet /\ sonatina = NotYet

(* A definition after the other becomes HIR.                               *)
LowerDefinition ==
    LET lowered == Lowering!LowerDefinition(lowerer, source[Len(bodies) + 1]) IN
    /\ stage = "lower" /\ Len(bodies) < Len(source)
    /\ lowerer' = lowered
    /\ bodies' = Append(bodies, lowered.ret)
    /\ UNCHANGED <<source, environment, stage, evaluator, entries, sir, sonatina>>

(* The entry points become MIR, and the constants none of them used are    *)
(* evaluated as well.                                                      *)
BeginEvaluation ==
    /\ stage = "lower" /\ Len(bodies) = Len(source)
    /\ stage' = "evaluate" /\ evaluator' = Eval!NewEvaluator(lowerer.hir, bodies)
    /\ UNCHANGED <<source, environment, lowerer, bodies, entries, sir, sonatina>>

EvaluateEntry ==
    LET done == Eval!LowerEntrypoint(evaluator, bodies[EntryPoints[Len(entries) + 1]].body) IN
    /\ stage = "evaluate" /\ Len(entries) < Len(EntryPoints)
    /\ evaluator' = done
    /\ entries' = Append(entries, Len(done.fns))
    /\ UNCHANGED <<source, environment, stage, lowerer, bodies, sir, sonatina>>

EvaluateConsts ==
    /\ stage = "evaluate" /\ Len(entries) = Len(EntryPoints)
    /\ evaluator' = FoldLeft(LAMBDA acc, d : IF IsConst(d) THEN Eval!EvaluateConst(acc, d) ELSE acc,
                             evaluator, [d \in DOMAIN source |-> d])
    /\ stage' = "evaluated"
    /\ UNCHANGED <<source, environment, lowerer, bodies, entries, sir, sonatina>>

EntryOf(kind) ==
    LET hits == {i \in DOMAIN entries : source[EntryPoints[i]].kind = kind}
    IN IF hits = {} THEN None ELSE entries[CHOOSE i \in hits : TRUE]
Mir == [fns |-> evaluator.fns, init |-> EntryOf("init"), run |-> EntryOf("run")]
HasErrors == lowerer.errors # {} \/ evaluator.errors # {}

(* One backend makes the code.                                             *)
ChooseSir ==
    /\ stage = "evaluated" /\ ~HasErrors
    /\ stage' = "sir" /\ sir' = ToSir!LowerToSir(Mir)
    /\ UNCHANGED <<source, environment, lowerer, bodies, evaluator, entries, sonatina>>
ChooseSonatina ==
    /\ stage = "evaluated" /\ ~HasErrors
    /\ stage' = "sonatina" /\ sonatina' = ToSonatina!LowerToSonatina(Mir)
    /\ UNCHANGED <<source, environment, lowerer, bodies, evaluator, entries, sir>>
Report ==
    /\ stage = "evaluated" /\ HasErrors
    /\ stage' = "reported"
    /\ UNCHANGED <<source, environment, lowerer, bodies, evaluator, entries, sir, sonatina>>

Deploy ==
    /\ stage \in {"sir", "sonatina"} /\ environment = None
    /\ environment' \in Ir!Environments
    /\ UNCHANGED <<source, stage, lowerer, bodies, evaluator, entries, sir, sonatina>>

Finished == (environment # None \/ stage = "reported") /\ UNCHANGED vars
Next ==
    \/ LowerDefinition \/ BeginEvaluation \/ EvaluateEntry \/ EvaluateConsts
    \/ ChooseSir \/ ChooseSonatina \/ Report \/ Deploy \/ Finished
Spec == Init /\ [][Next]_vars

-----------------------------------------------------------------------------
(* What a tree means where words are words: operations give what they give *)
(* in the environment, and only what is stored is seen.                    *)
Numeral(w) == Eval!Numerals[w + 1]
WordOf(value) == (CHOOSE w \in 0 .. WordCount - 1 : <<Numeral(w)>> = value.shown)
Gives(r, shown, code) == [r EXCEPT !.out = [shown |-> shown, code |-> code]]
Concrete(r, op, labels, values) ==
    LET noCode == [is |-> "no code"]
        number(w) == Gives(r, <<Numeral(w % WordCount)>>, noCode)
        truth(b) == Gives(r, <<IF b THEN "true" ELSE "false">>, noCode)
        shown == [i \in DOMAIN values |-> values[i].shown]
    IN CASE op = "add" -> number(WordOf(values[1]) + WordOf(values[2]))
         [] op = "iszero" -> truth(WordOf(values[1]) = 0)
         [] op = "!" -> truth(values[1].shown = <<"false">>)
         [] op = "bool_to_u256" -> number(IF values[1].shown = <<"true">> THEN 1 ELSE 0)
         [] op = "balance" -> number(environment.balance + WordOf(values[1]))
         [] op = "caller" -> number(environment.evm[CallerKind])
         [] op = "sstore" -> Gives([r EXCEPT !.trace = Append(@, <<"sstore", WordOf(values[1]), WordOf(values[2])>>)], <<"void">>, noCode)
         [] op \in {"stop", "invalid"} -> [r EXCEPT !.over = op]
         [] op \in {"tuple", "tuple type"} -> Gives(r, <<op>> \o shown, noCode)
         [] op = "literal" ->
               Gives(r, <<op>> \o labels \o shown,
                     [is |-> "instance", type |-> values[1],
                      parts |-> [n \in ToSet(labels) |-> values[1 + CHOOSE i \in DOMAIN labels : labels[i] = n]]])
         [] op \in MemberNames -> [r EXCEPT !.out = values[1].code.parts[op]]

Meaning == INSTANCE HirMeaning WITH Perform <- Concrete
Stores(trace) ==
    LET stores == SelectSeq(trace, LAMBDA event : event[1] = "sstore") IN [i \in DOMAIN stores |-> Tail(stores[i])]
ConstTrees == [n \in DOMAIN ConstIds |-> source[ConstIds[n]].value]
RunOfTree(kind) == Meaning!RunTree(ConstTrees, source[CHOOSE d \in DOMAIN source : source[d].kind = kind])
RunOfMir(f) == Eval!RunMir(Mir, environment, f)

(* A run does what another does, as far as both were followed.             *)
SameEnd(trace, over, otherTrace, otherOver) ==
    IF "running" \in {over, otherOver} THEN IsPrefix(trace, otherTrace) \/ IsPrefix(otherTrace, trace)
    ELSE trace = otherTrace /\ over = otherOver
Ending(over) == IF over = "endless" THEN "running" ELSE over
Kinds == {source[EntryPoints[i]].kind : i \in DOMAIN EntryPoints}

(* Once a program is evaluated without an error, the functions left for    *)
(* run time store what the source does and end as it does: nothing that    *)
(* was computed, dropped, shared between calls or moved into a branch made *)
(* a difference.  (Both backends are given the same ones.)                 *)
MirMeansTheTree ==
    environment # None /\ stage = "sir" =>
        \A kind \in Kinds :
            LET tree == RunOfTree(kind)
                mir == RunOfMir(EntryOf(kind))
            IN SameEnd(mir.trace, Ending(mir.over), Stores(tree.trace), tree.over)

(* Both backends are given programs that do what the MIR does.             *)
SirDoesAsMir(kind) ==
    LET run == Ir!Execution(sir.p, environment, IF kind = "init" THEN sir.p.init ELSE sir.p.main, Steps)
        mir == RunOfMir(EntryOf(kind))
    IN Analyses!IsLowered(sir.p) /\ SameEnd(run.trace, run.status, mir.trace, Ending(mir.over))
SonatinaDoesAsMir(kind) ==
    LET run == ToSonatina!RunSonatina(environment, IF kind = "init" THEN sonatina.init ELSE sonatina.runtime, EntryOf(kind))
        mir == RunOfMir(EntryOf(kind))
    IN SameEnd(run.trace, Ending(run.over), mir.trace, Ending(mir.over))
BackendsDoAsMir ==
    environment # None =>
        \A kind \in Kinds : IF stage = "sir" THEN SirDoesAsMir(kind) ELSE SonatinaDoesAsMir(kind)

(* Whatever is wrong with a source is reported, and before it breaks what  *)
(* an assertion, unreachable or expect further on relies on.               *)
MistakesAreReported ==
    /\ stage \in {"sir", "sonatina"} => source \notin Wrong
    /\ ~lowerer.panicked /\ ~evaluator.panicked /\ ~sir.panicked /\ ~sonatina.panicked

-----------------------------------------------------------------------------
(* A call that does not return is part of what is left for run time (the   *)
(* comment in eval_builtin: "We diverge after this so we need to make sure *)
(* the call is actually included").                                        *)
DivergingCallsAreIncluded ==
    environment # None =>
        \A kind \in Kinds : RunOfTree(kind).over \in {"stop", "invalid"} => RunOfMir(EntryOf(kind)).over = RunOfTree(kind).over

(* MIR can always be built into SIR (the expect in lower_basic_block: "mir *)
(* should guarantee valid construction").                                  *)
ConstructionIsValid == ~sir.panicked
=============================================================================

----------------------------- MODULE PassManager ----------------------------
(***************************************************************************)
(* PassManager and AnalysesStore (passes/src/lib.rs, analyses/cache.rs):   *)
(* a string of passes run on one program.  The passes ask the store for    *)
(* analyses, which are computed when they are not valid; after a pass the  *)
(* store keeps those that the pass declares preserved.  SCCP takes its     *)
(* steps in Sccp, the legalizer runs at the end, check by check.           *)
(***************************************************************************)
EXTENDS Sccp, Passes, SirSemantics

CONSTANTS
    Programs,   \* what the passes are given
    Schedules,  \* strings of passes; at each place a set of them
    Suspects    \* what the legalizer alone is given

(* Defragmenter looks up the first case of a switch, so there must be one. *)
SwitchesHaveCases(p) ==
    \A b \in BlockIds(p) : p.blocks[b].ctl.kind = "switch" => p.blocks[b].ctl.cases # <<>>

ASSUME ProgramsAssumption == \A p \in Programs : IsLegal(p) /\ SwitchesHaveCases(p)
ASSUME SuspectsAssumption == \A p \in Suspects : IsProgram(p)

VARIABLES
    schedule,   \* the passes to come
    store,      \* each analysis, None if it is not valid
    manager     \* ready, sccp or a check of the legalizer; then accepted, rejected or panic

managerVars == <<sccpVars, schedule, store, manager>>

NothingValid ==
    [reverse_post_order |-> None, reachable_blocks |-> None, predecessors |-> None,
     dominators |-> None, def_use |-> None]

-----------------------------------------------------------------------------
(* Cached::get: the store once an analysis is valid. *)
With(analysis, st, value) == IF st[analysis] = None THEN [st EXCEPT ![analysis] = value] ELSE st

WithOrder(st) == With("reverse_post_order", st, ReversePostOrder(prog))

WithReachable(st) ==
    IF st.reachable_blocks # None THEN st
    ELSE LET s == WithOrder(st) IN With("reachable_blocks", s, ReachableBlocks(s.reverse_post_order))

WithPredecessors(st) ==
    IF st.predecessors # None THEN st
    ELSE LET s == WithReachable(st) IN With("predecessors", s, Predecessors(prog, s.reachable_blocks))

WithDefUse(st) ==
    IF st.def_use # None THEN st
    ELSE LET s == WithOrder(st) IN With("def_use", s, DefUse(prog, s.reverse_post_order))

(* invalidate_all_except *)
Preserve(st, preserved) == [a \in DOMAIN st |-> IF a \in preserved THEN st[a] ELSE None]

-----------------------------------------------------------------------------
(* run_pass *)

Runs(pass) == manager = "ready" /\ schedule # <<>> /\ pass \in Head(schedule)

Completed(result, st, preserved) ==
    /\ schedule' = Tail(schedule)
    /\ \/ /\ result.ok
          /\ prog' = result.prog /\ store' = Preserve(st, preserved) /\ manager' = "ready"
       \/ ~result.ok /\ manager' = "panic" /\ UNCHANGED <<prog, store>>
    /\ UNCHANGED <<functions, uses, lat, reachable, cfgWork, valueWork, todo, sccp>>

GraphAnalyses == {"predecessors", "dominators", "reachable_blocks"}

RunCopyPropagation ==
    /\ Runs("c")
    /\ LET st == WithOrder(store)
       IN Completed(PropagateCopies(prog, st.reverse_post_order), st, GraphAnalyses)

RunSwitchPeephole ==
    /\ Runs("l")
    /\ LET st == WithOrder(store)
       IN Completed(SimplifySwitches(prog, st.reverse_post_order), st, DOMAIN st)

RunUnusedElimination ==
    /\ Runs("u")
    /\ LET st == WithDefUse(WithOrder(store))
       IN Completed(EliminateUnused(prog, st.reverse_post_order, st.def_use), st, GraphAnalyses)

RunBasicBlockMerging ==
    /\ Runs("m")
    /\ LET st == WithPredecessors(WithOrder(store))
           merged == MergeBlocks(prog, st.reverse_post_order, st.predecessors)
       IN Completed(Changed(merged.prog), [st EXCEPT !.predecessors = merged.preds], {"predecessors"})

RunInlining ==
    /\ Runs("i")
    /\ LET st == WithOrder(store) IN Completed(Inline(prog, st.reverse_post_order), st, {})

RunDefragment ==
    /\ Runs("d")
    /\ LET st == WithReachable(store) IN Completed(Defragment(prog, st.reachable_blocks), st, {})

(* SCCP writes its set of blocks into the store and declares it valid. *)
BeginSccp ==
    /\ Runs("s")
    /\ LET st == WithDefUse(WithOrder(store))
       IN store' = st /\ functions' = st.reverse_post_order.functions /\ uses' = st.def_use
    /\ schedule' = Tail(schedule) /\ sccp' = "idle" /\ manager' = "sccp"
    /\ UNCHANGED <<prog, lat, reachable, cfgWork, valueWork, todo>>

RunSccp ==
    /\ manager = "sccp"
    /\ (sccp = "idle" /\ StartAnalysis) \/ AnalysisStep \/ ApplyNoTarget
    /\ UNCHANGED <<schedule, store, manager>>

(* Mutation: the predecessors are kept as well. *)
EndSccp_Predecessors ==
    /\ manager = "sccp" /\ Apply
    /\ store' = Preserve([store EXCEPT !.reachable_blocks = reachable], {"reachable_blocks", "predecessors"})
    /\ manager' = "ready"
    /\ UNCHANGED schedule

EndSccp ==
    /\ manager = "sccp" /\ Apply
    /\ store' = Preserve([store EXCEPT !.reachable_blocks = reachable], {"reachable_blocks"})
    /\ manager' = "ready"
    /\ UNCHANGED schedule

-----------------------------------------------------------------------------
(* run_legalize *)

Checks(check) == manager = check /\ UNCHANGED <<sccpVars, schedule>>
Proceed(valid, next) == manager' = IF valid THEN next ELSE "rejected"

CheckEntryPoints ==
    /\ Checks("ready") /\ schedule = <<>>
    /\ Proceed(EntryPointsAreValid(prog), "blocks")
    /\ UNCHANGED store

CheckBlocks ==
    /\ Checks("blocks")
    /\ Proceed(BlocksAreValid(prog), "cfg")
    /\ UNCHANGED store

CheckCfg ==
    /\ Checks("cfg")
    /\ store' = WithOrder(store)
    /\ Proceed(CfgIsValid(prog, ToSet(store'.reverse_post_order.functions)), "calls")

CheckCalls ==
    /\ Checks("calls")
    /\ Proceed(CallsAreAcyclic(prog, ToSet(store.reverse_post_order.functions)), "dominators")
    /\ UNCHANGED store

(* Each block but the entries must have a predecessor that comes before it. *)
OrderHasPredecessors(st) ==
    \A f \in ToSet(st.reverse_post_order.functions) :
        LET order == st.reverse_post_order.blocks[f]
        IN \A i \in 2 .. Len(order) : \E j \in 1 .. i - 1 : order[j] \in ToSet(st.predecessors[order[i]])

(* Computed when they are not valid. *)
GetDominators ==
    /\ Checks("dominators")
    /\ LET st == WithPredecessors(store)
       IN \/ store.dominators # None /\ UNCHANGED store /\ manager' = "locals"
          \/ /\ store.dominators = None /\ OrderHasPredecessors(st)
             /\ store' = [st EXCEPT !.dominators = Dominators(st.reverse_post_order, st.predecessors)]
             /\ manager' = "locals"
          \/ /\ store.dominators = None /\ ~OrderHasPredecessors(st)
             /\ store' = st /\ manager' = "panic"

CheckLocals ==
    /\ Checks("locals")
    /\ Proceed(IsSingleAssignment(prog, BlocksRpo(store.reverse_post_order))
               /\ ScopesAreValid(prog, store.dominators), "accepted")
    /\ UNCHANGED store

-----------------------------------------------------------------------------
Stopped ==
    /\ manager \in {"accepted", "rejected", "panic"} \/ sccp = "panic"
    /\ UNCHANGED managerVars

(* run_ssa_transform leaves its analyses behind, and a new manager has none. *)
Fresh(p) ==
    LET rpo == ReversePostOrder(p)
        preds == Predecessors(p, ReachableBlocks(rpo))
    IN [reverse_post_order |-> rpo, reachable_blocks |-> ReachableBlocks(rpo), predecessors |-> preds,
        dominators |-> Dominators(rpo, preds), def_use |-> None]

ManagerInit ==
    /\ \/ prog \in Programs /\ schedule \in Schedules /\ store \in {NothingValid, Fresh(prog)}
       \/ prog \in Suspects /\ schedule = <<>> /\ store = NothingValid
    /\ manager = "ready"
    /\ functions = <<>> /\ uses = <<>> /\ lat = <<>>
    /\ reachable = {} /\ cfgWork = <<>> /\ valueWork = <<>> /\ todo = <<>>
    /\ sccp = "idle"

ManagerNext ==
    \/ RunCopyPropagation \/ RunSwitchPeephole \/ RunUnusedElimination
    \/ RunBasicBlockMerging \/ RunInlining \/ RunDefragment
    \/ BeginSccp \/ RunSccp \/ EndSccp
    \/ CheckEntryPoints \/ CheckBlocks \/ CheckCfg \/ CheckCalls \/ GetDominators \/ CheckLocals
    \/ Stopped

ManagerSpec == ManagerInit /\ [][ManagerNext]_managerVars

-----------------------------------------------------------------------------
(* What a string of passes promises, whatever it is, and what the verdict  *)
(* of the legalizer is worth.                                              *)
Original == CHOOSE p \in Programs : p.id = prog.id
Optimizing == \E p \in Programs : p.id = prog.id

(* No assertion, expect or lookup of a pass or of an analysis fails: what  *)
(* one pass leaves is what the next relies on.                             *)
PassAssertionsHold == manager # "panic" /\ sccp # "panic"

(* ir_to_bytecode asserts it of its input, with the analyses of the store. *)
EdgesAreSplit(p, st) ==
    \A b \in st.reachable_blocks : Len(Successors(p, b)) > 1 =>
        \A to \in Cfg(p)[b] : Len(st.predecessors[to]) <= 1

(* Moreover each pass leaves a program that the legalizer accepts, and so  *)
(* it does in the end, with the analyses that are left in the store; and   *)
(* no pass brings back the critical edges that were split before: the      *)
(* driver does not split edges again before the release backend.           *)
PassesKeepTheProgramLegal ==
    /\ PassAssertionsHold
    /\ Optimizing => manager # "rejected"
    /\ manager = "ready" /\ Optimizing =>
          /\ IsLegal(prog)
          /\ EdgesAreSplit(Original, Fresh(Original)) => EdgesAreSplit(prog, WithPredecessors(WithReachable(store)))

SameBag(s, t) ==
    LET Count(seq, x) == Len(SelectSeq(seq, LAMBDA y : y = x))
    IN \A x \in ToSet(s) \cup ToSet(t) : Count(s, x) = Count(t, x)

(* An analysis that is declared valid is what computing it would give.     *)
(* Two are taken as sets or bags, as their users do: the blocks of SCCP    *)
(* may include functions that are no longer called, and the merger edits   *)
(* predecessors out of order.                                              *)
ValidIsFresh ==
    manager \in {"ready", "accepted"} =>
        LET rpo == ReversePostOrder(prog)
            reach == ReachableBlocks(rpo)
            preds == Predecessors(prog, reach)
            Valid(analysis) == store[analysis] # None
        IN /\ Valid("reverse_post_order") => store.reverse_post_order = rpo
           /\ Valid("def_use") => store.def_use = DefUse(prog, rpo)
           /\ Valid("reachable_blocks") => reach \subseteq store.reachable_blocks
           /\ Valid("predecessors") => \A b \in reach : SameBag(store.predecessors[b], preds[b])
           /\ Valid("dominators") => store.dominators = Dominators(rpo, preds)

(* Whatever the passes and their order, the program does what it did.      *)
PassesPreserveExecution ==
    manager = "ready" /\ Optimizing =>
        \A env \in Environments : SameBehaviour(Original, prog, env, Steps)

-----------------------------------------------------------------------------
(* Every path from the entry of f to b leads through d. *)
Dominates(p, f, d, b) ==
    LET next == [c \in BlockIds(p) |-> IF c = d THEN {} ELSE Cfg(p)[c]]
    IN d = b \/ b \notin Reached(next, {Entry(p, f)})

(* The iterative algorithm finds for each block the dominator that all its *)
(* other dominators dominate, for irreducible graphs as well.              *)
DominatorsAreExact ==
    manager \in {"locals", "accepted"} =>
        \A f \in ToSet(store.reverse_post_order.functions) : \A b \in Body(prog, f) \ {Entry(prog, f)} :
            LET strict == {d \in Body(prog, f) \ {b} : Dominates(prog, f, d, b)}
                idom == store.dominators[b]
            IN idom \in strict /\ \A d \in strict : Dominates(prog, f, d, idom)

(* The walk over the tree of dominators accepts exactly the programs in    *)
(* which no path leads to a use around the definition.                     *)
ScopesMeanDominance ==
    manager = "locals" =>
        (ScopesAreValid(prog, store.dominators)
            <=> \A f \in ToSet(store.reverse_post_order.functions) : UsesAreDefined(prog, f))

(* An accepted program never reads a local that is not set, never returns  *)
(* from an entry point, and calls no deeper than it has functions.         *)
AcceptedRunsSafely ==
    manager = "accepted" =>
        \A env \in Environments, f \in EntryPoints(prog) :
            LET run == Execution(prog, env, f, Steps)
            IN /\ run.status \in {"running", "stop"}
               /\ Len(run.stack) \in 1 .. Len(prog.functions)

(* The legalizer's verdict: dominators are exact, scopes follow them, and  *)
(* a program that passes is safe to run.                                   *)
VerdictIsSound == DominatorsAreExact /\ ScopesMeanDominance /\ AcceptedRunsSafely
=============================================================================

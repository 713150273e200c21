---------------------------- MODULE ComptimeEval ----------------------------
(***************************************************************************)
(* The comptime evaluator of plankc (frontend/hir-eval): consts and calls  *)
(* evaluated by recursive descent, memoised in three caches, bounded by a  *)
(* branch quota per call frame.                                            *)
(*                                                                         *)
(* One behaviour is one run of `evaluate` on one program.  The program is  *)
(* data: HIR blocks of statements reduced to their effect on control.  The *)
(* Rust call stack is `frames`; the Diverge value that unwinds a block is  *)
(* `ending`.  A Key stands for a FunctionKey (closure + comptime params),  *)
(* a Value for an interned ValueId; values are numbers added modulo        *)
(* ValueMod, enough to tell a wrong cached value from the right one.       *)
(***************************************************************************)
EXTENDS Integers, Sequences

CONSTANTS
    FnDefs,        \* hir::FnDefId
    NoFn,          \* the fn_def of const and entry point frames (None)
    Keys,          \* FunctionKey: a closure applied to given comptime params
    DefOf,         \* DefOf[k]: the FnDefId of the closure of key k
    Consts,        \* hir::ConstId
    Blocks,        \* hir::BlockId
    Programs,      \* the programs considered
    DefaultQuota,  \* DEFAULT_COMPTIME_BRANCH_QUOTA (1000 in the code)
    ValueMod       \* bound on values

Values == 0 .. ValueMod - 1

(* What a HIR instruction can do to control, see the actions below. *)
Statements ==
    [op : {"call"}, key : Keys, ct : BOOLEAN] \cup [op : {"const"}, id : Consts]
    \cup [op : {"branch", "oops", "fail", "stop"}] \cup [op : {"raise"}, limit : Nat]
    \cup [op : {"match"}, arms : Seq(Blocks)] \cup [op : {"while"}, body : Blocks]
    \cup [op : {"ret"}, dep : BOOLEAN, val : Values]

Code == Seq(Statements)

(* eval_return relies on the HIR lowerer: return is for function bodies. *)
Returnless(code) == \A i \in 1 .. Len(code) : code[i].op # "ret"

(* never: the return type is `never`; folds: it is comptime-only, or the   *)
(* function is eager and its arguments are all comptime; rtArg: the key of *)
(* calls that pass a runtime argument.                                     *)
WellFormed(p) ==
    /\ p.block \in [Blocks -> Code]
    /\ p.preamble \in [Keys -> Blocks]
    /\ p.body \in [Keys -> Blocks]
    /\ p.never \in [Keys -> BOOLEAN]
    /\ p.folds \in [Keys -> BOOLEAN]
    /\ p.rtArg \in [Keys -> BOOLEAN]
    /\ p.const \in [Consts -> Blocks]
    /\ p.entries \in Seq(Blocks)
    /\ p.consts \in Seq(Consts)
    /\ \A k \in Keys : Returnless(p.block[p.preamble[k]])
    /\ \A c \in Consts : Returnless(p.block[p.const[c]])
    /\ \A i \in 1 .. Len(p.entries) : Returnless(p.block[p.entries[i]])

ASSUME KeysAssumption == NoFn \notin FnDefs /\ DefOf \in [Keys -> FnDefs]
ASSUME BoundsAssumption == DefaultQuota \in Nat /\ ValueMod \in Nat \ {0}
ASSUME ProgramsAssumption == \A p \in Programs : WellFormed(p)

VARIABLES
    prog,         \* the program being evaluated (constant along a behaviour)
    entriesLeft,  \* entry points `evaluate` still has to lower
    constsLeft,   \* consts `evaluate` still has to visit
    frames,       \* call_frames with the Scope each belongs to, innermost last
    ending,       \* the Diverge unwinding the innermost block, or "none"
    evaluated,    \* EvaluatedFunctionCache
    lowered,      \* LoweredFunctionsCache
    consts,       \* evaluated_consts
    errors,       \* diagnostics emitted so far
    panic         \* the assertion that aborted the compiler, or "none": nothing
                  \* runs after a panic, what its step leaves behind is not used

caches == <<evaluated, lowered, consts>>
queues == <<entriesLeft, constsLeft>>
vars == <<prog, queues, frames, ending, caches, errors, panic>>
-----------------------------------------------------------------------------
(* Cache entries. *)
Value(v) == [end |-> FALSE, val |-> v]
DivergedEnd == [end |-> TRUE, val |-> 0]
Outcomes == {DivergedEnd} \cup {Value(v) : v \in Values}

Empty == [st |-> "empty"]
InProgress == [st |-> "inProgress"]
Poison == [st |-> "poison"]
CallResult(o, b, m) == [st |-> "done", outcome |-> o, branches |-> b, seen |-> m]
CallResults == [st : {"done"}, outcome : Outcomes, branches : Nat, seen : Nat]
EvaluatedStates == {Empty, InProgress, Poison} \cup CallResults

LoweredStates == {"empty", "inProgress", "poison", "fn"}
ConstStates == {"vacant", "inProgress", "value", "poison", "quotaExhausted"}

(* What a callee hands back: MaybePoisoned<Result<EvalValue, Diverge>>. *)
Divergences == {"poisoned", "quota", "end"}
Yields(v) == [how |-> "value", val |-> v]
Gives(how) == [how |-> how, val |-> 0]
Results == [how : {"value", "poison"} \cup Divergences, val : Values]

Roles == {"const", "entry", "preamble", "fold", "lower"}
Arms == [joined : {"ok", "value"} \cup Divergences, left : Seq(Blocks), rest : Code, loop : BOOLEAN]
Frames ==
    [role : Roles, id : Keys \cup Consts \cup Blocks, fn : FnDefs \cup {NoFn}, folding : BOOLEAN,
     limit : Nat, spent : Nat, seen : Nat, code : Code, arms : Seq(Arms),
     acc : Values, bad : BOOLEAN, badType : BOOLEAN, existing : EvaluatedStates, before : Nat]

(* Scope::new pushes one CallFrame. *)
NewFrame(role, id, fn, folding, limit, code) ==
    [role |-> role, id |-> id, fn |-> fn, folding |-> folding,
     limit |-> limit, spent |-> 0, seen |-> DefaultQuota, code |-> code, arms |-> <<>>,
     acc |-> 0, bad |-> FALSE, badType |-> FALSE, existing |-> Empty, before |-> 0]

TypeOK ==
    /\ WellFormed(prog)
    /\ entriesLeft \in Seq(Blocks) /\ constsLeft \in Seq(Consts)
    /\ frames \in Seq(Frames)
    /\ ending \in {"none", "value"} \cup Divergences
    /\ evaluated \in [Keys -> EvaluatedStates]
    /\ lowered \in [Keys -> LoweredStates]
    /\ consts \in [Consts -> ConstStates]
    /\ \A e \in errors : e.id \in Keys \cup Consts \cup Blocks
-----------------------------------------------------------------------------
Top == frames[Len(frames)]
Below == SubSeq(frames, 1, Len(frames) - 1)
WithTop(f) == [frames EXCEPT ![Len(frames)] = f]
Max2(a, b) == IF a >= b THEN a ELSE b

(* Scope.comptime: consts, preambles and folded bodies run under with_comptime. *)
Comptime(f) == f.role \in {"const", "preamble", "fold"}
CanSpend(f, n) == f.spent + n <= f.limit
SetMaxQuota(f, n) == [f EXCEPT !.limit = Max2(@, n), !.seen = Max2(@, n)]
Emit(kind) == errors' = errors \cup {[kind |-> kind, id |-> Top.id]}

Advance(f) == [f EXCEPT !.code = Tail(@)]
(* Mutation: the value a call returned is not bound. *)
Receive_Dropped(f, r) == [f EXCEPT !.bad = @ \/ r.how = "poison"]
Receive(f, r) == [f EXCEPT !.acc = (@ + r.val) % ValueMod, !.bad = @ \/ r.how = "poison"]

(* Mutation: the caller keeps the limit its callee raised. *)
Return_LeaksLimit(r) ==
    /\ frames' = IF Below = <<>> THEN <<>>
                 ELSE [Below EXCEPT ![Len(frames) - 1] =
                         [Receive(@, r) EXCEPT !.limit = Max2(@, Top.limit)]]
    /\ ending' = IF Below # <<>> /\ r.how \in Divergences THEN r.how ELSE "none"

(* The frame pops (Scope::drop) and its result reaches the expression of   *)
(* the caller: poison binds a local, a Diverge unwinds the caller's block. *)
Return(r) ==
    /\ frames' = IF Below = <<>> THEN <<>>
                 ELSE [Below EXCEPT ![Len(frames) - 1] = Receive(@, r)]
    /\ ending' = IF Below # <<>> /\ r.how \in Divergences THEN r.how ELSE "none"

Ready == panic = "none" /\ frames # <<>>
At(op) == Ready /\ ending = "none" /\ Top.code # <<>> /\ Head(Top.code).op = op
BlockOver == Ready /\ (ending # "none" \/ Top.code = <<>>)
BlockResult == IF ending = "none" THEN "ok" ELSE ending
Ended(role) == BlockOver /\ Top.arms = <<>> /\ Top.role = role
-----------------------------------------------------------------------------
(* evaluate(): entry points in order, then every const in order. *)
StartEntry ==
    /\ panic = "none" /\ frames = <<>> /\ entriesLeft # <<>>
    /\ LET b == Head(entriesLeft) IN
       frames' = <<NewFrame("entry", b, NoFn, FALSE, DefaultQuota, prog.block[b])>>
    /\ entriesLeft' = Tail(entriesLeft)
    /\ UNCHANGED <<prog, constsLeft, ending, caches, errors, panic>>

ConstFrame(c) == NewFrame("const", c, NoFn, TRUE, DefaultQuota, prog.block[prog.const[c]])

StartConst ==
    /\ panic = "none" /\ frames = <<>> /\ entriesLeft = <<>> /\ constsLeft # <<>>
    /\ LET c == Head(constsLeft) IN
       IF consts[c] = "vacant"
       THEN frames' = <<ConstFrame(c)>> /\ consts' = [consts EXCEPT ![c] = "inProgress"]
       ELSE UNCHANGED <<frames, consts>>
    /\ constsLeft' = Tail(constsLeft)
    /\ UNCHANGED <<prog, entriesLeft, ending, evaluated, lowered, errors, panic>>

(* ExprKind::ConstRef: evaluate_const from within an expression. *)
ReadConst ==
    /\ At("const")
    /\ LET c == Head(Top.code).id IN
       \/ /\ consts[c] = "vacant"
          /\ frames' = Append(WithTop(Advance(Top)), ConstFrame(c))
          /\ consts' = [consts EXCEPT ![c] = "inProgress"]
          /\ UNCHANGED errors
       \/ /\ consts[c] = "inProgress"
          /\ frames' = WithTop(Receive(Advance(Top), Gives("poison")))
          /\ consts' = [consts EXCEPT ![c] = "poison"]
          /\ Emit("constCycle")
       \/ /\ consts[c] \notin {"vacant", "inProgress"}
          /\ frames' = WithTop(Receive(Advance(Top),
                                       IF consts[c] = "value" THEN Yields(0) ELSE Gives("poison")))
          /\ UNCHANGED <<consts, errors>>
    /\ UNCHANGED <<prog, queues, ending, evaluated, lowered, panic>>

(* The tail of evaluate_const.  A poison that a cycle stored meanwhile     *)
(* stays, but the value just computed is still what the reader receives.   *)
FinishConstDiverged ==
    /\ Ended("const") /\ ending # "none"
    /\ consts' = [consts EXCEPT ![Top.id] = IF ending = "quota" THEN "quotaExhausted" ELSE "poison"]
    /\ Return(Gives("poison"))
    /\ UNCHANGED <<prog, queues, evaluated, lowered, errors, panic>>

FinishConst ==
    /\ Ended("const") /\ ending = "none"
    /\ panic' = IF consts[Top.id] \in {"inProgress", "poison"} THEN panic
                ELSE "const state changed while evaluating"
    /\ consts' = [consts EXCEPT ![Top.id] = IF @ = "poison" \/ Top.bad THEN "poison" ELSE "value"]
    /\ Return(IF Top.bad THEN Gives("poison") ELSE Yields(0))
    /\ UNCHANGED <<prog, queues, evaluated, lowered, errors>>

(* lower_entrypoint: an entry block must diverge. *)
FinishEntry ==
    /\ Ended("entry")
    /\ IF ending = "none" THEN Emit("missingTerminator") ELSE UNCHANGED errors
    /\ Return(Gives("poison"))
    /\ UNCHANGED <<prog, queues, caches, panic>>
-----------------------------------------------------------------------------
(* Statements of the innermost block. *)

(* charge_branch: one iteration of a comptime or inline while. *)
ChargeBranch ==
    /\ At("branch")
    /\ IF CanSpend(Top, 1)
       THEN frames' = WithTop([Advance(Top) EXCEPT !.spent = @ + 1]) /\ UNCHANGED <<ending, errors>>
       ELSE ending' = "quota" /\ Emit("loopQuota") /\ UNCHANGED frames
    /\ UNCHANGED <<prog, queues, caches, panic>>

(* @set_eval_branch_quota *)
RaiseQuota ==
    /\ At("raise")
    /\ frames' = WithTop(SetMaxQuota(Advance(Top), Head(Top.code).limit))
    /\ UNCHANGED <<prog, queues, ending, caches, errors, panic>>

(* An expression that is diagnosed and binds poison (a type mismatch, ...). *)
BindPoison ==
    /\ At("oops")
    /\ frames' = WithTop(Receive(Advance(Top), Gives("poison")))
    /\ Emit("badExpression")
    /\ UNCHANGED <<prog, queues, ending, caches, panic>>

(* @compile_error *)
CompileError ==
    /\ At("fail")
    /\ ending' = "poisoned" /\ Emit("compileError")
    /\ UNCHANGED <<prog, queues, frames, caches, panic>>

(* A terminating EVM builtin: ends a runtime block, is an error at comptime. *)
Stop ==
    /\ At("stop")
    /\ IF Comptime(Top) THEN ending' = "poisoned" /\ Emit("runtimeBuiltin")
                        ELSE ending' = "end" /\ UNCHANGED errors
    /\ UNCHANGED <<prog, queues, frames, caches, panic>>

(* eval_return: of a literal, or of what the calls so far returned. *)
ReturnStmt ==
    /\ At("ret")
    /\ LET s == Head(Top.code) IN
       IF s.dep /\ Top.bad
       THEN ending' = "poisoned" /\ UNCHANGED frames
       ELSE /\ ending' = IF Comptime(Top) THEN "value" ELSE "end"
            /\ frames' = WithTop([Top EXCEPT !.acc = IF s.dep THEN (@ + s.val) % ValueMod ELSE s.val])
    /\ UNCHANGED <<prog, queues, caches, errors, panic>>

(* eval_if and eval_match on a runtime condition, eval_runtime_while: all  *)
(* arms are evaluated one after the other, whatever the earlier ones gave. *)
EnterArms(bs, loop) ==
    IF Comptime(Top)
    THEN ending' = "poisoned" /\ Emit("runtimeEvalInComptime") /\ UNCHANGED frames
    ELSE /\ frames' = WithTop([Top EXCEPT
                !.code = prog.block[Head(bs)],
                !.arms = <<[joined |-> "end", left |-> Tail(bs),
                            rest |-> Tail(Top.code), loop |-> loop]>> \o @])
         /\ UNCHANGED <<ending, errors>>

Match ==
    /\ At("match") /\ Head(Top.code).arms # <<>>
    /\ EnterArms(Head(Top.code).arms, FALSE)
    /\ UNCHANGED <<prog, queues, caches, panic>>

RuntimeWhile ==
    /\ At("while")
    /\ EnterArms(<<Head(Top.code).body>>, TRUE)
    /\ UNCHANGED <<prog, queues, caches, panic>>

(* join_branch_results: poison wins over exhaustion, exhaustion over the   *)
(* rest; the join diverges normally only if both branches do.              *)
Join(a, b) ==
    IF "poisoned" \in {a, b} THEN "poisoned"
    ELSE IF "quota" \in {a, b} THEN "quota"
    ELSE IF "ok" \in {a, b} THEN "ok" ELSE "end"

(* The arms after the next one; mutation: the arm stays in the list. *)
Remaining_All(bs) == bs
Remaining(bs) == Tail(bs)

NextArm ==
    /\ BlockOver /\ Top.arms # <<>>
    /\ LET a == Head(Top.arms)
           joined == Join(a.joined, BlockResult)
           result == IF a.loop /\ joined = "end" THEN "ok" ELSE joined IN
       IF a.left # <<>>
       THEN /\ frames' = WithTop([Top EXCEPT
                    !.code = prog.block[Head(a.left)],
                    !.arms = <<[a EXCEPT !.joined = joined, !.left = Remaining(@)]>> \o Tail(@)])
            /\ ending' = "none"
       ELSE /\ frames' = WithTop([Top EXCEPT !.code = a.rest, !.arms = Tail(@)])
            /\ ending' = IF result = "ok" THEN "none" ELSE result
    /\ UNCHANGED <<prog, queues, caches, errors, panic>>
-----------------------------------------------------------------------------
(* eval_call_inner: check the arguments, charge one branch to every frame  *)
(* of the same function, push the callee's frame with a fresh counter and  *)
(* the caller's limit, and evaluate the type preamble in it.               *)
FramesOf(f) == {i \in DOMAIN frames : frames[i].fn = f}
(* Mutation: only the innermost frame of the function pays. *)
Charged_Innermost(f) ==
    [i \in DOMAIN frames |->
       IF frames[i].fn = f /\ \A j \in FramesOf(f) : j <= i
       THEN [frames[i] EXCEPT !.spent = @ + 1] ELSE frames[i]]
Charged(f) == [i \in DOMAIN frames |->
                  IF frames[i].fn = f THEN [frames[i] EXCEPT !.spent = @ + 1] ELSE frames[i]]

Call ==
    /\ At("call")
    /\ LET s == Head(Top.code)
           k == s.key
           comptime == Comptime(Top) \/ s.ct
           f == DefOf[k] IN
       IF comptime /\ prog.rtArg[k]
       THEN /\ frames' = WithTop(Receive(Advance(Top), Gives("poison")))
            /\ Emit("comptimeParamGotRuntime") /\ UNCHANGED ending
       ELSE IF \E i \in FramesOf(f) : ~CanSpend(frames[i], 1)
       THEN ending' = "quota" /\ Emit("callQuota") /\ UNCHANGED frames
       ELSE /\ frames' = Append([Charged(f) EXCEPT ![Len(frames)] = Advance(@)],
                                NewFrame("preamble", k, f, comptime \/ prog.folds[k], Top.limit,
                                         prog.block[prog.preamble[k]]))
            /\ UNCHANGED <<ending, errors>>
    /\ UNCHANGED <<prog, queues, caches, panic>>

(* Poison bound in a preamble reaches the return type.                     *)
(* eval_preamble diverged: exhaustion propagates, anything else poisons.   *)
PreambleFails ==
    /\ Ended("preamble") /\ ending # "none"
    /\ Return(Gives(IF ending = "quota" THEN "quota" ELSE "poison"))
    /\ UNCHANGED <<prog, queues, caches, errors, panic>>

CalleeReady(folding) == Ended("preamble") /\ ending = "none" /\ Top.folding = folding

(* preamble.return_type == Ok(TypeId::NEVER), given that the return type   *)
(* is or is not poisoned; suppress_poison_iff_diverging_return_type.       *)
Never(k, badType) == prog.never[k] /\ ~badType
Suppressed(k, badType) == IF Never(k, badType) THEN Gives("end") ELSE Gives("poison")
OutcomeResult(o) == IF o.end THEN Gives("end") ELSE Yields(o.val)
Replayable(e, f) == e.st = "done" /\ CanSpend(f, e.branches)

(* fold_comptime_call up to the evaluation of the body.  A replay spends   *)
(* the cached branches in the callee's own frame, which pops at once.      *)
FoldWithoutBody ==
    /\ CalleeReady(TRUE)
    /\ LET k == Top.id
           e == evaluated[k] IN
       \/ /\ Top.bad
          /\ Return(Gives("poison"))
          /\ UNCHANGED <<evaluated, errors>>
       \/ /\ ~Top.bad /\ e.st = "inProgress"
          /\ evaluated' = [evaluated EXCEPT ![k] = Poison]
          /\ Emit("comptimeRecursion") /\ Return(Gives("poison"))
       \/ /\ ~Top.bad /\ Replayable(e, Top)
          /\ Return(OutcomeResult(e.outcome))
          /\ UNCHANGED <<evaluated, errors>>
       \/ /\ ~Top.bad /\ e.st = "poison"
          /\ Return(Suppressed(k, FALSE))
          /\ UNCHANGED <<evaluated, errors>>
    /\ UNCHANGED <<prog, queues, lowered, consts, panic>>

MustEvaluate(k) ==
    /\ ~Top.bad
    /\ evaluated[k].st \in {"empty", "done"}
    /\ ~Replayable(evaluated[k], Top)

(* A comptime-only return type with a runtime argument: the pessimistic    *)
(* poison stays in the cache.                                              *)
FoldRejected ==
    /\ CalleeReady(TRUE) /\ MustEvaluate(Top.id) /\ prog.rtArg[Top.id]
    /\ evaluated' = [evaluated EXCEPT ![Top.id] = Poison]
    /\ Emit("comptimeOnlyReturnWithRuntimeArg") /\ Return(Gives("poison"))
    /\ UNCHANGED <<prog, queues, lowered, consts, panic>>

FoldBegin ==
    /\ CalleeReady(TRUE) /\ MustEvaluate(Top.id) /\ ~prog.rtArg[Top.id]
    /\ evaluated' = [evaluated EXCEPT ![Top.id] = InProgress]
    /\ frames' = WithTop([Top EXCEPT !.role = "fold", !.existing = evaluated[Top.id],
                                     !.before = Top.spent, !.acc = 0,
                                     !.code = prog.block[prog.body[Top.id]]])
    /\ UNCHANGED <<prog, queues, ending, lowered, consts, errors, panic>>

(* fold_comptime_call after the body. *)
FoldOutcome == IF ending = "value" THEN Value(Top.acc) ELSE DivergedEnd
(* Mutation: the operands are swapped. *)
BranchesConsumed_Swapped == Top.before - Top.spent
BranchesConsumed == Top.spent - Top.before
BodyPoisoned == ending = "poisoned" /\ ~prog.never[Top.id]
Contradicts(e, o) == e # Empty /\ e.outcome # o

(* Mutations: the entry is left in progress; it is cached as poisoned. *)
AfterExhaustion_Stuck(f) == InProgress
AfterExhaustion_Poison(f) == Poison
(* A call that ran out of quota can be retried: its entry is as before. *)
AfterExhaustion(f) == f.existing

FoldExhausted ==
    /\ Ended("fold") /\ ending = "quota"
    /\ evaluated' = [evaluated EXCEPT ![Top.id] = AfterExhaustion(Top)]
    /\ Return(Gives("quota"))
    /\ UNCHANGED <<prog, queues, lowered, consts, errors, panic>>

FoldPoisons ==
    /\ Ended("fold") /\ BodyPoisoned /\ Top.existing = Empty
    /\ evaluated' = [evaluated EXCEPT ![Top.id] = Poison]
    /\ Return(Gives("poison"))
    /\ UNCHANGED <<prog, queues, lowered, consts, errors, panic>>

FoldDone ==
    /\ Ended("fold") /\ ending \in {"value", "end", "poisoned"} /\ ~BodyPoisoned
    /\ panic' = IF Contradicts(Top.existing, FoldOutcome)
                THEN "re-evaluated function produced different cached outcome" ELSE panic
    /\ evaluated' = [evaluated EXCEPT ![Top.id] =
                        CallResult(FoldOutcome, BranchesConsumed, Top.seen)]
    /\ Return(OutcomeResult(FoldOutcome))
    /\ UNCHANGED <<prog, queues, lowered, consts, errors>>

FoldPanics ==
    /\ Ended("fold") /\ BodyPoisoned /\ Top.existing # Empty
    /\ panic' = "cached function re-evaluation should not poison"
    /\ UNCHANGED <<prog, queues, frames, ending, caches, errors>>
-----------------------------------------------------------------------------
(* lower_runtime_call_at_site, given the cached lowering. *)
CallSiteResult(k, badType, l) ==
    IF l = "poison" \/ Never(k, badType) THEN Suppressed(k, badType) ELSE Yields(0)

(* What recursion leaves in the entry; mutation: it looks retryable. *)
RecursionMark_Retry == "empty"
RecursionMark == "poison"

(* retrieve_or_create_entry found the function lowered or being lowered.   *)
(* Unlike comptime recursion, runtime recursion unwinds the caller's block.*)
LowerWithoutBody ==
    /\ CalleeReady(FALSE)
    /\ LET k == Top.id IN
       \/ /\ lowered[k] = "inProgress"
          /\ lowered' = [lowered EXCEPT ![k] = RecursionMark]
          /\ Emit("runtimeRecursion") /\ Return(Gives("poisoned"))
       \/ /\ lowered[k] \in {"fn", "poison"}
          /\ Return(CallSiteResult(k, Top.bad, lowered[k]))
          /\ UNCHANGED <<lowered, errors>>
    /\ UNCHANGED <<prog, queues, evaluated, consts, panic>>

LowerBegin ==
    /\ CalleeReady(FALSE) /\ lowered[Top.id] = "empty"
    /\ lowered' = [lowered EXCEPT ![Top.id] = "inProgress"]
    /\ frames' = WithTop([Top EXCEPT !.role = "lower", !.code = prog.block[prog.body[Top.id]],
                                     !.acc = 0, !.bad = FALSE, !.badType = Top.bad])
    /\ UNCHANGED <<prog, queues, ending, evaluated, consts, errors, panic>>

(* mark_retryable after exhaustion. *)
LowerExhausted ==
    /\ Ended("lower") /\ ending = "quota" /\ lowered[Top.id] = "inProgress"
    /\ lowered' = [lowered EXCEPT ![Top.id] = "empty"]
    /\ Return(Gives("quota"))
    /\ UNCHANGED <<prog, queues, evaluated, consts, errors, panic>>

(* try_set_lowered: poison stored by a recursive call stays. *)
LowerResult ==
    IF lowered[Top.id] = "poison" \/ ending = "poisoned" \/ Top.badType THEN "poison" ELSE "fn"

LowerDone ==
    /\ Ended("lower") /\ ending \in {"poisoned", "end", "value"}
    /\ panic' = IF lowered[Top.id] = "empty" THEN "lowering entry reset before result was stored"
                ELSE IF lowered[Top.id] = "fn" THEN "cache corrupted" ELSE panic
    /\ lowered' = [lowered EXCEPT ![Top.id] = LowerResult]
    /\ Return(CallSiteResult(Top.id, Top.badType, LowerResult))
    /\ UNCHANGED <<prog, queues, evaluated, consts, errors>>

LowerPanics ==
    /\ Ended("lower") /\ ending = "quota" /\ lowered[Top.id] # "inProgress"
    /\ panic' = "only in-progress lowering can be marked retryable"
    /\ UNCHANGED <<prog, queues, frames, ending, caches, errors>>
-----------------------------------------------------------------------------
Init ==
    /\ prog \in Programs
    /\ entriesLeft = prog.entries /\ constsLeft = prog.consts
    /\ frames = <<>> /\ ending = "none"
    /\ evaluated = [k \in Keys |-> Empty]
    /\ lowered = [k \in Keys |-> "empty"]
    /\ consts = [c \in Consts |-> "vacant"]
    /\ errors = {} /\ panic = "none"

Next ==
    \/ StartEntry \/ StartConst \/ ReadConst \/ FinishConst \/ FinishConstDiverged
    \/ FinishEntry
    \/ ChargeBranch \/ RaiseQuota \/ BindPoison \/ CompileError \/ Stop \/ ReturnStmt
    \/ Match \/ RuntimeWhile \/ NextArm
    \/ Call \/ PreambleFails
    \/ FoldWithoutBody \/ FoldRejected \/ FoldBegin
    \/ FoldExhausted \/ FoldPoisons \/ FoldDone \/ FoldPanics
    \/ LowerWithoutBody \/ LowerBegin \/ LowerExhausted \/ LowerDone \/ LowerPanics

Spec == Init /\ [][Next]_vars
(* The evaluator is one thread that runs until it is done. *)
FairSpec == Spec /\ WF_vars(Next)
=============================================================================

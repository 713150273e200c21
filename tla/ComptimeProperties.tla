------------------------- MODULE ComptimeProperties -------------------------
(***************************************************************************)
(* What the comptime evaluator must guarantee, stated over ComptimeEval.   *)
(* The reference definitions at the top give a program its meaning without *)
(* caches, quotas or recursion detection.                                  *)
(***************************************************************************)
EXTENDS ComptimeEval, FiniteSets, SequencesExt, FiniteSetsExt

(* The statements of a block up to its first return. *)
Executed(code) ==
    LET rets == {i \in DOMAIN code : code[i].op = "ret"}
    IN IF rets = {} THEN code ELSE SubSeq(code, 1, Min(rets))

Returned(code) ==
    LET last == Executed(code)[Len(Executed(code))]
    IN IF last.op = "ret" THEN last ELSE [op |-> "ret", dep |-> FALSE, val |-> 0]

CalledBy(code) == SelectSeq(Executed(code), LAMBDA s : s.op = "call")
Branches(code) == Len(SelectSeq(Executed(code), LAMBDA s : s.op = "branch"))

BodyOf(k) == prog.block[prog.body[k]]
Depth == Cardinality(Keys) + Cardinality(Consts)

(* The value of a call of k that meets no error, from the bodies alone     *)
(* (no body is empty: the HIR lowerer adds the missing return).            *)
ReferenceValue ==
    LET value[n \in 0 .. Depth] ==
          [k \in Keys |->
             LET sum == FoldLeft(LAMBDA v, s : v + IF n = 0 THEN 0 ELSE value[n - 1][s.key],
                                 0, CalledBy(BodyOf(k)))
             IN (Returned(BodyOf(k)).val + IF Returned(BodyOf(k)).dep THEN sum ELSE 0) % ValueMod]
    IN value[Depth]

(* How many frames of function f the block b pushes if nothing is cached:  *)
(* the frames of a const first read in b are on the same stack.            *)
FramesPushed(f) ==
    LET pushed[n \in 0 .. Depth] ==
          [b \in Blocks |->
             FoldLeft(LAMBDA c, s :
                        c + IF n = 0 THEN 0
                            ELSE IF s.op = "call"
                            THEN (IF DefOf[s.key] = f THEN 1 ELSE 0)
                                 + pushed[n - 1][prog.preamble[s.key]]
                                 + pushed[n - 1][prog.body[s.key]]
                            ELSE IF s.op = "const" THEN pushed[n - 1][prog.const[s.id]]
                            ELSE 0,
                      0, Executed(prog.block[b]))]
    IN pushed[Depth]

RecursiveCharges(k) == FramesPushed(DefOf[k])[prog.body[k]]
-----------------------------------------------------------------------------
IsDone(e) == e.st = "done"
Emitted(kind) == \E e \in errors : e.kind = kind
ErrorsOnly(kinds) == \A e \in errors : e.kind \in kinds

(* The frames that hold an entry of a cache while they evaluate it.        *)
Entries == {"fold", "lower", "const"}
EntriesOf(role) == IF role = "const" THEN Consts ELSE Keys
EntryState(role, id) ==
    IF role = "fold" THEN evaluated[id].st ELSE IF role = "lower" THEN lowered[id] ELSE consts[id]
Works(i, role, id) == frames[i].role = role /\ frames[i].id = id
OnStack(c) == \E i \in DOMAIN frames : Works(i, "const", c)

(* An entry marked in progress belongs to exactly one frame of the stack,  *)
(* and a frame's own entry is in progress or was poisoned by recursion:    *)
(* otherwise recursion goes undetected or is reported where there is none. *)
InProgressMatchesStack ==
    /\ \A role \in Entries : \A id \in EntriesOf(role) :
          EntryState(role, id) = "inProgress" => \E i \in DOMAIN frames : Works(i, role, id)
    /\ \A i \in DOMAIN frames : frames[i].role \in Entries =>
          /\ EntryState(frames[i].role, frames[i].id) \in {"inProgress", "poison"}
          /\ \A j \in DOMAIN frames : Works(j, frames[i].role, frames[i].id) => j = i

(* The branch quota bounds recursion: a frame has paid one branch for each *)
(* frame of the same function above it, and never spends past its limit    *)
(* (the assertion of ComptimeQuota::can_spend).                            *)
RecursionIsCharged ==
    \A i \in DOMAIN frames :
       /\ frames[i].spent <= frames[i].limit
       /\ frames[i].fn # NoFn =>
             frames[i].spent >= Cardinality({j \in FramesOf(frames[i].fn) : j > i})

(* Three of the evaluator's unreachable!() arms are indeed unreachable,    *)
(* whatever the program: the store of a lowering meets its own entry, and  *)
(* nothing but a cycle changes a const while it is evaluated.              *)
Unreachable ==
    panic \notin {"lowering entry reset before result was stored", "cache corrupted",
                  "const state changed while evaluating"}

(* Poison never appears silently: a program that produced no diagnostic    *)
(* has no poisoned value or cache entry anywhere, and hit no assertion.    *)
NoSilentPoison ==
    errors = {} =>
       /\ panic = "none"
       /\ ending \notin {"poisoned", "quota"}
       /\ \A k \in Keys : evaluated[k] # Poison /\ lowered[k] # "poison"
       /\ \A c \in Consts : consts[c] \notin {"poison", "quotaExhausted"}
       /\ \A i \in DOMAIN frames : ~frames[i].bad

(* The assertions of the evaluator only fail for a program that was        *)
(* already diagnosed as recursive.                                         *)
PanicOnlyAfterRecursion ==
    panic # "none" =>
       \E kind \in {"comptimeRecursion", "runtimeRecursion", "constCycle"} : Emitted(kind)

(* A cached comptime result is what a fresh evaluation would give.         *)
CachedValueIsReference ==
    errors = {} =>
       \A k \in Keys : IsDone(evaluated[k]) => evaluated[k].outcome = Value(ReferenceValue[k])

(* The recorded cost of a result is at least what its own body spends and  *)
(* at most what an uncached evaluation spends.                             *)
CachedCostIsBounded ==
    errors = {} =>
       \A k \in Keys : IsDone(evaluated[k]) =>
          /\ evaluated[k].branches >= Branches(BodyOf(k))
          /\ evaluated[k].branches <= Branches(BodyOf(k)) + RecursiveCharges(k)

(* Exhausting a quota is retryable: as long as nothing else went wrong and *)
(* no const was lost to it, no function is cached as poisoned.             *)
ExhaustionIsRetryable ==
    /\ ErrorsOnly({"loopQuota", "callQuota"})
    /\ \A c \in Consts : consts[c] # "quotaExhausted"
    => \A k \in Keys : evaluated[k] # Poison /\ lowered[k] # "poison"

(* What is cached, its value and its cost, is what evaluation would give.  *)
CacheIsReference == CachedValueIsReference /\ CachedCostIsBounded

(* Each way to fail stays what it is: poison comes with a diagnostic, an   *)
(* aborted compiler with one of recursion, and exhaustion can be retried.  *)
FailuresAreAccounted == NoSilentPoison /\ PanicOnlyAfterRecursion /\ ExhaustionIsRetryable
-----------------------------------------------------------------------------
(* A limit is private to its frame: no step changes the limit of a         *)
(* suspended frame, and none lowers the running frame's.                   *)
LimitsArePrivate ==
    \A i \in DOMAIN frames \cap DOMAIN frames' :
       /\ frames'[i].limit >= frames[i].limit
       /\ i < Len(frames) => frames'[i].limit = frames[i].limit

(* What has been decided and is not under evaluation stays decided.        *)
DecidedIsFinal ==
    /\ \A c \in Consts : consts[c] # "vacant" /\ ~OnStack(c) => consts'[c] = consts[c]
    /\ \A k \in Keys : lowered[k] \in {"fn", "poison"} => lowered'[k] = lowered[k]
    /\ \A k \in Keys : IsDone(evaluated[k]) /\ IsDone(evaluated'[k])
                       => evaluated'[k] = evaluated[k]

(* An evaluation changes neither the budget of its suspended callers nor   *)
(* any verdict reached before it.                                          *)
CallersAndVerdictsStand == [][LimitsArePrivate /\ DecidedIsFinal]_vars

(* Evaluation of every program ends: the quota bounds recursion.           *)
Finished == panic # "none" \/ (frames = <<>> /\ entriesLeft = <<>> /\ constsLeft = <<>>)
Termination == <>Finished
=============================================================================

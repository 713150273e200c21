--------------------------- MODULE ComptimeProofs ---------------------------
(***************************************************************************)
(* Proofs about the comptime evaluator, for every program and quota: type  *)
(* correctness; the in-progress marks of the three caches correspond to    *)
(* the frames of the stack, so recursion is detected exactly when it       *)
(* happens and three assertions of the evaluator never fail; what the      *)
(* frames have paid for the frames above them; and what a step leaves      *)
(* alone in the frames and verdicts it does not own.                       *)
(***************************************************************************)
EXTENDS ComptimeProperties, SequenceTheorems, FiniteSetTheorems, TLAPS

(* What TypeOK leaves out of a frame: whose entry it works on, and that    *)
(* its counters are ordered.                                               *)
GoodFrames ==
    {f \in Frames :
       /\ f.role \in {"preamble", "fold", "lower"} => f.id \in Keys
       /\ f.role = "const" => f.id \in Consts
       /\ f.existing \in {Empty} \cup CallResults
       /\ f.before <= f.spent /\ f.spent <= f.limit}

TypeInv == TypeOK /\ frames \in Seq(GoodFrames)
-----------------------------------------------------------------------------
(* Sequences used as stacks. *)
LEMMA StackTop ==
    ASSUME NEW S, NEW s \in Seq(S), s # <<>>, NEW x \in S
    PROVE  /\ s[Len(s)] \in S
           /\ Append(s, x) \in Seq(S)
           /\ [s EXCEPT ![Len(s)] = x] \in Seq(S)
           /\ Len([s EXCEPT ![Len(s)] = x]) = Len(s)
           /\ Len(s) \in Nat \ {0}
  BY EmptySeq, ElementOfSeq, AppendProperties, ExceptSeq, LenProperties

LEMMA Singleton ==
    ASSUME NEW S, NEW x \in S
    PROVE  <<x>> \in Seq(S)
  OBVIOUS

LEMMA StackBelow ==
    ASSUME NEW S, NEW s \in Seq(S), s # <<>>
    PROVE  /\ SubSeq(s, 1, Len(s) - 1) \in Seq(S)
           /\ Len(SubSeq(s, 1, Len(s) - 1)) = Len(s) - 1
           /\ \A i \in 1 .. Len(s) - 1 : SubSeq(s, 1, Len(s) - 1)[i] = s[i]
  <1> DEFINE n == Len(s) - 1
  <1>1. n \in Nat /\ \A i \in 1 .. n : s[i] \in S
    BY EmptySeq, ElementOfSeq
  <1> HIDE DEF n
  <1>2. /\ SubSeq(s, 1, n) \in Seq(S)
        /\ Len(SubSeq(s, 1, n)) = IF 1 <= n THEN n - 1 + 1 ELSE 0
        /\ \A i \in 1 .. n - 1 + 1 : SubSeq(s, 1, n)[i] = s[1 + i - 1]
    BY <1>1, SubSeqProperties
  <1>3. (IF 1 <= n THEN n - 1 + 1 ELSE 0) = n /\ n - 1 + 1 = n
    BY <1>1
  <1>4. \A i \in 1 .. n : 1 + i - 1 = i
    BY <1>1
  <1> QED
    BY <1>2, <1>3, <1>4 DEF n

LEMMA TopIsGood ==
    ASSUME TypeInv, frames # <<>>
    PROVE  Top \in GoodFrames /\ Top \in Frames
  BY StackTop DEF TypeInv, Top, GoodFrames

LEMMA WithTopIsGood ==
    ASSUME TypeInv, frames # <<>>, NEW f \in GoodFrames
    PROVE  WithTop(f) \in Seq(GoodFrames) /\ WithTop(f) # <<>>
  BY StackTop, EmptySeq DEF TypeInv, WithTop

LEMMA AdvanceIsGood ==
    ASSUME NEW f \in GoodFrames, f.code # <<>>
    PROVE  Advance(f) \in GoodFrames
  <1>1. Tail(f.code) \in Code
    BY HeadTailProperties DEF GoodFrames, Frames, Code
  <1> QED
    BY <1>1 DEF Advance, GoodFrames, Frames

LEMMA ReceiveIsGood ==
    ASSUME NEW f \in GoodFrames, NEW r \in Results
    PROVE  Receive(f, r) \in GoodFrames
  <1>1. (f.acc + r.val) % ValueMod \in Values
    BY BoundsAssumption DEF GoodFrames, Frames, Results, Values
  <1>2. (f.bad \/ r.how = "poison") \in BOOLEAN
    OBVIOUS
  <1> QED
    BY <1>1, <1>2 DEF Receive, GoodFrames, Frames

(* charge_branch after can_spend. *)
LEMMA SpendIsGood ==
    ASSUME NEW f \in GoodFrames, CanSpend(f, 1)
    PROVE  [f EXCEPT !.spent = @ + 1] \in GoodFrames
  <1> DEFINE n == f.spent + 1
  <1>1. n \in Nat /\ f.before <= n /\ n <= f.limit
    BY DEF CanSpend, GoodFrames, Frames
  <1> HIDE DEF n
  <1>2. [f EXCEPT !.spent = n] \in GoodFrames
    BY <1>1 DEF GoodFrames, Frames
  <1> QED
    BY <1>2 DEF n

LEMMA SetMaxQuotaIsGood ==
    ASSUME NEW f \in GoodFrames, NEW n \in Nat
    PROVE  SetMaxQuota(f, n) \in GoodFrames
  <1> DEFINE limit == Max2(f.limit, n)
             seen == Max2(f.seen, n)
  <1>1. limit \in Nat /\ seen \in Nat /\ f.spent <= limit
    BY DEF Max2, GoodFrames, Frames
  <1> HIDE DEF limit, seen
  <1>2. [f EXCEPT !.limit = limit, !.seen = seen] \in GoodFrames
    BY <1>1 DEF GoodFrames, Frames
  <1> QED
    BY <1>2 DEF limit, seen, SetMaxQuota

LEMMA ReturnIsGood ==
    ASSUME TypeInv, frames # <<>>, NEW r \in Results, Return(r)
    PROVE  frames' \in Seq(GoodFrames) /\ ending' \in {"none", "value"} \cup Divergences
  <1>1. /\ Below \in Seq(GoodFrames) /\ Len(Below) = Len(frames) - 1
        /\ Len(frames) \in Nat \ {0}
    BY StackBelow, StackTop, EmptySeq DEF TypeInv, Below
  <1>2. CASE Below = <<>>
    BY <1>2, EmptySeq DEF Return
  <1>3. CASE Below # <<>>
    <2>1. frames' = [Below EXCEPT ![Len(Below)] = Receive(Below[Len(Below)], r)]
      BY <1>1, <1>3 DEF Return
    <2>2. Below[Len(Below)] \in GoodFrames
      BY <1>1, <1>3, EmptySeq, ElementOfSeq
    <2> QED
      BY <1>1, <1>3, <2>1, <2>2, ReceiveIsGood, StackTop DEF Return
  <1> QED
    BY <1>2, <1>3

LEMMA ZeroIsValue == 0 \in Values
BY BoundsAssumption DEF Values

LEMMA NewFrameIsGood ==
    ASSUME NEW role \in Roles, NEW id \in Keys \cup Consts \cup Blocks,
           NEW fn \in FnDefs \cup {NoFn}, NEW folding \in BOOLEAN, NEW limit \in Nat,
           NEW code \in Code,
           role \in {"preamble", "fold", "lower"} => id \in Keys,
           role = "const" => id \in Consts
    PROVE  NewFrame(role, id, fn, folding, limit, code) \in GoodFrames
  <1>1. <<>> \in Seq(Arms)
    BY EmptySeq
  <1>2. 0 \in Values /\ DefaultQuota \in Nat /\ 0 <= limit
    BY BoundsAssumption DEF Values
  <1> QED
    BY <1>1, <1>2 DEF NewFrame, GoodFrames, Frames, EvaluatedStates

LEMMA StatementAtTop ==
    ASSUME TypeInv, frames # <<>>, Top.code # <<>>, NEW s, s = Head(Top.code)
    PROVE  /\ s \in Statements
           /\ s.op = "call" => s.key \in Keys /\ s.ct \in BOOLEAN
           /\ s.op = "const" => s.id \in Consts
           /\ s.op = "raise" => s.limit \in Nat
           /\ s.op = "match" => s.arms \in Seq(Blocks)
           /\ s.op = "while" => s.body \in Blocks
           /\ s.op = "ret" => s.dep \in BOOLEAN /\ s.val \in Values
  <1>1. s \in Statements
    BY TopIsGood, HeadTailProperties DEF Frames, Code
  <1> QED
    BY <1>1 DEF Statements

(* A step keeps the invariant if it keeps the program and what it assigns  *)
(* has the right type.                                                     *)
LEMMA TypeInvStep ==
    ASSUME TypeInv, prog' = prog,
           entriesLeft' \in Seq(Blocks), constsLeft' \in Seq(Consts),
           frames' \in Seq(GoodFrames),
           ending' \in {"none", "value"} \cup Divergences,
           evaluated' \in [Keys -> EvaluatedStates],
           lowered' \in [Keys -> LoweredStates],
           consts' \in [Consts -> ConstStates],
           errors' = errors \/ \E kind : frames # <<>> /\ Emit(kind)
    PROVE  TypeInv'
  <1>1. frames' \in Seq(Frames)
    BY SeqMonotonic DEF GoodFrames
  <1>2. WellFormed(prog)'
    BY DEF TypeInv, TypeOK, WellFormed
  <1>3. (\A e \in errors : e.id \in Keys \cup Consts \cup Blocks)'
    <2>1. frames # <<>> => Top.id \in Keys \cup Consts \cup Blocks
      BY TopIsGood DEF Frames
    <2> QED
      BY <2>1 DEF TypeInv, TypeOK, Emit
  <1> QED
    BY <1>1, <1>2, <1>3 DEF TypeInv, TypeOK
-----------------------------------------------------------------------------
LEMMA InitTypeInv ==
    ASSUME Init
    PROVE  TypeInv
  <1>1. WellFormed(prog)
    BY ProgramsAssumption DEF Init
  <1>2. <<>> \in Seq(GoodFrames) /\ <<>> \in Seq(Frames)
    BY EmptySeq
  <1>3. entriesLeft \in Seq(Blocks) /\ constsLeft \in Seq(Consts)
    BY <1>1 DEF Init, WellFormed
  <1>4. /\ evaluated \in [Keys -> EvaluatedStates] /\ lowered \in [Keys -> LoweredStates]
        /\ consts \in [Consts -> ConstStates]
    BY DEF Init, EvaluatedStates, LoweredStates, ConstStates
  <1> QED
    BY <1>1, <1>2, <1>3, <1>4 DEF Init, TypeInv, TypeOK

(* What every action may assume of the running frame and the program. *)
LEMMA Running ==
    ASSUME TypeInv, frames # <<>>
    PROVE  /\ Top \in GoodFrames
           /\ Top.role \in Roles /\ Top.id \in Keys \cup Consts \cup Blocks
           /\ Top.role \in {"preamble", "fold", "lower"} => Top.id \in Keys
           /\ Top.role = "const" => Top.id \in Consts
           /\ Top.limit \in Nat /\ Top.spent \in Nat /\ Top.seen \in Nat /\ Top.before \in Nat
           /\ Top.before <= Top.spent /\ Top.spent <= Top.limit
           /\ Top.code \in Code /\ Top.arms \in Seq(Arms) /\ Top.acc \in Values
           /\ Top.bad \in BOOLEAN /\ Top.badType \in BOOLEAN
           /\ Top.existing \in {Empty} \cup CallResults
  BY TopIsGood DEF GoodFrames, Frames

LEMMA Program ==
    ASSUME TypeInv
    PROVE  /\ \A b \in Blocks : prog.block[b] \in Code
           /\ \A k \in Keys : /\ prog.preamble[k] \in Blocks /\ prog.body[k] \in Blocks
                             /\ prog.never[k] \in BOOLEAN /\ prog.folds[k] \in BOOLEAN
           /\ \A c \in Consts : prog.const[c] \in Blocks
           /\ \A k \in Keys : DefOf[k] \in FnDefs
  BY KeysAssumption DEF TypeInv, TypeOK, WellFormed

LEMMA ResultTypes ==
    /\ \A v \in Values : Yields(v) \in Results
    /\ \A how \in {"poison"} \cup Divergences : Gives(how) \in Results
    /\ 0 \in Values
  BY BoundsAssumption DEF Yields, Gives, Results, Values, Divergences

LEMMA ConstFrameIsGood ==
    ASSUME TypeInv, NEW c \in Consts
    PROVE  ConstFrame(c) \in GoodFrames
  <1>1. prog.block[prog.const[c]] \in Code
    BY Program
  <1> QED
    BY <1>1, NewFrameIsGood, BoundsAssumption DEF ConstFrame, Roles

LEMMA EvaluateSteps ==
    ASSUME TypeInv,
           StartEntry \/ StartConst \/ ReadConst \/ FinishConst \/ FinishConstDiverged
           \/ FinishEntry
    PROVE  TypeInv'
  <1> USE DEF caches, queues
  <1>t. /\ entriesLeft \in Seq(Blocks) /\ constsLeft \in Seq(Consts)
        /\ frames \in Seq(GoodFrames) /\ ending \in {"none", "value"} \cup Divergences
        /\ evaluated \in [Keys -> EvaluatedStates] /\ lowered \in [Keys -> LoweredStates]
        /\ consts \in [Consts -> ConstStates]
    BY DEF TypeInv, TypeOK
  <1>1. CASE StartEntry
    <2>1. Head(entriesLeft) \in Blocks /\ entriesLeft' \in Seq(Blocks)
      BY <1>1, <1>t, HeadTailProperties DEF StartEntry
    <2>2. NewFrame("entry", Head(entriesLeft), NoFn, FALSE, DefaultQuota,
                   prog.block[Head(entriesLeft)]) \in GoodFrames
      BY <2>1, Program, NewFrameIsGood, BoundsAssumption DEF Roles
    <2>3. frames' \in Seq(GoodFrames)
      BY <1>1, <2>2, Singleton DEF StartEntry
    <2> QED
      BY <1>1, <1>t, <2>1, <2>3, TypeInvStep DEF StartEntry
  <1>2. CASE StartConst
    <2>1. Head(constsLeft) \in Consts /\ constsLeft' \in Seq(Consts)
      BY <1>2, <1>t, HeadTailProperties DEF StartConst
    <2>2. frames' \in Seq(GoodFrames)
      BY <1>2, <1>t, <2>1, ConstFrameIsGood, Singleton DEF StartConst
    <2>3. consts' \in [Consts -> ConstStates]
      BY <1>2, <1>t, <2>1 DEF StartConst, ConstStates
    <2> QED
      BY <1>2, <1>t, <2>1, <2>2, <2>3, TypeInvStep DEF StartConst
  <1>3. CASE ReadConst
    <2> DEFINE c == Head(Top.code).id
    <2>1. frames # <<>> /\ Top.code # <<>> /\ c \in Consts /\ Advance(Top) \in GoodFrames
      BY <1>3, StatementAtTop, Running, AdvanceIsGood DEF ReadConst, At, Ready
    <2>2. frames' \in Seq(GoodFrames)
      <3>1. Append(WithTop(Advance(Top)), ConstFrame(c)) \in Seq(GoodFrames)
        BY <2>1, WithTopIsGood, ConstFrameIsGood, StackTop
      <3>2. \A r \in Results : WithTop(Receive(Advance(Top), r)) \in Seq(GoodFrames)
        BY <2>1, ReceiveIsGood, WithTopIsGood
      <3> QED
        BY <1>3, <3>1, <3>2, ResultTypes DEF ReadConst
    <2>3. consts' \in [Consts -> ConstStates]
      BY <1>3, <1>t, <2>1 DEF ReadConst, ConstStates
    <2> QED
      BY <1>3, <1>t, <2>1, <2>2, <2>3, TypeInvStep DEF ReadConst
  <1>4. CASE FinishConst
    <2>1. frames # <<>> /\ Top.id \in Consts
      BY <1>4, Running DEF FinishConst, Ended, BlockOver, Ready
    <2>2. frames' \in Seq(GoodFrames) /\ ending' \in {"none", "value"} \cup Divergences
      BY <1>4, <2>1, ReturnIsGood, ResultTypes DEF FinishConst
    <2>3. consts' \in [Consts -> ConstStates]
      BY <1>4, <1>t, <2>1 DEF FinishConst, ConstStates
    <2> QED
      BY <1>4, <1>t, <2>1, <2>2, <2>3, TypeInvStep DEF FinishConst
  <1>5. CASE FinishConstDiverged
    <2>1. frames # <<>> /\ Top.id \in Consts
      BY <1>5, Running DEF FinishConstDiverged, Ended, BlockOver, Ready
    <2>2. frames' \in Seq(GoodFrames) /\ ending' \in {"none", "value"} \cup Divergences
      BY <1>5, <2>1, ReturnIsGood, ResultTypes DEF FinishConstDiverged
    <2>3. consts' \in [Consts -> ConstStates]
      BY <1>5, <1>t, <2>1 DEF FinishConstDiverged, ConstStates
    <2> QED
      BY <1>5, <1>t, <2>1, <2>2, <2>3, TypeInvStep DEF FinishConstDiverged
  <1>6. CASE FinishEntry
    <2>1. frames # <<>>
      BY <1>6 DEF FinishEntry, Ended, BlockOver, Ready
    <2>2. frames' \in Seq(GoodFrames) /\ ending' \in {"none", "value"} \cup Divergences
      BY <1>6, <2>1, ReturnIsGood, ResultTypes DEF FinishEntry
    <2> QED
      BY <1>6, <1>t, <2>1, <2>2, TypeInvStep DEF FinishEntry
  <1> QED
    BY <1>1, <1>2, <1>3, <1>4, <1>5, <1>6

LEMMA EnterArmsIsGood ==
    ASSUME TypeInv, frames # <<>>, Top.code # <<>>, ending = "none",
           NEW bs \in Seq(Blocks), bs # <<>>, NEW loop \in BOOLEAN, EnterArms(bs, loop)
    PROVE  /\ frames' \in Seq(GoodFrames)
           /\ ending' \in {"none", "value"} \cup Divergences
           /\ errors' = errors \/ \E kind : Emit(kind)
  <1> DEFINE arm == [joined |-> "end", left |-> Tail(bs), rest |-> Tail(Top.code), loop |-> loop]
             top == [Top EXCEPT !.code = prog.block[Head(bs)], !.arms = <<arm>> \o @]
  <1>1. arm \in Arms
    BY Running, HeadTailProperties DEF Arms, Code, Divergences
  <1>2. <<arm>> \o Top.arms \in Seq(Arms)
    <2> HIDE DEF arm
    <2> QED
      BY <1>1, Running, Singleton, ConcatProperties
  <1>3. prog.block[Head(bs)] \in Code
    BY HeadTailProperties, Program
  <1>4. top \in GoodFrames
    <2> HIDE DEF arm
    <2> QED
      BY <1>2, <1>3, Running DEF GoodFrames, Frames
  <1>5. WithTop(top) \in Seq(GoodFrames)
    BY <1>4, WithTopIsGood
  <1> QED
    BY <1>5 DEF EnterArms, TypeInv, Divergences

LEMMA StatementSteps ==
    ASSUME TypeInv,
           ChargeBranch \/ RaiseQuota \/ BindPoison \/ CompileError \/ Stop \/ ReturnStmt
           \/ Match \/ RuntimeWhile \/ NextArm
    PROVE  TypeInv'
  <1> USE DEF caches, queues
  <1>t. /\ entriesLeft \in Seq(Blocks) /\ constsLeft \in Seq(Consts)
        /\ frames \in Seq(GoodFrames) /\ ending \in {"none", "value"} \cup Divergences
        /\ evaluated \in [Keys -> EvaluatedStates] /\ lowered \in [Keys -> LoweredStates]
        /\ consts \in [Consts -> ConstStates]
    BY DEF TypeInv, TypeOK
  <1>a. frames # <<>>
    BY DEF ChargeBranch, RaiseQuota, BindPoison, CompileError, Stop, ReturnStmt, Match,
           RuntimeWhile, NextArm, At, BlockOver, Ready
  <1>1. CASE ChargeBranch
    <2>1. Advance(Top) \in GoodFrames
      BY <1>1, <1>a, Running, AdvanceIsGood DEF ChargeBranch, At
    <2>a. CanSpend(Top, 1) => CanSpend(Advance(Top), 1)
      BY <1>a, TopIsGood DEF CanSpend, Advance, Frames
    <2>2. CanSpend(Top, 1) => [Advance(Top) EXCEPT !.spent = @ + 1] \in GoodFrames
      BY <2>1, <2>a, SpendIsGood
    <2>3. frames' \in Seq(GoodFrames)
      BY <1>1, <1>t, <1>a, <2>2, WithTopIsGood DEF ChargeBranch
    <2> QED
      BY <1>1, <1>t, <1>a, <2>3, TypeInvStep DEF ChargeBranch, Divergences
  <1>2. CASE RaiseQuota
    <2>1. Advance(Top) \in GoodFrames /\ Head(Top.code).limit \in Nat
      BY <1>2, <1>a, Running, AdvanceIsGood, StatementAtTop DEF RaiseQuota, At
    <2>2. SetMaxQuota(Advance(Top), Head(Top.code).limit) \in GoodFrames
      BY <2>1, SetMaxQuotaIsGood
    <2>3. frames' \in Seq(GoodFrames)
      BY <1>2, <1>a, <2>2, WithTopIsGood DEF RaiseQuota
    <2> QED
      BY <1>2, <1>t, <1>a, <2>3, TypeInvStep DEF RaiseQuota
  <1>3. CASE BindPoison
    <2>1. Advance(Top) \in GoodFrames
      BY <1>3, <1>a, Running, AdvanceIsGood DEF BindPoison, At
    <2>2. frames' \in Seq(GoodFrames)
      BY <1>3, <1>a, <2>1, ReceiveIsGood, ResultTypes, WithTopIsGood DEF BindPoison
    <2> QED
      BY <1>3, <1>t, <1>a, <2>2, TypeInvStep DEF BindPoison
  <1>4. CASE CompileError
    BY <1>4, <1>t, <1>a, TypeInvStep DEF CompileError, Divergences
  <1>5. CASE Stop
    BY <1>5, <1>t, <1>a, TypeInvStep DEF Stop, Divergences
  <1>6. CASE ReturnStmt
    <2> DEFINE s == Head(Top.code)
               acc == IF s.dep THEN (Top.acc + s.val) % ValueMod ELSE s.val
    <2>1. s.val \in Values /\ s.dep \in BOOLEAN
      BY <1>6, <1>a, StatementAtTop DEF ReturnStmt, At
    <2>2. acc \in Values
      BY <1>a, <2>1, Running, BoundsAssumption DEF Values
    <2>3. [Top EXCEPT !.acc = acc] \in GoodFrames
      <3> HIDE DEF acc
      <3> QED
        BY <1>a, <2>2, Running DEF GoodFrames, Frames
    <2>4. frames' \in Seq(GoodFrames)
      BY <1>6, <1>t, <1>a, <2>3, WithTopIsGood DEF ReturnStmt
    <2> QED
      BY <1>6, <1>t, <1>a, <2>4, TypeInvStep DEF ReturnStmt, Divergences
  <1>7. CASE Match
    <2>1. Head(Top.code).arms \in Seq(Blocks) /\ ending = "none" /\ Top.code # <<>>
      BY <1>7, <1>a, StatementAtTop DEF Match, At
    <2>2. /\ frames' \in Seq(GoodFrames) /\ ending' \in {"none", "value"} \cup Divergences
          /\ errors' = errors \/ \E kind : Emit(kind)
      BY <1>7, <1>a, <2>1, EnterArmsIsGood DEF Match
    <2> QED
      BY <1>7, <1>t, <1>a, <2>2, TypeInvStep DEF Match
  <1>8. CASE RuntimeWhile
    <2>1. /\ <<Head(Top.code).body>> \in Seq(Blocks) /\ <<Head(Top.code).body>> # <<>>
          /\ ending = "none" /\ Top.code # <<>>
      BY <1>8, <1>a, StatementAtTop, Singleton DEF RuntimeWhile, At
    <2>2. /\ frames' \in Seq(GoodFrames) /\ ending' \in {"none", "value"} \cup Divergences
          /\ errors' = errors \/ \E kind : Emit(kind)
      BY <1>8, <1>a, <2>1, EnterArmsIsGood DEF RuntimeWhile
    <2> QED
      BY <1>8, <1>t, <1>a, <2>2, TypeInvStep DEF RuntimeWhile
  <1>9. CASE NextArm
    <2> DEFINE a == Head(Top.arms)
               joined == Join(a.joined, BlockResult)
               arm == [a EXCEPT !.joined = joined, !.left = Remaining(@)]
    <2>1. /\ a \in Arms /\ Tail(Top.arms) \in Seq(Arms)
      BY <1>9, <1>a, Running, HeadTailProperties DEF NextArm
    <2>2. joined \in {"ok"} \cup Divergences
      BY DEF Join, Divergences
    <2>3. CASE a.left # <<>>
      <3>1. Head(a.left) \in Blocks /\ Remaining(a.left) \in Seq(Blocks)
        BY <2>1, <2>3, HeadTailProperties DEF Arms, Remaining
      <3>2. arm \in Arms
        <4> HIDE DEF joined
        <4> QED
          BY <2>1, <2>2, <3>1 DEF Arms
      <3>3. <<arm>> \o Tail(Top.arms) \in Seq(Arms)
        <4> HIDE DEF arm
        <4> QED
          BY <2>1, <3>2, Singleton, ConcatProperties
      <3>4. prog.block[Head(a.left)] \in Code
        BY <3>1, Program
      <3>5. [Top EXCEPT !.code = prog.block[Head(a.left)], !.arms = <<arm>> \o Tail(@)]
              \in GoodFrames
        <4> HIDE DEF arm
        <4> QED
          BY <1>a, <3>3, <3>4, Running DEF GoodFrames, Frames
      <3>6. frames' \in Seq(GoodFrames) /\ ending' = "none"
        BY <1>9, <1>a, <2>3, <3>5, WithTopIsGood DEF NextArm
      <3> QED
        BY <1>9, <1>t, <1>a, <3>6, TypeInvStep DEF NextArm
    <2>4. CASE a.left = <<>>
      <3>1. [Top EXCEPT !.code = a.rest, !.arms = Tail(@)] \in GoodFrames
        BY <1>a, <2>1, Running DEF GoodFrames, Frames, Arms
      <3>2. frames' \in Seq(GoodFrames)
        BY <1>9, <1>a, <2>4, <3>1, WithTopIsGood DEF NextArm
      <3>3. ending' \in {"none", "value"} \cup Divergences
        BY <1>9, <2>2, <2>4 DEF NextArm
      <3> QED
        BY <1>9, <1>t, <1>a, <3>2, <3>3, TypeInvStep DEF NextArm
    <2> QED
      BY <2>3, <2>4
  <1> QED
    BY <1>1, <1>2, <1>3, <1>4, <1>5, <1>6, <1>7, <1>8, <1>9

(* Charging every frame of f when all of them can spend. *)
LEMMA ChargedIsGood ==
    ASSUME TypeInv, frames # <<>>, NEW f, \A i \in FramesOf(f) : CanSpend(frames[i], 1)
    PROVE  /\ Charged(f) \in Seq(GoodFrames) /\ Len(Charged(f)) = Len(frames)
           /\ Charged(f) # <<>>
           /\ Charged(f)[Len(frames)].code = Top.code
  <1>1. /\ Len(frames) \in Nat \ {0} /\ DOMAIN frames = 1 .. Len(frames)
        /\ \A i \in 1 .. Len(frames) : frames[i] \in GoodFrames
    BY EmptySeq, LenProperties, ElementOfSeq DEF TypeInv
  <1>2. ASSUME NEW i \in 1 .. Len(frames)
        PROVE  Charged(f)[i] \in GoodFrames /\ Charged(f)[i].code = frames[i].code
    <2>1. CASE frames[i].fn = f
      <3>1. CanSpend(frames[i], 1) /\ frames[i] \in GoodFrames
        BY <1>1, <2>1 DEF FramesOf
      <3>2. [frames[i] EXCEPT !.spent = @ + 1] \in GoodFrames
        BY <3>1, SpendIsGood
      <3>3. [frames[i] EXCEPT !.spent = @ + 1].code = frames[i].code
        BY <3>1 DEF GoodFrames, Frames
      <3> QED
        BY <1>1, <2>1, <3>2, <3>3 DEF Charged
    <2>2. CASE frames[i].fn # f
      BY <1>1, <2>2 DEF Charged
    <2> QED
      BY <2>1, <2>2
  <1>3. Charged(f) = [i \in 1 .. Len(frames) |-> Charged(f)[i]]
    BY <1>1 DEF Charged
  <1>4. Charged(f) \in Seq(GoodFrames) /\ Len(Charged(f)) = Len(frames)
    BY <1>1, <1>2, <1>3
  <1> QED
    BY <1>1, <1>2, <1>4, EmptySeq DEF Top

LEMMA CallStep ==
    ASSUME TypeInv, Call
    PROVE  TypeInv'
  <1> DEFINE s == Head(Top.code)
             k == s.key
             f == DefOf[k]
             folding == Comptime(Top) \/ s.ct \/ prog.folds[k]
             callee == NewFrame("preamble", k, f, folding, Top.limit, prog.block[prog.preamble[k]])
  <1>t. /\ entriesLeft \in Seq(Blocks) /\ constsLeft \in Seq(Consts)
        /\ frames \in Seq(GoodFrames) /\ ending \in {"none", "value"} \cup Divergences
        /\ evaluated \in [Keys -> EvaluatedStates] /\ lowered \in [Keys -> LoweredStates]
        /\ consts \in [Consts -> ConstStates]
    BY DEF TypeInv, TypeOK
  <1>1. /\ frames # <<>> /\ Top.code # <<>> /\ k \in Keys /\ f \in FnDefs /\ s.ct \in BOOLEAN
        /\ Advance(Top) \in GoodFrames
    BY StatementAtTop, Running, AdvanceIsGood, Program DEF Call, At, Ready
  <1>3. callee \in GoodFrames
    BY <1>1, NewFrameIsGood, Running, Program DEF Roles
  <1>4. frames' \in Seq(GoodFrames) /\ ending' \in {"none", "value"} \cup Divergences
    <2>1. CASE (Comptime(Top) \/ s.ct) /\ prog.rtArg[k]
      <3>1. frames' = WithTop(Receive(Advance(Top), Gives("poison"))) /\ ending' = ending
        BY <2>1 DEF Call
      <3> QED
        BY <1>1, <1>t, <3>1, ReceiveIsGood, ResultTypes, WithTopIsGood
    <2>2. CASE /\ ~((Comptime(Top) \/ s.ct) /\ prog.rtArg[k])
               /\ \E i \in FramesOf(f) : ~CanSpend(frames[i], 1)
      BY <1>t, <2>2 DEF Call, Divergences
    <2>3. CASE /\ ~((Comptime(Top) \/ s.ct) /\ prog.rtArg[k])
               /\ \A i \in FramesOf(f) : CanSpend(frames[i], 1)
      <3>1. /\ ending' = ending
            /\ frames' = Append([Charged(f) EXCEPT ![Len(frames)] = Advance(@)], callee)
        BY <2>3 DEF Call
      <3>2. /\ Charged(f) \in Seq(GoodFrames) /\ Len(Charged(f)) = Len(frames)
            /\ Charged(f) # <<>> /\ Charged(f)[Len(frames)].code = Top.code
        BY <1>1, <2>3, ChargedIsGood
      <3>3. Advance(Charged(f)[Len(Charged(f))]) \in GoodFrames
        BY <1>1, <3>2, StackTop, AdvanceIsGood
      <3>4. [Charged(f) EXCEPT ![Len(frames)] = Advance(@)] \in Seq(GoodFrames)
        BY <3>2, <3>3, StackTop
      <3> QED
        BY <1>t, <1>3, <3>1, <3>4, AppendProperties
    <2> QED
      BY <2>1, <2>2, <2>3
  <1>5. errors' = errors \/ \E kind : Emit(kind)
    BY DEF Call
  <1> QED
    BY <1>t, <1>1, <1>4, <1>5, TypeInvStep DEF Call, caches, queues

(* Every action that ends a call returns a well-typed result. *)
LEMMA CallResultTypes ==
    /\ \A k, b : Suppressed(k, b) \in Results
    /\ \A o \in Outcomes : OutcomeResult(o) \in Results
    /\ \A k, b, l : CallSiteResult(k, b, l) \in Results
  <1>1. \A k, b : Suppressed(k, b) \in Results
    BY ResultTypes DEF Suppressed, Divergences
  <1>2. \A o \in Outcomes : OutcomeResult(o) \in Results
    BY ResultTypes DEF OutcomeResult, Outcomes, DivergedEnd, Value, Divergences
  <1> QED
    BY <1>1, <1>2, ResultTypes DEF CallSiteResult

LEMMA FoldSteps ==
    ASSUME TypeInv,
           PreambleFails \/ FoldWithoutBody \/ FoldRejected \/ FoldBegin
           \/ FoldExhausted \/ FoldPoisons \/ FoldDone \/ FoldPanics
    PROVE  TypeInv'
  <1> USE DEF caches, queues
  <1>t. /\ entriesLeft \in Seq(Blocks) /\ constsLeft \in Seq(Consts)
        /\ frames \in Seq(GoodFrames) /\ ending \in {"none", "value"} \cup Divergences
        /\ evaluated \in [Keys -> EvaluatedStates] /\ lowered \in [Keys -> LoweredStates]
        /\ consts \in [Consts -> ConstStates]
    BY DEF TypeInv, TypeOK
  <1>a. frames # <<>> /\ Top.id \in Keys
    BY Running DEF PreambleFails, FoldWithoutBody, FoldRejected, FoldBegin, FoldExhausted,
           FoldPoisons, FoldDone, FoldPanics, CalleeReady, Ended, BlockOver, Ready
  <1>s. {Empty, InProgress, Poison} \subseteq EvaluatedStates
    BY DEF EvaluatedStates
  <1>1. CASE PreambleFails
    <2>1. frames' \in Seq(GoodFrames) /\ ending' \in {"none", "value"} \cup Divergences
      BY <1>1, <1>a, ReturnIsGood, ResultTypes DEF PreambleFails, Divergences
    <2> QED
      BY <1>1, <1>t, <1>a, <2>1, TypeInvStep DEF PreambleFails
  <1>2. CASE FoldWithoutBody
    <2>1. \E r \in Results : Return(r)
      <3>1. Replayable(evaluated[Top.id], Top) => evaluated[Top.id].outcome \in Outcomes
        BY <1>a, <1>t DEF Replayable, EvaluatedStates, Empty, InProgress, Poison, CallResults
      <3> QED
        BY <1>2, <3>1, ResultTypes, CallResultTypes DEF FoldWithoutBody
    <2>2. frames' \in Seq(GoodFrames) /\ ending' \in {"none", "value"} \cup Divergences
      BY <1>a, <2>1, ReturnIsGood
    <2>3. evaluated' \in [Keys -> EvaluatedStates]
      BY <1>2, <1>t, <1>a, <1>s DEF FoldWithoutBody
    <2>4. errors' = errors \/ \E kind : Emit(kind)
      BY <1>2 DEF FoldWithoutBody
    <2> QED
      BY <1>2, <1>t, <1>a, <2>2, <2>3, <2>4, TypeInvStep DEF FoldWithoutBody
  <1>3. CASE FoldRejected
    <2>1. frames' \in Seq(GoodFrames) /\ ending' \in {"none", "value"} \cup Divergences
      BY <1>3, <1>a, ReturnIsGood, ResultTypes DEF FoldRejected
    <2>2. evaluated' \in [Keys -> EvaluatedStates]
      BY <1>3, <1>t, <1>a, <1>s DEF FoldRejected
    <2> QED
      BY <1>3, <1>t, <1>a, <2>1, <2>2, TypeInvStep DEF FoldRejected
  <1>4. CASE FoldBegin
    <2>1. evaluated[Top.id] \in {Empty} \cup CallResults
      BY <1>4, <1>t, <1>a DEF FoldBegin, MustEvaluate, EvaluatedStates, InProgress, Poison
    <2>2. prog.block[prog.body[Top.id]] \in Code
      BY <1>a, Program
    <2>3. [Top EXCEPT !.role = "fold", !.existing = evaluated[Top.id], !.before = Top.spent, !.acc = 0,
                      !.code = prog.block[prog.body[Top.id]]] \in GoodFrames
      <3>1. Top \in GoodFrames /\ Top.spent <= Top.spent
        BY <1>a, Running
      <3> QED
        BY <1>a, <2>1, <2>2, <3>1, ZeroIsValue DEF GoodFrames, Frames, Roles, EvaluatedStates
    <2>4. frames' \in Seq(GoodFrames)
      BY <1>4, <1>a, <2>3, WithTopIsGood DEF FoldBegin
    <2>5. evaluated' \in [Keys -> EvaluatedStates]
      BY <1>4, <1>t, <1>a, <1>s DEF FoldBegin
    <2> QED
      BY <1>4, <1>t, <1>a, <2>4, <2>5, TypeInvStep DEF FoldBegin
  <1>5. CASE FoldExhausted
    <2>1. frames' \in Seq(GoodFrames) /\ ending' \in {"none", "value"} \cup Divergences
      BY <1>5, <1>a, ReturnIsGood, ResultTypes DEF FoldExhausted, Divergences
    <2>2. AfterExhaustion(Top) \in EvaluatedStates
      BY <1>a, Running DEF AfterExhaustion, EvaluatedStates
    <2>3. evaluated' \in [Keys -> EvaluatedStates]
      BY <1>5, <1>t, <1>a, <2>2 DEF FoldExhausted
    <2> QED
      BY <1>5, <1>t, <1>a, <2>1, <2>3, TypeInvStep DEF FoldExhausted
  <1>6. CASE FoldPoisons
    <2>1. frames' \in Seq(GoodFrames) /\ ending' \in {"none", "value"} \cup Divergences
      BY <1>6, <1>a, ReturnIsGood, ResultTypes DEF FoldPoisons
    <2>2. evaluated' \in [Keys -> EvaluatedStates]
      BY <1>6, <1>t, <1>a, <1>s DEF FoldPoisons
    <2> QED
      BY <1>6, <1>t, <1>a, <2>1, <2>2, TypeInvStep DEF FoldPoisons
  <1>7. CASE FoldDone
    <2>1. FoldOutcome \in Outcomes
      BY <1>a, Running DEF FoldOutcome, Outcomes
    <2>2. frames' \in Seq(GoodFrames) /\ ending' \in {"none", "value"} \cup Divergences
      BY <1>7, <1>a, <2>1, ReturnIsGood, CallResultTypes DEF FoldDone
    <2>3. BranchesConsumed \in Nat /\ Top.seen \in Nat
      BY <1>a, Running DEF BranchesConsumed
    <2>4. CallResult(FoldOutcome, BranchesConsumed, Top.seen) \in EvaluatedStates
      BY <2>1, <2>3 DEF CallResult, CallResults, EvaluatedStates
    <2>5. evaluated' \in [Keys -> EvaluatedStates]
      BY <1>7, <1>t, <1>a, <2>4 DEF FoldDone
    <2> QED
      BY <1>7, <1>t, <1>a, <2>2, <2>5, TypeInvStep DEF FoldDone
  <1>8. CASE FoldPanics
    BY <1>8, <1>t, <1>a, TypeInvStep DEF FoldPanics
  <1> QED
    BY <1>1, <1>2, <1>3, <1>4, <1>5, <1>6, <1>7, <1>8

LEMMA LowerSteps ==
    ASSUME TypeInv,
           LowerWithoutBody \/ LowerBegin \/ LowerExhausted \/ LowerDone \/ LowerPanics
    PROVE  TypeInv'
  <1> USE DEF caches, queues
  <1>t. /\ entriesLeft \in Seq(Blocks) /\ constsLeft \in Seq(Consts)
        /\ frames \in Seq(GoodFrames) /\ ending \in {"none", "value"} \cup Divergences
        /\ evaluated \in [Keys -> EvaluatedStates] /\ lowered \in [Keys -> LoweredStates]
        /\ consts \in [Consts -> ConstStates]
    BY DEF TypeInv, TypeOK
  <1>a. frames # <<>> /\ Top.id \in Keys
    BY Running DEF LowerWithoutBody, LowerBegin, LowerExhausted, LowerDone, LowerPanics,
           CalleeReady, Ended, BlockOver, Ready
  <1>1. CASE LowerWithoutBody
    <2>1. \E r \in Results : Return(r)
      BY <1>1, ResultTypes, CallResultTypes DEF LowerWithoutBody, Divergences
    <2>2. frames' \in Seq(GoodFrames) /\ ending' \in {"none", "value"} \cup Divergences
      BY <1>a, <2>1, ReturnIsGood
    <2>3. lowered' \in [Keys -> LoweredStates]
      BY <1>1, <1>t, <1>a DEF LowerWithoutBody, RecursionMark, LoweredStates
    <2>4. errors' = errors \/ \E kind : Emit(kind)
      BY <1>1 DEF LowerWithoutBody
    <2> QED
      BY <1>1, <1>t, <1>a, <2>2, <2>3, <2>4, TypeInvStep DEF LowerWithoutBody
  <1>2. CASE LowerBegin
    <2>1. prog.block[prog.body[Top.id]] \in Code
      BY <1>a, Program
    <2>2. [Top EXCEPT !.role = "lower", !.code = prog.block[prog.body[Top.id]],
                      !.acc = 0, !.bad = FALSE, !.badType = Top.bad] \in GoodFrames
      BY <1>a, <2>1, Running, ZeroIsValue DEF GoodFrames, Frames, Roles
    <2>3. frames' \in Seq(GoodFrames)
      BY <1>2, <1>a, <2>2, WithTopIsGood DEF LowerBegin
    <2>4. lowered' \in [Keys -> LoweredStates]
      BY <1>2, <1>t, <1>a DEF LowerBegin, LoweredStates
    <2> QED
      BY <1>2, <1>t, <1>a, <2>3, <2>4, TypeInvStep DEF LowerBegin
  <1>3. CASE LowerExhausted
    <2>1. frames' \in Seq(GoodFrames) /\ ending' \in {"none", "value"} \cup Divergences
      BY <1>3, <1>a, ReturnIsGood, ResultTypes DEF LowerExhausted, Divergences
    <2>2. lowered' \in [Keys -> LoweredStates]
      BY <1>3, <1>t, <1>a DEF LowerExhausted, LoweredStates
    <2> QED
      BY <1>3, <1>t, <1>a, <2>1, <2>2, TypeInvStep DEF LowerExhausted
  <1>4. CASE LowerDone
    <2>1. frames' \in Seq(GoodFrames) /\ ending' \in {"none", "value"} \cup Divergences
      BY <1>4, <1>a, ReturnIsGood, CallResultTypes DEF LowerDone
    <2>2. lowered' \in [Keys -> LoweredStates]
      BY <1>4, <1>t, <1>a DEF LowerDone, LowerResult, LoweredStates
    <2> QED
      BY <1>4, <1>t, <1>a, <2>1, <2>2, TypeInvStep DEF LowerDone
  <1>5. CASE LowerPanics
    BY <1>5, <1>t, <1>a, TypeInvStep DEF LowerPanics
  <1> QED
    BY <1>1, <1>2, <1>3, <1>4, <1>5

LEMMA TypeInvStable ==
    TypeInv /\ [Next]_vars => TypeInv'
  <1> SUFFICES ASSUME TypeInv, [Next]_vars
               PROVE  TypeInv'
    OBVIOUS
  <1>1. CASE Next
    BY <1>1, EvaluateSteps, StatementSteps, CallStep, FoldSteps, LowerSteps DEF Next
  <1>2. CASE UNCHANGED vars
    <2>1. WellFormed(prog)'
      BY <1>2 DEF vars, TypeInv, TypeOK, WellFormed
    <2> QED
      BY <1>2, <2>1 DEF vars, caches, queues, TypeInv, TypeOK
  <1> QED
    BY <1>1, <1>2

(* The state of the evaluator is always well typed: in particular the      *)
(* branches a cached result records are a natural number, so a frame never *)
(* has spent less than when its body began.                                *)
THEOREM TypeCorrect == Spec => []TypeOK
  <1>1. TypeInv => TypeOK
    BY DEF TypeInv
  <1> QED
    BY InitTypeInv, TypeInvStable, <1>1, PTL DEF Spec
-----------------------------------------------------------------------------

(* A step leaves the work of frame i as it was. *)
SameWork(i) == frames'[i].role = frames[i].role /\ frames'[i].id = frames[i].id

(* The entry keeps its state or is poisoned. *)
KeptOrPoisoned(role, id) == EntryState(role, id)' \in {EntryState(role, id), "poison"}

LEMMA StackShape ==
    ASSUME TypeInv
    PROVE  /\ Len(frames) \in Nat /\ DOMAIN frames = 1 .. Len(frames)
           /\ frames # <<>> => Len(frames) # 0 /\ Top = frames[Len(frames)]
           /\ \A i \in DOMAIN frames : frames[i] \in GoodFrames
           /\ \A i \in DOMAIN frames : frames[i].role \in Entries
                                       => frames[i].id \in EntriesOf(frames[i].role)
  <1>1. frames \in Seq(GoodFrames)
    BY DEF TypeInv
  <1>2. /\ Len(frames) \in Nat /\ DOMAIN frames = 1 .. Len(frames)
        /\ \A i \in DOMAIN frames : frames[i] \in GoodFrames
    BY <1>1, LenProperties, ElementOfSeq
  <1> QED
    BY <1>1, <1>2, EmptySeq DEF Top, GoodFrames, Entries, EntriesOf

LEMMA ReturnShape ==
    ASSUME TypeInv, frames # <<>>, NEW r \in Results, Return(r)
    PROVE  /\ DOMAIN frames' = 1 .. Len(frames) - 1
           /\ \A i \in DOMAIN frames' : SameWork(i)
  <1>1. /\ Below \in Seq(GoodFrames) /\ Len(Below) = Len(frames) - 1
        /\ Len(frames) \in Nat \ {0}
        /\ \A i \in 1 .. Len(frames) - 1 : Below[i] = frames[i]
    BY StackBelow, StackTop, EmptySeq DEF TypeInv, Below
  <1>2. CASE Below = <<>>
    <2>1. frames' = <<>> /\ Len(frames) = 1
      BY <1>1, <1>2, EmptySeq DEF Return
    <2>2. DOMAIN frames' = {} /\ 1 .. Len(frames) - 1 = {}
      BY <2>1
    <2> QED
      BY <2>2
  <1>3. CASE Below # <<>>
    <2> DEFINE f == Receive(Below[Len(Below)], r)
    <2>1. frames' = [Below EXCEPT ![Len(Below)] = f]
      BY <1>1, <1>3 DEF Return
    <2>2. Below[Len(Below)] \in GoodFrames
      BY <1>1, <1>3, EmptySeq, ElementOfSeq
    <2>3. f.role = Below[Len(Below)].role /\ f.id = Below[Len(Below)].id
      BY <2>2 DEF Receive, GoodFrames, Frames
    <2>4. DOMAIN Below = 1 .. Len(frames) - 1
      BY <1>1, LenProperties
    <2> HIDE DEF f
    <2>5. DOMAIN frames' = 1 .. Len(frames) - 1
      BY <2>1, <2>4
    <2>6. \A i \in DOMAIN frames' : SameWork(i)
      BY <1>1, <2>1, <2>3, <2>4, <2>5 DEF SameWork
    <2> QED
      BY <2>5, <2>6
  <1> QED
    BY <1>2, <1>3

LEMMA WithTopShape ==
    ASSUME TypeInv, frames # <<>>, NEW f, frames' = WithTop(f)
    PROVE  /\ DOMAIN frames' = DOMAIN frames
           /\ \A i \in DOMAIN frames : i # Len(frames) => SameWork(i)
           /\ frames'[Len(frames)] = f
  BY StackShape DEF WithTop, SameWork
-----------------------------------------------------------------------------
(* The four ways a step moves the stack. *)
LEMMA PopStep ==
    ASSUME TypeInv, InProgressMatchesStack, frames # <<>>,
           DOMAIN frames' = 1 .. Len(frames) - 1, \A i \in DOMAIN frames' : SameWork(i),
           \A role \in Entries : \A id \in EntriesOf(role) :
              IF Works(Len(frames), role, id) THEN EntryState(role, id)' # "inProgress"
                                              ELSE KeptOrPoisoned(role, id)
    PROVE  InProgressMatchesStack'
  <1>1. /\ Len(frames) \in Nat \ {0} /\ DOMAIN frames = 1 .. Len(frames)
        /\ \A i \in DOMAIN frames' : i \in DOMAIN frames /\ i # Len(frames)
    BY StackShape
  <1>2. ASSUME NEW role \in Entries, NEW id \in EntriesOf(role), EntryState(role, id)' = "inProgress"
        PROVE  \E i \in DOMAIN frames' : Works(i, role, id)'
    <2>1. ~Works(Len(frames), role, id) /\ EntryState(role, id) = "inProgress"
      BY <1>2 DEF KeptOrPoisoned
    <2>2. PICK i \in DOMAIN frames : Works(i, role, id)
      BY <2>1 DEF InProgressMatchesStack
    <2>3. i \in DOMAIN frames'
      BY <1>1, <2>1, <2>2
    <2> QED
      BY <2>2, <2>3 DEF Works, SameWork
  <1>3. ASSUME NEW i \in DOMAIN frames', frames'[i].role \in Entries
        PROVE  /\ EntryState(frames[i].role, frames[i].id)' \in {"inProgress", "poison"}
               /\ \A j \in DOMAIN frames' : Works(j, frames[i].role, frames[i].id)' => j = i
    <2>1. /\ frames'[i].role = frames[i].role /\ frames'[i].id = frames[i].id
          /\ i \in DOMAIN frames /\ i # Len(frames)
      BY <1>1 DEF SameWork
    <2>2. /\ EntryState(frames[i].role, frames[i].id) \in {"inProgress", "poison"}
          /\ \A j \in DOMAIN frames : Works(j, frames[i].role, frames[i].id) => j = i
          /\ frames[i].id \in EntriesOf(frames[i].role)
      BY <1>3, <2>1, StackShape DEF InProgressMatchesStack
    <2>3. ~Works(Len(frames), frames[i].role, frames[i].id)
      BY <1>1, <2>1, <2>2
    <2>4. KeptOrPoisoned(frames[i].role, frames[i].id)
      BY <1>3, <2>1, <2>2, <2>3
    <2> QED
      BY <1>1, <2>1, <2>2, <2>4 DEF KeptOrPoisoned, EntryState, Works, SameWork
  <1> QED
    BY <1>2, <1>3 DEF InProgressMatchesStack

LEMMA BoundCases ==
    ASSUME NEW n \in Nat, NEW m \in Nat, n = m + 1 \/ (n = m /\ n # 0)
    PROVE  /\ n \in 1 .. n /\ (n \in 1 .. m => n = m /\ n # m + 1)
           /\ \A i \in 1 .. n : i # n => i \in 1 .. m
           /\ \A i \in 1 .. m : i \in 1 .. n
  OBVIOUS

LEMMA KeepStep ==
    ASSUME TypeInv, InProgressMatchesStack,
           DOMAIN frames' = DOMAIN frames, \A i \in DOMAIN frames : SameWork(i),
           \A role \in Entries : \A id \in EntriesOf(role) : KeptOrPoisoned(role, id)
    PROVE  InProgressMatchesStack'
  <1>1. ASSUME NEW role \in Entries, NEW id \in EntriesOf(role), EntryState(role, id)' = "inProgress"
        PROVE  \E i \in DOMAIN frames' : Works(i, role, id)'
    <2>1. EntryState(role, id) = "inProgress"
      BY <1>1 DEF KeptOrPoisoned
    <2>2. PICK i \in DOMAIN frames : Works(i, role, id)
      BY <2>1 DEF InProgressMatchesStack
    <2> QED
      BY <2>2 DEF Works, SameWork
  <1>2. ASSUME NEW i \in DOMAIN frames', frames'[i].role \in Entries
        PROVE  /\ EntryState(frames[i].role, frames[i].id)' \in {"inProgress", "poison"}
               /\ \A j \in DOMAIN frames' : Works(j, frames[i].role, frames[i].id)' => j = i
    <2>1. frames'[i].role = frames[i].role /\ frames'[i].id = frames[i].id /\ i \in DOMAIN frames
      BY DEF SameWork
    <2>2. /\ EntryState(frames[i].role, frames[i].id) \in {"inProgress", "poison"}
          /\ \A j \in DOMAIN frames : Works(j, frames[i].role, frames[i].id) => j = i
          /\ frames[i].id \in EntriesOf(frames[i].role)
      BY <1>2, <2>1, StackShape DEF InProgressMatchesStack
    <2>3. KeptOrPoisoned(frames[i].role, frames[i].id)
      BY <1>2, <2>1, <2>2
    <2> QED
      BY <2>1, <2>2, <2>3 DEF KeptOrPoisoned, EntryState, Works, SameWork
  <1> QED
    BY <1>1, <1>2 DEF InProgressMatchesStack

(* A frame is pushed, or the innermost one takes up a body: n is its index.*)
LEMMA BeginStep ==
    ASSUME TypeInv, InProgressMatchesStack, NEW n \in Nat,
           DOMAIN frames' = 1 .. n,
           n = Len(frames) + 1 \/ (n = Len(frames) /\ n # 0 /\ frames[n].role \notin Entries),
           \A i \in DOMAIN frames' : i # n => SameWork(i),
           frames'[n].role \in Entries,
           frames'[n].id \in EntriesOf(frames'[n].role),
           EntryState(frames'[n].role, frames'[n].id) \notin {"inProgress", "poison"},
           \A role \in Entries : \A id \in EntriesOf(role) :
              EntryState(role, id)' = IF Works(n, role, id)' THEN "inProgress" ELSE EntryState(role, id)
    PROVE  InProgressMatchesStack'
  <1>a. Len(frames) \in Nat /\ DOMAIN frames = 1 .. Len(frames)
    BY StackShape
  <1>b. n = Len(frames) + 1 \/ (n = Len(frames) /\ n # 0)
    OBVIOUS
  <1>c. /\ n \in 1 .. n /\ (n \in 1 .. Len(frames) => n = Len(frames) /\ n # Len(frames) + 1)
        /\ \A i \in 1 .. n : i # n => i \in 1 .. Len(frames)
        /\ \A i \in 1 .. Len(frames) : i \in 1 .. n
    BY <1>a, <1>b, BoundCases
  <1>1. /\ n \in DOMAIN frames'
        /\ \A i \in DOMAIN frames' : i # n => i \in DOMAIN frames
        /\ \A i \in DOMAIN frames : i \in DOMAIN frames'
        /\ n \in DOMAIN frames => frames[n].role \notin Entries
    BY <1>a, <1>c
  <1>2. ASSUME NEW role \in Entries, NEW id \in EntriesOf(role), EntryState(role, id)' = "inProgress"
        PROVE  \E i \in DOMAIN frames' : Works(i, role, id)'
    <2>1. CASE Works(n, role, id)'
      BY <1>1, <2>1
    <2>2. CASE ~Works(n, role, id)'
      <3>1. EntryState(role, id) = "inProgress"
        BY <1>2, <2>2
      <3>2. PICK i \in DOMAIN frames : Works(i, role, id)
        BY <3>1 DEF InProgressMatchesStack
      <3>3. i \in DOMAIN frames' /\ i # n
        BY <1>1, <3>2 DEF Works
      <3> QED
        BY <3>2, <3>3 DEF Works, SameWork
    <2> QED
      BY <2>1, <2>2
  <1>3. ASSUME NEW i \in DOMAIN frames', frames'[i].role \in Entries
        PROVE  /\ EntryState(frames[i].role, frames[i].id)' \in {"inProgress", "poison"}
               /\ \A j \in DOMAIN frames' : Works(j, frames[i].role, frames[i].id)' => j = i
    <2>1. CASE i = n
      <3>1. EntryState(frames[i].role, frames[i].id)' = "inProgress"
        BY <2>1 DEF Works, EntryState
      <3>2. ASSUME NEW j \in DOMAIN frames', j # n, Works(j, frames[i].role, frames[i].id)'
            PROVE  FALSE
        <4>1. j \in DOMAIN frames /\ Works(j, frames'[n].role, frames'[n].id)
          BY <1>1, <2>1, <3>2 DEF Works, SameWork
        <4> QED
          BY <4>1 DEF InProgressMatchesStack, Works
      <3> QED
        BY <2>1, <3>1, <3>2
    <2>2. CASE i # n
      <3>1. frames'[i].role = frames[i].role /\ frames'[i].id = frames[i].id /\ i \in DOMAIN frames
        BY <1>1, <2>2 DEF SameWork
      <3>2. /\ EntryState(frames[i].role, frames[i].id) \in {"inProgress", "poison"}
            /\ \A j \in DOMAIN frames : Works(j, frames[i].role, frames[i].id) => j = i
            /\ frames[i].id \in EntriesOf(frames[i].role)
        BY <1>3, <3>1, StackShape DEF InProgressMatchesStack
      <3>3. ~Works(n, frames[i].role, frames[i].id)'
        BY <3>1, <3>2 DEF Works
      <3>4. EntryState(frames[i].role, frames[i].id)' = EntryState(frames[i].role, frames[i].id)
        BY <1>3, <3>1, <3>2, <3>3 DEF EntryState, Works
      <3> QED
        BY <1>1, <3>1, <3>2, <3>3, <3>4 DEF Works, SameWork
    <2> QED
      BY <2>1, <2>2
  <1> QED
    BY <1>2, <1>3 DEF InProgressMatchesStack

(* A frame without an entry of its own is pushed. *)
LEMMA PushStep ==
    ASSUME TypeInv, InProgressMatchesStack,
           DOMAIN frames' = 1 .. Len(frames) + 1, \A i \in DOMAIN frames : SameWork(i),
           frames'[Len(frames) + 1].role \notin Entries,
           \A role \in Entries : \A id \in EntriesOf(role) : EntryState(role, id)' = EntryState(role, id)
    PROVE  InProgressMatchesStack'
  <1> DEFINE n == Len(frames) + 1
  <1>1. /\ \A i \in DOMAIN frames' : i # n => i \in DOMAIN frames
        /\ \A i \in DOMAIN frames : i \in DOMAIN frames'
    BY StackShape
  <1> HIDE DEF n
  <1>2. \A i \in DOMAIN frames' : frames'[i].role \in Entries => i \in DOMAIN frames
    BY <1>1 DEF n
  <1>3. ASSUME NEW role \in Entries, NEW id \in EntriesOf(role), EntryState(role, id)' = "inProgress"
        PROVE  \E i \in DOMAIN frames' : Works(i, role, id)'
    <2>1. PICK i \in DOMAIN frames : Works(i, role, id)
      BY <1>3 DEF InProgressMatchesStack
    <2> QED
      BY <1>1, <2>1 DEF Works, SameWork
  <1>4. ASSUME NEW i \in DOMAIN frames', frames'[i].role \in Entries
        PROVE  /\ EntryState(frames[i].role, frames[i].id)' \in {"inProgress", "poison"}
               /\ \A j \in DOMAIN frames' : Works(j, frames[i].role, frames[i].id)' => j = i
    <2>1. frames'[i].role = frames[i].role /\ frames'[i].id = frames[i].id /\ i \in DOMAIN frames
      BY <1>2, <1>4 DEF SameWork
    <2>2. /\ EntryState(frames[i].role, frames[i].id) \in {"inProgress", "poison"}
          /\ \A j \in DOMAIN frames : Works(j, frames[i].role, frames[i].id) => j = i
          /\ frames[i].id \in EntriesOf(frames[i].role)
      BY <1>4, <2>1, StackShape DEF InProgressMatchesStack
    <2>3. EntryState(frames[i].role, frames[i].id)' = EntryState(frames[i].role, frames[i].id)
      BY <1>4, <2>1, <2>2 DEF EntryState
    <2>4. ASSUME NEW j \in DOMAIN frames', Works(j, frames[i].role, frames[i].id)'
          PROVE  j \in DOMAIN frames /\ Works(j, frames[i].role, frames[i].id)
      <3>1. frames'[j].role = frames'[i].role /\ frames'[j].id = frames'[i].id
        BY <2>4 DEF Works
      <3>2. j \in DOMAIN frames
        BY <1>2, <1>4, <3>1
      <3> QED
        BY <2>1, <3>1, <3>2 DEF Works, SameWork
    <2> QED
      BY <2>1, <2>2, <2>3, <2>4
  <1> QED
    BY <1>3, <1>4 DEF InProgressMatchesStack
-----------------------------------------------------------------------------
(* How the assignments to the caches change the states of entries. *)
LEMMA SetEvaluated ==
    ASSUME TypeInv, NEW k \in Keys, NEW e,
           evaluated' = [evaluated EXCEPT ![k] = e], lowered' = lowered, consts' = consts
    PROVE  \A role \in Entries : \A id \in EntriesOf(role) :
              EntryState(role, id)' = IF role = "fold" /\ id = k THEN e.st ELSE EntryState(role, id)
  BY DEF TypeInv, TypeOK, Entries, EntriesOf, EntryState

LEMMA SetLowered ==
    ASSUME TypeInv, NEW k \in Keys, NEW l,
           lowered' = [lowered EXCEPT ![k] = l], evaluated' = evaluated, consts' = consts
    PROVE  \A role \in Entries : \A id \in EntriesOf(role) :
              EntryState(role, id)' = IF role = "lower" /\ id = k THEN l ELSE EntryState(role, id)
  BY DEF TypeInv, TypeOK, Entries, EntriesOf, EntryState

LEMMA SetConsts ==
    ASSUME TypeInv, NEW c \in Consts, NEW s,
           consts' = [consts EXCEPT ![c] = s], evaluated' = evaluated, lowered' = lowered
    PROVE  \A role \in Entries : \A id \in EntriesOf(role) :
              EntryState(role, id)' = IF role = "const" /\ id = c THEN s ELSE EntryState(role, id)
  BY DEF TypeInv, TypeOK, Entries, EntriesOf, EntryState

LEMMA SameCaches ==
    ASSUME UNCHANGED caches
    PROVE  \A role \in Entries : \A id \in EntriesOf(role) :
              EntryState(role, id)' = EntryState(role, id) /\ KeptOrPoisoned(role, id)
  BY DEF caches, EntryState, KeptOrPoisoned

(* Operations on frames that leave their work alone. *)
LEMMA SameWorkFrames ==
    ASSUME NEW f \in GoodFrames
    PROVE  /\ Advance(f).role = f.role /\ Advance(f).id = f.id
           /\ \A r : Receive(f, r).role = f.role /\ Receive(f, r).id = f.id
           /\ \A n : SetMaxQuota(f, n).role = f.role /\ SetMaxQuota(f, n).id = f.id
  BY DEF Advance, Receive, SetMaxQuota, GoodFrames, Frames

LEMMA ReplaceTop ==
    ASSUME TypeInv, frames # <<>>, NEW f, f.role = Top.role, f.id = Top.id, frames' = WithTop(f)
    PROVE  DOMAIN frames' = DOMAIN frames /\ \A i \in DOMAIN frames : SameWork(i)
  BY WithTopShape, StackShape DEF SameWork

LEMMA StutterShape ==
    ASSUME frames' = frames
    PROVE  DOMAIN frames' = DOMAIN frames /\ \A i \in DOMAIN frames : SameWork(i)
  BY DEF SameWork
-----------------------------------------------------------------------------
LEMMA EvaluateKeepsStack ==
    ASSUME TypeInv, InProgressMatchesStack,
           StartEntry \/ StartConst \/ ReadConst \/ FinishConst \/ FinishConstDiverged
           \/ FinishEntry
    PROVE  InProgressMatchesStack'
  <1>1. CASE StartEntry
    <2> DEFINE b == Head(entriesLeft)
               f == NewFrame("entry", b, NoFn, FALSE, DefaultQuota, prog.block[b])
    <2>1. f.role = "entry"
      BY DEF NewFrame
    <2> HIDE DEF f
    <2>2. frames = <<>> /\ Len(frames) = 0 /\ frames' = <<f>> /\ UNCHANGED caches
      BY <1>1 DEF StartEntry, f
    <2>3. DOMAIN frames' = 1 .. Len(frames) + 1 /\ frames'[Len(frames) + 1] = f
      BY <2>2
    <2>4. \A i \in DOMAIN frames : SameWork(i)
      BY <2>2
    <2> QED
      BY <2>1, <2>2, <2>3, <2>4, SameCaches, PushStep DEF Entries
  <1>2. CASE StartConst
    <2> DEFINE c == Head(constsLeft)
               f == ConstFrame(c)
    <2>1. c \in Consts
      BY <1>2, HeadTailProperties DEF StartConst, TypeInv, TypeOK
    <2>2. CASE consts[c] = "vacant"
      <3>1. f.role = "const" /\ f.id = c
        BY DEF ConstFrame, NewFrame
      <3> HIDE DEF f
      <3>2. /\ frames = <<>> /\ Len(frames) = 0 /\ frames' = <<f>>
            /\ consts' = [consts EXCEPT ![c] = "inProgress"]
            /\ evaluated' = evaluated /\ lowered' = lowered
        BY <1>2, <2>2 DEF StartConst, f
      <3>3. DOMAIN frames' = 1 .. 1 /\ 1 = Len(frames) + 1 /\ frames'[1] = f
        BY <3>2
      <3>4. \A i \in DOMAIN frames' : i # 1 => SameWork(i)
        BY <3>3
      <3>5. \A role \in Entries : \A id \in EntriesOf(role) :
               EntryState(role, id)' = IF Works(1, role, id)' THEN "inProgress" ELSE EntryState(role, id)
        <4>1. \A role \in Entries : \A id \in EntriesOf(role) :
                 EntryState(role, id)' = IF role = "const" /\ id = c THEN "inProgress"
                                                                  ELSE EntryState(role, id)
          BY <2>1, <3>2, SetConsts
        <4>2. \A role, id : Works(1, role, id)' <=> role = "const" /\ id = c
          BY <3>1, <3>3 DEF Works
        <4> QED
          BY <4>1, <4>2
      <3>6. /\ frames'[1].role \in Entries /\ frames'[1].id \in EntriesOf(frames'[1].role)
            /\ EntryState(frames'[1].role, frames'[1].id) \notin {"inProgress", "poison"}
        BY <2>1, <2>2, <3>1, <3>3 DEF Entries, EntriesOf, EntryState
      <3> QED
        BY <3>3, <3>4, <3>5, <3>6, BeginStep
    <2>3. CASE consts[c] # "vacant"
      BY <1>2, <2>3, StutterShape, SameCaches, KeepStep DEF StartConst, caches
    <2> QED
      BY <2>2, <2>3
  <1>3. CASE ReadConst
    <2> DEFINE c == Head(Top.code).id
    <2>1. frames # <<>> /\ Top.code # <<>> /\ c \in Consts /\ Advance(Top) \in GoodFrames
      BY <1>3, StatementAtTop, Running, AdvanceIsGood DEF ReadConst, At, Ready
    <2>2. ASSUME NEW r, frames' = WithTop(Receive(Advance(Top), r))
          PROVE  DOMAIN frames' = DOMAIN frames /\ \A i \in DOMAIN frames : SameWork(i)
      BY <2>1, <2>2, SameWorkFrames, TopIsGood, ReplaceTop
    <2>3. CASE consts[c] = "vacant"
      <3> DEFINE f == ConstFrame(c)
      <3>8. PICK n \in Nat : n = Len(frames) + 1
        BY StackShape
      <3>1. f.role = "const" /\ f.id = c
        BY DEF ConstFrame, NewFrame
      <3> HIDE DEF f
      <3>2. /\ frames' = Append(WithTop(Advance(Top)), f)
            /\ consts' = [consts EXCEPT ![c] = "inProgress"]
            /\ evaluated' = evaluated /\ lowered' = lowered
        BY <1>3, <2>3 DEF ReadConst, f
      <3>3. /\ WithTop(Advance(Top)) \in Seq(GoodFrames) /\ Len(WithTop(Advance(Top))) = Len(frames)
            /\ \A i \in DOMAIN frames : /\ WithTop(Advance(Top))[i].role = frames[i].role
                                       /\ WithTop(Advance(Top))[i].id = frames[i].id
        <4>1. Advance(Top).role = Top.role /\ Advance(Top).id = Top.id
          BY <2>1, SameWorkFrames, TopIsGood
        <4> QED
          BY <2>1, <4>1, StackTop, WithTopIsGood, StackShape DEF WithTop, TypeInv
      <3>4. /\ DOMAIN frames' = 1 .. n /\ n \in Nat /\ frames'[n] = f
            /\ \A i \in DOMAIN frames : SameWork(i)
        <4>1. ConstFrame(c) \in GoodFrames
          BY <2>1, ConstFrameIsGood
        <4>2. /\ Len(frames') = n /\ frames' \in Seq(GoodFrames) /\ frames'[n] = f
              /\ \A i \in 1 .. Len(frames) : frames'[i] = WithTop(Advance(Top))[i]
          BY <3>2, <3>3, <3>8, <4>1, AppendProperties DEF f
        <4> QED
          BY <3>3, <3>8, <4>2, LenProperties, StackShape DEF SameWork
      <3>5. \A role \in Entries : \A id \in EntriesOf(role) :
               EntryState(role, id)' = IF Works(n, role, id)' THEN "inProgress" ELSE EntryState(role, id)
        <4>1. \A role \in Entries : \A id \in EntriesOf(role) :
                 EntryState(role, id)' = IF role = "const" /\ id = c THEN "inProgress"
                                                                  ELSE EntryState(role, id)
          BY <2>1, <3>2, SetConsts
        <4>2. \A role, id : Works(n, role, id)' <=> role = "const" /\ id = c
          BY <3>1, <3>4 DEF Works
        <4> HIDE DEF c
        <4> QED
          BY <4>1, <4>2
      <3>6. /\ frames'[n].role \in Entries /\ frames'[n].id \in EntriesOf(frames'[n].role)
            /\ EntryState(frames'[n].role, frames'[n].id) \notin {"inProgress", "poison"}
        BY <2>1, <2>3, <3>1, <3>4 DEF Entries, EntriesOf, EntryState
      <3>7. \A i \in DOMAIN frames' : i # n => SameWork(i)
        BY <3>4, <3>8, StackShape
      <3> HIDE DEF c
      <3> QED
        BY <3>4, <3>5, <3>6, <3>7, <3>8, BeginStep
    <2>4. CASE consts[c] = "inProgress"
      <3>1. /\ frames' = WithTop(Receive(Advance(Top), Gives("poison")))
            /\ consts' = [consts EXCEPT ![c] = "poison"] /\ evaluated' = evaluated /\ lowered' = lowered
        BY <1>3, <2>4 DEF ReadConst
      <3>2. \A role \in Entries : \A id \in EntriesOf(role) : KeptOrPoisoned(role, id)
        BY <2>1, <3>1, SetConsts DEF KeptOrPoisoned
      <3> QED
        BY <2>2, <3>1, <3>2, KeepStep
    <2>5. CASE consts[c] \notin {"vacant", "inProgress"}
      <3>1. /\ \E r : frames' = WithTop(Receive(Advance(Top), r))
            /\ UNCHANGED caches
        BY <1>3, <2>5 DEF ReadConst, caches
      <3> QED
        BY <2>2, <3>1, SameCaches, KeepStep
    <2> QED
      BY <2>3, <2>4, <2>5
  <1>4. CASE FinishConst \/ FinishConstDiverged
    <2>1. frames # <<>> /\ Top.id \in Consts /\ Top.role = "const"
      BY <1>4, Running DEF FinishConst, FinishConstDiverged, Ended, BlockOver, Ready
    <2>2. \E r \in Results : Return(r)
      BY <1>4, ResultTypes DEF FinishConst, FinishConstDiverged
    <2>3. PICK s \in {"poison", "quotaExhausted", "value"} :
             /\ consts' = [consts EXCEPT ![Top.id] = s]
             /\ evaluated' = evaluated /\ lowered' = lowered
      BY <1>4, <2>1 DEF FinishConst, FinishConstDiverged, TypeInv, TypeOK
    <2>4. \A role \in Entries : \A id \in EntriesOf(role) :
             IF Works(Len(frames), role, id) THEN EntryState(role, id)' # "inProgress"
                                             ELSE KeptOrPoisoned(role, id)
      <3>1. \A role \in Entries : \A id \in EntriesOf(role) :
               EntryState(role, id)' = IF role = "const" /\ id = Top.id THEN s ELSE EntryState(role, id)
        <4>1. PICK c \in Consts : c = Top.id
          BY <2>1
        <4>2. consts' = [consts EXCEPT ![c] = s] /\ evaluated' = evaluated /\ lowered' = lowered
          BY <2>3, <4>1
        <4>3. \A role \in Entries : \A id \in EntriesOf(role) :
                 EntryState(role, id)' = IF role = "const" /\ id = c THEN s ELSE EntryState(role, id)
          BY <4>2, SetConsts
        <4> QED
          BY <4>1, <4>3
      <3>2. \A role, id : Works(Len(frames), role, id) <=> role = "const" /\ id = Top.id
        BY <2>1, StackShape DEF Works
      <3> QED
        BY <3>1, <3>2 DEF KeptOrPoisoned
    <2> QED
      BY <2>1, <2>2, <2>4, ReturnShape, PopStep
  <1>5. CASE FinishEntry
    <2>1. frames # <<>> /\ Top.role = "entry" /\ UNCHANGED caches
      BY <1>5 DEF FinishEntry, Ended, BlockOver, Ready
    <2>2. \E r \in Results : Return(r)
      BY <1>5, ResultTypes DEF FinishEntry
    <2>3. \A role \in Entries : \A id \in EntriesOf(role) :
             ~Works(Len(frames), role, id) /\ KeptOrPoisoned(role, id)
      BY <2>1, SameCaches, StackShape DEF Works, Entries
    <2> QED
      BY <2>1, <2>2, <2>3, ReturnShape, PopStep
  <1> QED
    BY <1>1, <1>2, <1>3, <1>4, <1>5

(* Statements replace the innermost frame and leave the caches alone. *)
LEMMA StatementsKeepStack ==
    ASSUME TypeInv, InProgressMatchesStack,
           ChargeBranch \/ RaiseQuota \/ BindPoison \/ CompileError \/ Stop \/ ReturnStmt
           \/ Match \/ RuntimeWhile \/ NextArm
    PROVE  InProgressMatchesStack'
  <1>1. frames # <<>> /\ UNCHANGED caches /\ Top \in GoodFrames
    BY TopIsGood DEF ChargeBranch, RaiseQuota, BindPoison, CompileError, Stop, ReturnStmt, Match,
           RuntimeWhile, NextArm, At, BlockOver, Ready, caches
  <1>2. ASSUME NEW f, f.role = Top.role, f.id = Top.id, frames' = WithTop(f)
        PROVE  InProgressMatchesStack'
    BY <1>1, <1>2, ReplaceTop, SameCaches, KeepStep
  <1>3. ASSUME frames' = frames
        PROVE  InProgressMatchesStack'
    BY <1>1, <1>3, StutterShape, SameCaches, KeepStep
  <1>4. CASE ChargeBranch \/ RaiseQuota \/ BindPoison
    <2>1. Advance(Top) \in GoodFrames /\ Advance(Top).role = Top.role /\ Advance(Top).id = Top.id
      BY <1>1, <1>4, AdvanceIsGood, SameWorkFrames DEF ChargeBranch, RaiseQuota, BindPoison, At
    <2>2. CASE ChargeBranch
      <3>1. /\ [Advance(Top) EXCEPT !.spent = @ + 1].role = Top.role
            /\ [Advance(Top) EXCEPT !.spent = @ + 1].id = Top.id
        BY <2>1 DEF GoodFrames, Frames
      <3> QED
        BY <2>2, <3>1, <1>2, <1>3 DEF ChargeBranch
    <2>3. CASE RaiseQuota
      BY <1>2, <2>1, <2>3, SameWorkFrames DEF RaiseQuota
    <2>4. CASE BindPoison
      BY <1>2, <2>1, <2>4, SameWorkFrames DEF BindPoison
    <2> QED
      BY <1>4, <2>2, <2>3, <2>4
  <1>5. CASE CompileError \/ Stop
    BY <1>3, <1>5 DEF CompileError, Stop
  <1>6. CASE ReturnStmt
    <2>1. \A a : [Top EXCEPT !.acc = a].role = Top.role /\ [Top EXCEPT !.acc = a].id = Top.id
      BY <1>1 DEF GoodFrames, Frames
    <2>2. frames' = frames \/ \E a : frames' = WithTop([Top EXCEPT !.acc = a])
      BY <1>6 DEF ReturnStmt
    <2> QED
      BY <1>2, <1>3, <2>1, <2>2
  <1>7. CASE Match \/ RuntimeWhile \/ NextArm
    <2>1. \A b, a : /\ [Top EXCEPT !.code = b, !.arms = a].role = Top.role
                   /\ [Top EXCEPT !.code = b, !.arms = a].id = Top.id
      BY <1>1 DEF GoodFrames, Frames
    <2>2. frames' = frames \/ \E b, a : frames' = WithTop([Top EXCEPT !.code = b, !.arms = a])
      <3>1. CASE Match
        BY <3>1 DEF Match, EnterArms
      <3>2. CASE RuntimeWhile
        BY <3>2 DEF RuntimeWhile, EnterArms
      <3>3. CASE NextArm
        BY <3>3 DEF NextArm
      <3> QED
        BY <1>7, <3>1, <3>2, <3>3
    <2> QED
      BY <1>2, <1>3, <2>1, <2>2
  <1> QED
    BY <1>4, <1>5, <1>6, <1>7

LEMMA CallKeepsStack ==
    ASSUME TypeInv, InProgressMatchesStack, Call
    PROVE  InProgressMatchesStack'
  <1> DEFINE s == Head(Top.code)
             f == DefOf[s.key]
             stack == [Charged(f) EXCEPT ![Len(frames)] = Advance(@)]
  <1>1. /\ frames # <<>> /\ Top.code # <<>> /\ Top \in GoodFrames /\ Advance(Top) \in GoodFrames
        /\ UNCHANGED caches
    BY TopIsGood, AdvanceIsGood DEF Call, At, Ready, caches
  <1>2. CASE frames' = WithTop(Receive(Advance(Top), Gives("poison")))
    BY <1>1, <1>2, SameWorkFrames, ReplaceTop, SameCaches, KeepStep
  <1>3. CASE frames' = frames
    BY <1>1, <1>3, StutterShape, SameCaches, KeepStep
  <1>4. CASE /\ \A i \in FramesOf(f) : CanSpend(frames[i], 1)
             /\ \E g : g.role = "preamble" /\ frames' = Append(stack, g)
    <2>1. PICK g : g.role = "preamble" /\ frames' = Append(stack, g)
      BY <1>4
    <2>2. /\ Charged(f) \in Seq(GoodFrames) /\ Len(Charged(f)) = Len(frames)
          /\ Charged(f) # <<>> /\ Charged(f)[Len(frames)].code = Top.code
      BY <1>1, <1>4, ChargedIsGood
    <2>3. \A i \in DOMAIN frames : /\ Charged(f)[i].role = frames[i].role
                                 /\ Charged(f)[i].id = frames[i].id
      BY StackShape DEF Charged, GoodFrames, Frames
    <2>4. /\ DOMAIN stack = DOMAIN frames /\ Len(stack) = Len(frames)
          /\ \A i \in DOMAIN frames : stack[i].role = frames[i].role /\ stack[i].id = frames[i].id
      <3>1. /\ Advance(Charged(f)[Len(frames)]) \in GoodFrames
            /\ Advance(Charged(f)[Len(frames)]).role = Charged(f)[Len(frames)].role
            /\ Advance(Charged(f)[Len(frames)]).id = Charged(f)[Len(frames)].id
        BY <1>1, <2>2, StackTop, AdvanceIsGood, SameWorkFrames
      <3>2. stack \in Seq(GoodFrames) /\ Len(stack) = Len(frames)
        BY <2>2, <3>1, StackTop
      <3>3. DOMAIN stack = DOMAIN frames /\ DOMAIN Charged(f) = DOMAIN frames
        BY <2>2, <3>2, LenProperties, StackShape
      <3>4. \A i \in DOMAIN frames : stack[i].role = frames[i].role /\ stack[i].id = frames[i].id
        BY <2>3, <3>1, <3>3
      <3> QED
        BY <3>2, <3>3, <3>4
    <2> HIDE DEF stack
    <2>5. /\ DOMAIN frames' = 1 .. Len(frames) + 1 /\ frames'[Len(frames) + 1] = g
          /\ \A i \in DOMAIN frames : SameWork(i)
      BY <2>1, <2>4, StackShape DEF SameWork
    <2> QED
      BY <1>1, <2>1, <2>5, SameCaches, PushStep DEF Entries
  <1>5. \/ frames' = WithTop(Receive(Advance(Top), Gives("poison")))
        \/ frames' = frames
        \/ /\ \A i \in FramesOf(f) : CanSpend(frames[i], 1)
           /\ \E g : g.role = "preamble" /\ frames' = Append(stack, g)
    <2>1. \A id, fn, folding, limit, code :
             NewFrame("preamble", id, fn, folding, limit, code).role = "preamble"
      BY DEF NewFrame
    <2> QED
      BY <2>1 DEF Call
  <1> QED
    BY <1>2, <1>3, <1>4, <1>5

(* A call ends with a result: the entry of its key may be poisoned on the  *)
(* way, and if its own frame held the entry it is no longer in progress.   *)
LEMMA ReturnKeepsStack ==
    ASSUME TypeInv, InProgressMatchesStack, frames # <<>>, \E r \in Results : Return(r),
           Top.id \in Keys, NEW role \in Entries, role # "const",
           Top.role \in {"preamble", role}, NEW state,
           \A ro \in Entries : \A id \in EntriesOf(ro) :
              EntryState(ro, id)' = IF ro = role /\ id = Top.id THEN state ELSE EntryState(ro, id),
           IF Top.role = role THEN state # "inProgress" ELSE state \in {EntryState(role, Top.id), "poison"}
    PROVE  InProgressMatchesStack'
  <1>1. \A ro, id : Works(Len(frames), ro, id) <=> ro = Top.role /\ id = Top.id
    BY StackShape DEF Works
  <1>2. \A ro \in Entries : \A id \in EntriesOf(ro) :
           IF Works(Len(frames), ro, id) THEN EntryState(ro, id)' # "inProgress"
                                         ELSE KeptOrPoisoned(ro, id)
    BY <1>1 DEF KeptOrPoisoned, Entries
  <1>3. /\ DOMAIN frames' = 1 .. Len(frames) - 1
        /\ \A i \in DOMAIN frames' : SameWork(i)
    BY ReturnShape
  <1> QED
    BY <1>2, <1>3, PopStep

LEMMA FoldKeepsStack ==
    ASSUME TypeInv, InProgressMatchesStack,
           PreambleFails \/ FoldWithoutBody \/ FoldRejected \/ FoldBegin
           \/ FoldExhausted \/ FoldPoisons \/ FoldDone \/ FoldPanics
    PROVE  InProgressMatchesStack'
  <1> DEFINE k == Top.id
  <1>1. frames # <<>> /\ Top.id \in Keys /\ Top \in GoodFrames
    BY Running DEF PreambleFails, FoldWithoutBody, FoldRejected, FoldBegin, FoldExhausted,
           FoldPoisons, FoldDone, FoldPanics, CalleeReady, Ended, BlockOver, Ready
  <1>2. evaluated = [evaluated EXCEPT ![k] = evaluated[k]]
    BY <1>1 DEF TypeInv, TypeOK
  <1>3. ASSUME NEW e, evaluated' = [evaluated EXCEPT ![k] = e], lowered' = lowered, consts' = consts,
               \E r \in Results : Return(r), Top.role \in {"preamble", "fold"},
               IF Top.role = "fold" THEN e.st # "inProgress" ELSE e \in {evaluated[k], Poison}
        PROVE  InProgressMatchesStack'
    <2>1. \A ro \in Entries : \A id \in EntriesOf(ro) :
             EntryState(ro, id)' = IF ro = "fold" /\ id = Top.id THEN e.st ELSE EntryState(ro, id)
      BY <1>1, <1>3, SetEvaluated
    <2>2. IF Top.role = "fold" THEN e.st # "inProgress" ELSE e.st \in {EntryState("fold", Top.id), "poison"}
      BY <1>3 DEF EntryState, Poison
    <2> QED
      BY <1>1, <1>3, <2>1, <2>2, ReturnKeepsStack DEF Entries
  <1>4. CASE PreambleFails
    <2>1. /\ evaluated' = evaluated /\ lowered' = lowered /\ consts' = consts
          /\ Top.role = "preamble"
      BY <1>4 DEF PreambleFails, Ended, caches
    <2>2. \E r \in Results : Return(r)
      BY <1>4, ResultTypes DEF PreambleFails, Divergences
    <2> QED
      BY <1>2, <1>3, <2>1, <2>2
  <1>5. CASE FoldWithoutBody
    <2>1. \E r \in Results : Return(r)
      <3>1. Replayable(evaluated[k], Top) => evaluated[k].outcome \in Outcomes
        <4>1. evaluated[k] \in EvaluatedStates
          BY <1>1 DEF TypeInv, TypeOK
        <4> QED
          BY <4>1 DEF Replayable, EvaluatedStates, Empty, InProgress, Poison, CallResults
      <3> QED
        BY <1>5, <3>1, ResultTypes, CallResultTypes DEF FoldWithoutBody
    <2>2. /\ lowered' = lowered /\ consts' = consts /\ Top.role = "preamble"
          /\ \/ evaluated' = evaluated
             \/ evaluated' = [evaluated EXCEPT ![k] = Poison]
      BY <1>5 DEF FoldWithoutBody, CalleeReady, Ended
    <2> QED
      BY <1>2, <1>3, <2>1, <2>2
  <1>6. CASE FoldRejected
    <2>1. /\ evaluated' = [evaluated EXCEPT ![k] = Poison] /\ lowered' = lowered /\ consts' = consts
          /\ Top.role = "preamble"
      BY <1>6 DEF FoldRejected, CalleeReady, Ended
    <2>2. \E r \in Results : Return(r)
      BY <1>6, ResultTypes DEF FoldRejected
    <2> QED
      BY <1>3, <2>1, <2>2
  <1>7. CASE FoldBegin
    <2> DEFINE f == [Top EXCEPT !.role = "fold", !.existing = evaluated[k], !.before = Top.spent, !.acc = 0,
                                !.code = prog.block[prog.body[k]]]
    <2>1. f.role = "fold" /\ f.id = k
      BY <1>1 DEF GoodFrames, Frames
    <2>2. /\ frames' = WithTop(f) /\ evaluated' = [evaluated EXCEPT ![k] = InProgress]
          /\ lowered' = lowered /\ consts' = consts /\ Top.role = "preamble"
          /\ evaluated[k].st \in {"empty", "done"}
      BY <1>7 DEF FoldBegin, MustEvaluate, CalleeReady, Ended
    <2> HIDE DEF f
    <2>3. PICK n \in Nat : n = Len(frames) /\ n # 0
      BY <1>1, StackShape
    <2>4. /\ DOMAIN frames' = 1 .. n /\ frames'[n] = f /\ frames[n].role = "preamble"
          /\ \A i \in DOMAIN frames' : i # n => SameWork(i)
      BY <1>1, <2>2, <2>3, WithTopShape, StackShape
    <2>5. \A role \in Entries : \A id \in EntriesOf(role) :
             EntryState(role, id)' = IF Works(n, role, id)' THEN "inProgress" ELSE EntryState(role, id)
      <3>1. \A role \in Entries : \A id \in EntriesOf(role) :
               EntryState(role, id)' = IF role = "fold" /\ id = k THEN InProgress.st
                                                               ELSE EntryState(role, id)
        BY <1>1, <2>2, SetEvaluated
      <3>2. \A role, id : Works(n, role, id)' <=> role = "fold" /\ id = k
        BY <2>1, <2>4 DEF Works
      <3> QED
        BY <3>1, <3>2 DEF InProgress
    <2>6. /\ frames'[n].role \in Entries /\ frames'[n].id \in EntriesOf(frames'[n].role)
          /\ EntryState(frames'[n].role, frames'[n].id) \notin {"inProgress", "poison"}
      BY <1>1, <2>1, <2>2, <2>4 DEF Entries, EntriesOf, EntryState
    <2> QED
      BY <2>3, <2>4, <2>5, <2>6, BeginStep DEF Entries
  <1>8. CASE FoldExhausted \/ FoldPoisons \/ FoldDone
    <2>1. \E r \in Results : Return(r)
      <3>1. FoldOutcome \in Outcomes
        BY <1>1, Running DEF FoldOutcome, Outcomes
      <3> QED
        BY <1>8, <3>1, ResultTypes, CallResultTypes DEF FoldExhausted, FoldPoisons, FoldDone, Divergences
    <2>2. /\ lowered' = lowered /\ consts' = consts /\ Top.role = "fold"
          /\ \E e : e.st # "inProgress" /\ evaluated' = [evaluated EXCEPT ![k] = e]
      <3>1. Top.existing.st # "inProgress" /\ Poison.st # "inProgress"
        BY <1>1, Running DEF Empty, CallResults, Poison
      <3>2. \A o, b, m : CallResult(o, b, m).st # "inProgress"
        BY DEF CallResult
      <3> QED
        <4>1. CASE FoldExhausted
          BY <3>1, <4>1 DEF FoldExhausted, Ended, AfterExhaustion
        <4>2. CASE FoldPoisons
          BY <3>1, <4>2 DEF FoldPoisons, Ended
        <4>3. CASE FoldDone
          BY <3>2, <4>3 DEF FoldDone, Ended
        <4> QED
          BY <1>8, <4>1, <4>2, <4>3
    <2> QED
      BY <1>3, <2>1, <2>2
  <1>9. CASE FoldPanics
    BY <1>9, StutterShape, SameCaches, KeepStep DEF FoldPanics
  <1> QED
    BY <1>4, <1>5, <1>6, <1>7, <1>8, <1>9

LEMMA LowerKeepsStack ==
    ASSUME TypeInv, InProgressMatchesStack,
           LowerWithoutBody \/ LowerBegin \/ LowerExhausted \/ LowerDone \/ LowerPanics
    PROVE  InProgressMatchesStack'
  <1> DEFINE k == Top.id
  <1>1. frames # <<>> /\ Top.id \in Keys /\ Top \in GoodFrames
    BY Running DEF LowerWithoutBody, LowerBegin, LowerExhausted, LowerDone, LowerPanics,
           CalleeReady, Ended, BlockOver, Ready
  <1>2. lowered = [lowered EXCEPT ![k] = lowered[k]]
    BY <1>1 DEF TypeInv, TypeOK
  <1>3. ASSUME NEW l, lowered' = [lowered EXCEPT ![k] = l], evaluated' = evaluated, consts' = consts,
               \E r \in Results : Return(r), Top.role \in {"preamble", "lower"},
               IF Top.role = "lower" THEN l # "inProgress" ELSE l \in {lowered[k], "poison"}
        PROVE  InProgressMatchesStack'
    <2>1. \A ro \in Entries : \A id \in EntriesOf(ro) :
             EntryState(ro, id)' = IF ro = "lower" /\ id = Top.id THEN l ELSE EntryState(ro, id)
      BY <1>1, <1>3, SetLowered
    <2>2. IF Top.role = "lower" THEN l # "inProgress" ELSE l \in {EntryState("lower", Top.id), "poison"}
      BY <1>3 DEF EntryState
    <2> QED
      BY <1>1, <1>3, <2>1, <2>2, ReturnKeepsStack DEF Entries
  <1>4. CASE LowerWithoutBody
    <2>1. \E r \in Results : Return(r)
      BY <1>4, ResultTypes, CallResultTypes DEF LowerWithoutBody, Divergences
    <2>2. /\ evaluated' = evaluated /\ consts' = consts /\ Top.role = "preamble"
          /\ \/ lowered' = lowered
             \/ lowered' = [lowered EXCEPT ![k] = "poison"]
      BY <1>4 DEF LowerWithoutBody, CalleeReady, Ended, RecursionMark
    <2> QED
      BY <1>2, <1>3, <2>1, <2>2
  <1>5. CASE LowerBegin
    <2> DEFINE f == [Top EXCEPT !.role = "lower", !.code = prog.block[prog.body[k]],
                                !.acc = 0, !.bad = FALSE, !.badType = Top.bad]
    <2>1. f.role = "lower" /\ f.id = k
      BY <1>1 DEF GoodFrames, Frames
    <2>2. /\ frames' = WithTop(f) /\ lowered' = [lowered EXCEPT ![k] = "inProgress"]
          /\ evaluated' = evaluated /\ consts' = consts /\ Top.role = "preamble"
          /\ lowered[k] = "empty"
      BY <1>5 DEF LowerBegin, CalleeReady, Ended
    <2> HIDE DEF f
    <2>3. PICK n \in Nat : n = Len(frames) /\ n # 0
      BY <1>1, StackShape
    <2>4. /\ DOMAIN frames' = 1 .. n /\ frames'[n] = f /\ frames[n].role = "preamble"
          /\ \A i \in DOMAIN frames' : i # n => SameWork(i)
      BY <1>1, <2>2, <2>3, WithTopShape, StackShape
    <2>5. \A role \in Entries : \A id \in EntriesOf(role) :
             EntryState(role, id)' = IF Works(n, role, id)' THEN "inProgress" ELSE EntryState(role, id)
      <3>1. \A role \in Entries : \A id \in EntriesOf(role) :
               EntryState(role, id)' = IF role = "lower" /\ id = k THEN "inProgress"
                                                                ELSE EntryState(role, id)
        BY <1>1, <2>2 DEF TypeInv, TypeOK, Entries, EntriesOf, EntryState
      <3>2. \A role, id : Works(n, role, id)' <=> role = "lower" /\ id = k
        BY <2>1, <2>4 DEF Works
      <3> QED
        BY <3>1, <3>2
    <2>6. /\ frames'[n].role \in Entries /\ frames'[n].id \in EntriesOf(frames'[n].role)
          /\ EntryState(frames'[n].role, frames'[n].id) \notin {"inProgress", "poison"}
      BY <1>1, <2>1, <2>2, <2>4 DEF Entries, EntriesOf, EntryState
    <2> QED
      BY <2>3, <2>4, <2>5, <2>6, BeginStep DEF Entries
  <1>6. CASE LowerExhausted \/ LowerDone
    <2>1. \E r \in Results : Return(r)
      BY <1>6, ResultTypes, CallResultTypes DEF LowerExhausted, LowerDone, Divergences
    <2>2. /\ evaluated' = evaluated /\ consts' = consts /\ Top.role = "lower"
          /\ \E l : l # "inProgress" /\ lowered' = [lowered EXCEPT ![k] = l]
      BY <1>6 DEF LowerExhausted, LowerDone, LowerResult, Ended
    <2> QED
      BY <1>3, <2>1, <2>2
  <1>7. CASE LowerPanics
    BY <1>7, StutterShape, SameCaches, KeepStep DEF LowerPanics
  <1> QED
    BY <1>4, <1>5, <1>6, <1>7
-----------------------------------------------------------------------------
StackInv == TypeInv /\ InProgressMatchesStack /\ Unreachable

LEMMA InitStackInv == Init => StackInv
  <1> SUFFICES ASSUME Init PROVE StackInv
    OBVIOUS
  <1>1. frames = <<>> /\ DOMAIN frames = {}
    BY DEF Init
  <1>2. InProgressMatchesStack
    BY <1>1 DEF Init, InProgressMatchesStack, Entries, EntriesOf, EntryState, Empty
  <1> QED
    BY <1>2, InitTypeInv DEF StackInv, Init, Unreachable

(* The three assertions look at the entry of the frame that is ending.     *)
LEMMA StaysUnreachable ==
    ASSUME TypeInv, InProgressMatchesStack, Unreachable, Next
    PROVE  Unreachable'
  <1>1. frames # <<>> => /\ Top.role = "const" => consts[Top.id] \in {"inProgress", "poison"}
                         /\ Top.role = "lower" => lowered[Top.id] \in {"inProgress", "poison"}
    BY StackShape DEF InProgressMatchesStack, Entries, EntryState
  <1>2. CASE FinishConst
    BY <1>1, <1>2 DEF FinishConst, Ended, BlockOver, Ready, Unreachable
  <1>3. CASE LowerDone
    BY <1>1, <1>3 DEF LowerDone, Ended, BlockOver, Ready, Unreachable
  <1>4. CASE FoldDone \/ FoldPanics \/ LowerPanics
    BY <1>4 DEF FoldDone, FoldPanics, LowerPanics, Unreachable
  <1>5. CASE ~(FinishConst \/ LowerDone \/ FoldDone \/ FoldPanics \/ LowerPanics)
    <2>1. panic' = panic
      BY <1>5 DEF Next, StartEntry, StartConst, ReadConst, FinishConstDiverged, FinishEntry,
             ChargeBranch, RaiseQuota, BindPoison, CompileError, Stop, ReturnStmt, Match,
             RuntimeWhile, NextArm, Call, PreambleFails, FoldWithoutBody, FoldRejected, FoldBegin,
             FoldExhausted, FoldPoisons, LowerWithoutBody, LowerBegin, LowerExhausted
    <2> QED
      BY <2>1 DEF Unreachable
  <1> QED
    BY <1>2, <1>3, <1>4, <1>5

LEMMA StackInvStable == StackInv /\ [Next]_vars => StackInv'
  <1> SUFFICES ASSUME StackInv, [Next]_vars
               PROVE  StackInv'
    OBVIOUS
  <1>1. TypeInv'
    BY TypeInvStable DEF StackInv
  <1>2. CASE Next
    <2>1. InProgressMatchesStack'
      BY <1>2, EvaluateKeepsStack, StatementsKeepStack, CallKeepsStack, FoldKeepsStack,
         LowerKeepsStack DEF Next, StackInv
    <2>2. Unreachable'
      BY <1>2, StaysUnreachable DEF StackInv
    <2> QED
      BY <1>1, <2>1, <2>2 DEF StackInv
  <1>3. CASE UNCHANGED vars
    <2>1. InProgressMatchesStack'
      BY <1>3, StutterShape, SameCaches, KeepStep DEF StackInv, vars
    <2> QED
      BY <1>1, <1>3, <2>1 DEF StackInv, vars, Unreachable
  <1> QED
    BY <1>2, <1>3

(* Recursion detection is exact: an entry is marked in progress only while *)
(* exactly one frame of the stack evaluates it, and that frame's entry is  *)
(* in progress unless recursion poisoned it.                               *)
THEOREM RecursionDetection == Spec => []InProgressMatchesStack
  <1>1. StackInv => InProgressMatchesStack
    BY DEF StackInv
  <1> QED
    BY InitStackInv, StackInvStable, <1>1, PTL DEF Spec

(* Storing the result of a lowering or of a const never meets an entry     *)
(* that another call has reset or completed.                               *)
THEOREM AssertionsHold == Spec => []Unreachable
  <1>1. StackInv => Unreachable
    BY DEF StackInv
  <1> QED
    BY InitStackInv, StackInvStable, <1>1, PTL DEF Spec
-----------------------------------------------------------------------------
(* The branch quota. *)

(* A step keeps the account of frame i: its function, what it has paid,    *)
(* and the limit of a suspended frame.                                     *)
Keeps(i) ==
    /\ frames'[i].fn = frames[i].fn
    /\ frames'[i].spent >= frames[i].spent
    /\ frames'[i].limit >= frames[i].limit
    /\ i < Len(frames) => frames'[i].limit = frames[i].limit

(* No frame is pushed. *)
Settles == DOMAIN frames' \subseteq DOMAIN frames /\ \A i \in DOMAIN frames' : Keeps(i)

(* A frame is pushed and every frame of its function pays for it. *)
Pushes ==
    LET n == Len(frames) + 1 IN
    /\ DOMAIN frames' = 1 .. n
    /\ \A i \in DOMAIN frames :
          /\ Keeps(i)
          /\ frames[i].fn # NoFn /\ frames[i].fn = frames'[n].fn
             => frames'[i].spent >= frames[i].spent + 1

Above(i) == {j \in FramesOf(frames[i].fn) : j > i}
-----------------------------------------------------------------------------
LEMMA FrameCounters ==
    ASSUME NEW stack \in Seq(GoodFrames), NEW i \in DOMAIN stack
    PROVE  /\ i \in Nat \ {0} /\ i <= Len(stack) /\ Len(stack) \in Nat
           /\ stack[i].spent \in Nat /\ stack[i].limit \in Nat
           /\ stack[i].spent <= stack[i].limit
  <1>1. DOMAIN stack = 1 .. Len(stack) /\ Len(stack) \in Nat /\ stack[i] \in GoodFrames
    BY LenProperties, ElementOfSeq
  <1> QED
    BY <1>1 DEF GoodFrames, Frames

LEMMA AboveIsFinite ==
    ASSUME TypeInv, NEW i \in DOMAIN frames
    PROVE  /\ IsFiniteSet(Above(i)) /\ Cardinality(Above(i)) \in Nat
           /\ Above(i) \subseteq DOMAIN frames
  <1>1. IsFiniteSet(1 .. Len(frames))
    BY StackShape, FS_Interval
  <1>2. Above(i) \in SUBSET (1 .. Len(frames))
    BY StackShape DEF Above, FramesOf
  <1> QED
    BY <1>1, <1>2, FS_Subset, FS_CardinalityType, StackShape

LEMMA SettlesKeepsCharges ==
    ASSUME TypeInv, TypeInv', RecursionIsCharged, Settles
    PROVE  RecursionIsCharged'
  <1> SUFFICES ASSUME NEW i \in DOMAIN frames'
               PROVE  (/\ frames[i].spent <= frames[i].limit
                       /\ frames[i].fn # NoFn => frames[i].spent >= Cardinality(Above(i)))'
    BY DEF RecursionIsCharged, Above
  <1>1. (frames[i].spent <= frames[i].limit /\ frames[i].spent \in Nat)'
    BY FrameCounters DEF TypeInv
  <1>2. i \in DOMAIN frames /\ Keeps(i) /\ frames[i].spent \in Nat
    BY FrameCounters DEF Settles, TypeInv
  <1>3. Above(i)' \in SUBSET Above(i)
    BY <1>2 DEF Above, FramesOf, Settles, Keeps
  <1>4. Cardinality(Above(i)') <= Cardinality(Above(i)) /\ Cardinality(Above(i)') \in Nat
        /\ Cardinality(Above(i)) \in Nat
    BY <1>2, <1>3, AboveIsFinite, FS_Subset, FS_CardinalityType
  <1>5. frames[i].fn # NoFn => frames[i].spent >= Cardinality(Above(i))
    BY <1>2 DEF RecursionIsCharged, Above
  <1> QED
    BY <1>1, <1>2, <1>4, <1>5 DEF Keeps

LEMMA PushesKeepsCharges ==
    ASSUME TypeInv, TypeInv', RecursionIsCharged, Pushes
    PROVE  RecursionIsCharged'
  <1> SUFFICES ASSUME NEW i \in DOMAIN frames'
               PROVE  (/\ frames[i].spent <= frames[i].limit
                       /\ frames[i].fn # NoFn => frames[i].spent >= Cardinality(Above(i)))'
    BY DEF RecursionIsCharged, Above
  <1>1. PICK n \in Nat : n = Len(frames) + 1
    BY StackShape
  <1>2. DOMAIN frames = 1 .. n - 1 /\ DOMAIN frames' = 1 .. n
    BY <1>1, StackShape DEF Pushes
  <1>3. (frames[i].spent <= frames[i].limit /\ frames[i].spent \in Nat)'
    BY FrameCounters DEF TypeInv
  <1>4. CASE i = n
    <2>1. Above(i)' = {}
      BY <1>2, <1>4 DEF Above, FramesOf
    <2> QED
      BY <1>3, <2>1, FS_EmptySet
  <1>5. CASE i # n
    <2>1. i \in DOMAIN frames /\ Keeps(i) /\ frames[i].spent \in Nat
      BY <1>1, <1>2, <1>5, FrameCounters DEF Pushes, TypeInv
    <2>2. frames[i].fn # NoFn => frames[i].spent >= Cardinality(Above(i))
      BY <2>1 DEF RecursionIsCharged, Above
    <2>3. IsFiniteSet(Above(i)) /\ Cardinality(Above(i)) \in Nat
      BY <2>1, AboveIsFinite
    <2>4. \A j \in DOMAIN frames : frames'[j].fn = frames[j].fn
      BY DEF Pushes, Keeps
    <2>5. CASE frames'[n].fn = frames[i].fn
      <3>1. Above(i)' \in SUBSET (Above(i) \cup {n})
        BY <1>2, <2>1, <2>4 DEF Above, FramesOf
      <3>2. n \notin Above(i)
        BY <1>2 DEF Above, FramesOf
      <3>3. /\ IsFiniteSet(Above(i) \cup {n})
            /\ Cardinality(Above(i) \cup {n}) = Cardinality(Above(i)) + 1
        BY <2>3, <3>2, FS_AddElement
      <3>4. Cardinality(Above(i)') <= Cardinality(Above(i)) + 1 /\ Cardinality(Above(i)') \in Nat
        BY <3>1, <3>3, FS_Subset, FS_CardinalityType
      <3>5. frames'[i].fn # NoFn => frames'[i].spent >= frames[i].spent + 1
        BY <1>1, <2>1, <2>4, <2>5 DEF Pushes
      <3> QED
        BY <1>3, <2>1, <2>2, <2>3, <2>4, <3>4, <3>5
    <2>6. CASE frames'[n].fn # frames[i].fn
      <3>1. Above(i)' \in SUBSET Above(i)
        BY <1>2, <2>1, <2>4, <2>6 DEF Above, FramesOf
      <3>2. Cardinality(Above(i)') <= Cardinality(Above(i)) /\ Cardinality(Above(i)') \in Nat
        BY <2>3, <3>1, FS_Subset, FS_CardinalityType
      <3> QED
        BY <1>3, <2>1, <2>2, <2>3, <2>4, <3>2 DEF Keeps
    <2> QED
      BY <2>5, <2>6
  <1> QED
    BY <1>4, <1>5
-----------------------------------------------------------------------------
(* The ways a step changes the stack, as changes of accounts. *)
LEMMA StaySettles ==
    ASSUME TypeInv, frames' = frames
    PROVE  Settles
  BY FrameCounters DEF Settles, Keeps, TypeInv

LEMMA ReplaceSettles ==
    ASSUME TypeInv, frames # <<>>, NEW f, f.fn = Top.fn,
           f.spent >= Top.spent, f.limit >= Top.limit, frames' = WithTop(f)
    PROVE  Settles /\ DOMAIN frames' = DOMAIN frames
  <1>1. /\ DOMAIN frames = 1 .. Len(frames) /\ Len(frames) \in Nat \ {0}
        /\ DOMAIN frames' = DOMAIN frames /\ Top = frames[Len(frames)]
        /\ \A i \in DOMAIN frames : frames'[i] = IF i = Len(frames) THEN f ELSE frames[i]
    BY StackShape DEF WithTop
  <1>2. \A i \in DOMAIN frames : frames[i].spent \in Nat /\ frames[i].limit \in Nat
    BY FrameCounters DEF TypeInv
  <1>3. ASSUME NEW i \in DOMAIN frames PROVE Keeps(i)
    BY <1>1, <1>2, <1>3 DEF Keeps
  <1> QED
    BY <1>1, <1>3 DEF Settles

LEMMA ReturnSettles ==
    ASSUME TypeInv, frames # <<>>, NEW r \in Results, Return(r)
    PROVE  Settles
  <1>1. /\ Below \in Seq(GoodFrames) /\ Len(Below) = Len(frames) - 1
        /\ Len(frames) \in Nat \ {0} /\ DOMAIN frames = 1 .. Len(frames)
        /\ \A i \in 1 .. Len(frames) - 1 : Below[i] = frames[i]
    BY StackBelow, StackTop, StackShape, EmptySeq DEF TypeInv, Below
  <1>2. \A i \in DOMAIN frames : frames[i].spent \in Nat /\ frames[i].limit \in Nat
    BY FrameCounters DEF TypeInv
  <1>3. CASE Below = <<>>
    BY <1>3 DEF Return, Settles
  <1>4. CASE Below # <<>>
    <2> DEFINE f == Receive(Below[Len(Below)], r)
    <2>1. frames' = [Below EXCEPT ![Len(Below)] = f]
      BY <1>1, <1>4 DEF Return
    <2>2. Below[Len(Below)] \in GoodFrames
      BY <1>1, <1>4, EmptySeq, ElementOfSeq
    <2>3. /\ f.fn = Below[Len(Below)].fn /\ f.spent = Below[Len(Below)].spent
          /\ f.limit = Below[Len(Below)].limit
      BY <2>2 DEF Receive, GoodFrames, Frames
    <2>4. DOMAIN Below = 1 .. Len(frames) - 1
      BY <1>1, LenProperties
    <2> HIDE DEF f
    <2>5. DOMAIN frames' = 1 .. Len(frames) - 1
      BY <2>1, <2>4
    <2>6. ASSUME NEW i \in DOMAIN frames' PROVE i \in DOMAIN frames /\ Keeps(i)
      BY <1>1, <1>2, <2>1, <2>3, <2>4, <2>5 DEF Keeps
    <2> QED
      BY <2>6 DEF Settles
  <1> QED
    BY <1>3, <1>4

(* A frame without a function is pushed: nobody pays. *)
LEMMA AppendPushes ==
    ASSUME TypeInv, NEW stack \in Seq(GoodFrames), NEW g \in GoodFrames,
           Len(stack) = Len(frames), frames' = Append(stack, g),
           \A i \in DOMAIN frames :
              /\ stack[i].fn = frames[i].fn /\ stack[i].limit = frames[i].limit
              /\ stack[i].spent >= frames[i].spent
              /\ frames[i].fn # NoFn /\ frames[i].fn = g.fn
                 => stack[i].spent >= frames[i].spent + 1
    PROVE  Pushes
  <1>1. PICK n \in Nat : n = Len(frames) + 1 /\ DOMAIN frames = 1 .. n - 1
    BY StackShape
  <1>2. /\ DOMAIN frames' = 1 .. n /\ frames'[n] = g
        /\ \A i \in 1 .. n - 1 : frames'[i] = stack[i]
    <2>1. /\ Len(frames') = n /\ frames'[n] = g /\ frames' \in Seq(GoodFrames)
          /\ \A i \in 1 .. n - 1 : frames'[i] = stack[i]
      BY <1>1, AppendProperties
    <2> QED
      BY <2>1, LenProperties
  <1>3. \A i \in DOMAIN frames : frames[i].limit \in Nat
    BY FrameCounters DEF TypeInv
  <1> QED
    BY <1>1, <1>2, <1>3 DEF Pushes, Keeps

LEMMA FirstPushes ==
    ASSUME frames = <<>>, NEW g, frames' = <<g>>
    PROVE  Pushes
  <1>1. Len(frames) + 1 = 1 /\ DOMAIN frames = {} /\ DOMAIN frames' = 1 .. 1
    OBVIOUS
  <1> QED
    BY <1>1 DEF Pushes

(* Operations on frames that leave their account alone. *)
LEMMA SameAccountFrames ==
    ASSUME NEW f \in GoodFrames
    PROVE  /\ Advance(f).fn = f.fn /\ Advance(f).spent = f.spent /\ Advance(f).limit = f.limit
           /\ \A r : /\ Receive(f, r).fn = f.fn /\ Receive(f, r).spent = f.spent
                     /\ Receive(f, r).limit = f.limit
           /\ \A n \in Nat : /\ SetMaxQuota(f, n).fn = f.fn /\ SetMaxQuota(f, n).spent = f.spent
                             /\ SetMaxQuota(f, n).limit >= f.limit
           /\ f.spent \in Nat /\ f.limit \in Nat /\ f.spent >= f.spent /\ f.limit >= f.limit
  BY DEF Advance, Receive, SetMaxQuota, Max2, GoodFrames, Frames
-----------------------------------------------------------------------------
LEMMA EvaluateMoves ==
    ASSUME TypeInv,
           StartEntry \/ StartConst \/ ReadConst \/ FinishConst \/ FinishConstDiverged
           \/ FinishEntry
    PROVE  Settles \/ Pushes
  <1>1. CASE StartEntry
    BY <1>1, FirstPushes DEF StartEntry
  <1>2. CASE StartConst
    BY <1>2, FirstPushes, StaySettles DEF StartConst
  <1>3. CASE ReadConst
    <2> DEFINE c == Head(Top.code).id
               stack == WithTop(Advance(Top))
    <2>1. /\ frames # <<>> /\ Top.code # <<>> /\ c \in Consts
          /\ Top \in GoodFrames /\ Advance(Top) \in GoodFrames
      BY <1>3, StatementAtTop, Running, AdvanceIsGood DEF ReadConst, At, Ready
    <2>2. CASE \E r : frames' = WithTop(Receive(Advance(Top), r))
      <3>1. PICK r : frames' = WithTop(Receive(Advance(Top), r))
        BY <2>2
      <3> QED
        BY <2>1, <3>1, SameAccountFrames, ReplaceSettles
    <2>3. CASE frames' = Append(WithTop(Advance(Top)), ConstFrame(c))
      <3>1. /\ stack \in Seq(GoodFrames) /\ Len(stack) = Len(frames)
            /\ \A i \in DOMAIN frames : stack[i] = IF i = Len(frames) THEN Advance(Top) ELSE frames[i]
        BY <2>1, StackTop, StackShape DEF WithTop, TypeInv
      <3>2. ConstFrame(c) \in GoodFrames /\ ConstFrame(c).fn = NoFn
        BY <2>1, ConstFrameIsGood DEF ConstFrame, NewFrame
      <3>3. \A i \in DOMAIN frames :
               /\ stack[i].fn = frames[i].fn /\ stack[i].limit = frames[i].limit
               /\ stack[i].spent = frames[i].spent /\ frames[i].spent \in Nat
        BY <2>1, <3>1, SameAccountFrames, StackShape
      <3>4. \A i \in DOMAIN frames : stack[i].spent >= frames[i].spent
        BY <3>3
      <3> HIDE DEF stack
      <3> QED
        BY <2>3, <3>1, <3>2, <3>3, <3>4, AppendPushes DEF stack
    <2> QED
      BY <1>3, <2>2, <2>3 DEF ReadConst
  <1>4. CASE FinishConst \/ FinishConstDiverged \/ FinishEntry
    <2>1. frames # <<>> /\ \E r \in Results : Return(r)
      BY <1>4, ResultTypes DEF FinishConst, FinishConstDiverged, FinishEntry, Ended, BlockOver, Ready
    <2> QED
      BY <2>1, ReturnSettles
  <1> QED
    BY <1>1, <1>2, <1>3, <1>4

LEMMA StatementsSettle ==
    ASSUME TypeInv,
           ChargeBranch \/ RaiseQuota \/ BindPoison \/ CompileError \/ Stop \/ ReturnStmt
           \/ Match \/ RuntimeWhile \/ NextArm
    PROVE  Settles
  <1>1. frames # <<>> /\ Top \in GoodFrames
    BY TopIsGood DEF ChargeBranch, RaiseQuota, BindPoison, CompileError, Stop, ReturnStmt, Match,
           RuntimeWhile, NextArm, At, BlockOver, Ready
  <1>2. CASE frames' = frames
    BY <1>2, StaySettles
  <1>3. CASE ChargeBranch /\ frames' # frames
    <2>1. /\ Advance(Top) \in GoodFrames
          /\ frames' = WithTop([Advance(Top) EXCEPT !.spent = @ + 1])
      BY <1>1, <1>3, AdvanceIsGood DEF ChargeBranch, At
    <2> DEFINE f == [Advance(Top) EXCEPT !.spent = @ + 1]
    <2>2. f.fn = Advance(Top).fn /\ f.spent = Advance(Top).spent + 1 /\ f.limit = Advance(Top).limit
      BY <2>1 DEF GoodFrames, Frames
    <2>3. f.fn = Top.fn /\ f.spent >= Top.spent /\ f.limit >= Top.limit
      BY <1>1, <2>1, <2>2, SameAccountFrames
    <2> HIDE DEF f
    <2> QED
      BY <1>1, <2>1, <2>3, ReplaceSettles DEF f
  <1>4. CASE RaiseQuota
    <2>1. Advance(Top) \in GoodFrames /\ Head(Top.code).limit \in Nat
      BY <1>1, <1>4, AdvanceIsGood, StatementAtTop DEF RaiseQuota, At
    <2> DEFINE f == SetMaxQuota(Advance(Top), Head(Top.code).limit)
    <2>2. f.fn = Top.fn /\ f.spent >= Top.spent /\ f.limit >= Top.limit
      BY <1>1, <2>1, SameAccountFrames
    <2> QED
      BY <1>1, <1>4, <2>2, ReplaceSettles DEF RaiseQuota
  <1>5. CASE BindPoison
    <2>1. Advance(Top) \in GoodFrames
      BY <1>1, <1>5, AdvanceIsGood DEF BindPoison, At
    <2> QED
      BY <1>1, <1>5, <2>1, SameAccountFrames, ReplaceSettles DEF BindPoison
  <1>6. CASE (ReturnStmt \/ Match \/ RuntimeWhile \/ NextArm) /\ frames' # frames
    <2>1. \E c, a, v : frames' = WithTop([Top EXCEPT !.code = c, !.arms = a])
                       \/ frames' = WithTop([Top EXCEPT !.acc = v])
      BY <1>6 DEF ReturnStmt, Match, RuntimeWhile, NextArm, EnterArms
    <2>2. PICK f : /\ frames' = WithTop(f)
                   /\ \E c, a, v : f = [Top EXCEPT !.code = c, !.arms = a] \/ f = [Top EXCEPT !.acc = v]
      BY <2>1
    <2>3. f.fn = Top.fn /\ f.spent = Top.spent /\ f.limit = Top.limit
      BY <1>1, <2>2 DEF GoodFrames, Frames
    <2> QED
      BY <1>1, <2>2, <2>3, SameAccountFrames, ReplaceSettles
  <1> QED
    BY <1>2, <1>3, <1>4, <1>5, <1>6 DEF CompileError, Stop

LEMMA CallMoves ==
    ASSUME TypeInv, Call
    PROVE  Settles \/ Pushes
  <1> DEFINE s == Head(Top.code)
             f == DefOf[s.key]
             stack == [Charged(f) EXCEPT ![Len(frames)] = Advance(@)]
  <1>1. /\ frames # <<>> /\ Top.code # <<>> /\ Top \in GoodFrames /\ Advance(Top) \in GoodFrames
        /\ s.key \in Keys /\ f \in FnDefs /\ s.ct \in BOOLEAN
    BY TopIsGood, AdvanceIsGood, StatementAtTop, Program DEF Call, At, Ready
  <1>2. CASE frames' = WithTop(Receive(Advance(Top), Gives("poison")))
    BY <1>1, <1>2, SameAccountFrames, ReplaceSettles
  <1>3. CASE frames' = frames
    BY <1>3, StaySettles
  <1>4. CASE /\ \A i \in FramesOf(f) : CanSpend(frames[i], 1)
             /\ \E g \in GoodFrames : g.fn = f /\ frames' = Append(stack, g)
    <2>1. PICK g \in GoodFrames : g.fn = f /\ frames' = Append(stack, g)
      BY <1>4
    <2>2. /\ Charged(f) \in Seq(GoodFrames) /\ Len(Charged(f)) = Len(frames)
          /\ Charged(f) # <<>> /\ Charged(f)[Len(frames)].code = Top.code
      BY <1>1, <1>4, ChargedIsGood
    <2>3. \A i \in DOMAIN frames :
             /\ frames[i].spent \in Nat
             /\ Charged(f)[i].fn = frames[i].fn /\ Charged(f)[i].limit = frames[i].limit
             /\ Charged(f)[i].spent = IF frames[i].fn = f THEN frames[i].spent + 1
                                                          ELSE frames[i].spent
      BY StackShape DEF Charged, GoodFrames, Frames
    <2>4. /\ stack \in Seq(GoodFrames) /\ Len(stack) = Len(frames)
          /\ \A i \in DOMAIN frames :
                /\ stack[i].fn = Charged(f)[i].fn /\ stack[i].limit = Charged(f)[i].limit
                /\ stack[i].spent = Charged(f)[i].spent
      <3>1. /\ Charged(f)[Len(frames)] \in GoodFrames
            /\ Advance(Charged(f)[Len(frames)]) \in GoodFrames
        BY <1>1, <2>2, StackTop, AdvanceIsGood
      <3>2. stack \in Seq(GoodFrames) /\ Len(stack) = Len(frames)
        BY <2>2, <3>1, StackTop
      <3>3. DOMAIN stack = DOMAIN frames /\ DOMAIN Charged(f) = DOMAIN frames
        BY <2>2, <3>2, LenProperties, StackShape
      <3>4. \A i \in DOMAIN frames :
               stack[i] = IF i = Len(frames) THEN Advance(Charged(f)[i]) ELSE Charged(f)[i]
        BY <3>3
      <3> HIDE DEF stack
      <3>5. \A i \in DOMAIN frames :
                /\ stack[i].fn = Charged(f)[i].fn /\ stack[i].limit = Charged(f)[i].limit
                /\ stack[i].spent = Charged(f)[i].spent
        BY <3>1, <3>4, SameAccountFrames
      <3> QED
        BY <3>2, <3>5
    <2> HIDE DEF stack
    <2>5. \A i \in DOMAIN frames :
              /\ stack[i].fn = frames[i].fn /\ stack[i].limit = frames[i].limit
              /\ stack[i].spent >= frames[i].spent
              /\ frames[i].fn # NoFn /\ frames[i].fn = g.fn
                 => stack[i].spent >= frames[i].spent + 1
      BY <2>1, <2>3, <2>4
    <2> QED
      BY <2>1, <2>4, <2>5, AppendPushes
  <1>5. \/ frames' = WithTop(Receive(Advance(Top), Gives("poison")))
        \/ frames' = frames
        \/ /\ \A i \in FramesOf(f) : CanSpend(frames[i], 1)
           /\ \E g \in GoodFrames : g.fn = f /\ frames' = Append(stack, g)
    <2> DEFINE g == NewFrame("preamble", s.key, f, Comptime(Top) \/ s.ct \/ prog.folds[s.key],
                             Top.limit, prog.block[prog.preamble[s.key]])
    <2>1. g \in GoodFrames
      BY <1>1, NewFrameIsGood, Running, Program DEF Roles
    <2>2. g.fn = f
      BY DEF NewFrame
    <2>3. \/ frames' = WithTop(Receive(Advance(Top), Gives("poison")))
          \/ frames' = frames
          \/ (\A i \in FramesOf(f) : CanSpend(frames[i], 1)) /\ frames' = Append(stack, g)
      BY DEF Call
    <2> HIDE DEF g
    <2> QED
      BY <2>1, <2>2, <2>3
  <1> QED
    BY <1>2, <1>3, <1>4, <1>5

LEMMA CalleesSettle ==
    ASSUME TypeInv,
           PreambleFails \/ FoldWithoutBody \/ FoldRejected \/ FoldBegin
           \/ FoldExhausted \/ FoldPoisons \/ FoldDone \/ FoldPanics
           \/ LowerWithoutBody \/ LowerBegin \/ LowerExhausted \/ LowerDone \/ LowerPanics
    PROVE  Settles
  <1>1. frames # <<>> /\ Top.id \in Keys /\ Top \in GoodFrames
    BY Running DEF PreambleFails, FoldWithoutBody, FoldRejected, FoldBegin, FoldExhausted,
           FoldPoisons, FoldDone, FoldPanics, LowerWithoutBody, LowerBegin, LowerExhausted,
           LowerDone, LowerPanics, CalleeReady, Ended, BlockOver, Ready
  <1>2. CASE FoldBegin
    <2> DEFINE f == [Top EXCEPT !.role = "fold", !.existing = evaluated[Top.id],
                                !.before = Top.spent, !.acc = 0, !.code = prog.block[prog.body[Top.id]]]
    <2>1. f.fn = Top.fn /\ f.spent = Top.spent /\ f.limit = Top.limit
      BY <1>1 DEF GoodFrames, Frames
    <2>2. frames' = WithTop(f)
      BY <1>2 DEF FoldBegin
    <2> HIDE DEF f
    <2> QED
      BY <1>1, <2>1, <2>2, SameAccountFrames, ReplaceSettles
  <1>3. CASE LowerBegin
    <2> DEFINE f == [Top EXCEPT !.role = "lower", !.code = prog.block[prog.body[Top.id]],
                                !.acc = 0, !.bad = FALSE, !.badType = Top.bad]
    <2>1. f.fn = Top.fn /\ f.spent = Top.spent /\ f.limit = Top.limit
      BY <1>1 DEF GoodFrames, Frames
    <2>2. frames' = WithTop(f)
      BY <1>3 DEF LowerBegin
    <2> HIDE DEF f
    <2> QED
      BY <1>1, <2>1, <2>2, SameAccountFrames, ReplaceSettles
  <1>4. CASE FoldPanics \/ LowerPanics
    BY <1>4, StaySettles DEF FoldPanics, LowerPanics
  <1>5. CASE FoldWithoutBody \/ FoldRejected \/ FoldExhausted \/ FoldPoisons \/ FoldDone
             \/ PreambleFails \/ LowerWithoutBody \/ LowerExhausted \/ LowerDone
    <2>1. Replayable(evaluated[Top.id], Top) => evaluated[Top.id].outcome \in Outcomes
      <3>1. evaluated[Top.id] \in EvaluatedStates
        BY <1>1 DEF TypeInv, TypeOK
      <3> QED
        BY <3>1 DEF Replayable, EvaluatedStates, Empty, InProgress, Poison, CallResults
    <2>2. FoldOutcome \in Outcomes
      BY <1>1, Running DEF FoldOutcome, Outcomes
    <2>3. \E r \in Results : Return(r)
      BY <1>5, <2>1, <2>2, ResultTypes, CallResultTypes
         DEF FoldWithoutBody, FoldRejected, FoldExhausted, FoldPoisons, FoldDone, PreambleFails,
             LowerWithoutBody, LowerExhausted, LowerDone, Divergences
    <2> QED
      BY <1>1, <2>3, ReturnSettles
  <1> QED
    BY <1>2, <1>3, <1>4, <1>5

LEMMA StackMoves ==
    ASSUME TypeInv, [Next]_vars
    PROVE  Settles \/ Pushes
  <1>1. CASE UNCHANGED vars
    BY <1>1, StaySettles DEF vars
  <1>2. CASE Next
    BY <1>2, EvaluateMoves, StatementsSettle, CallMoves, CalleesSettle DEF Next
  <1> QED
    BY <1>1, <1>2
-----------------------------------------------------------------------------
QuotaInv == StackInv /\ RecursionIsCharged

LEMMA InitQuotaInv == Init => QuotaInv
  <1> SUFFICES ASSUME Init PROVE QuotaInv
    OBVIOUS
  <1>1. DOMAIN frames = {}
    BY DEF Init
  <1> QED
    BY <1>1, InitStackInv DEF QuotaInv, RecursionIsCharged

LEMMA QuotaInvStable == QuotaInv /\ [Next]_vars => QuotaInv'
  <1> SUFFICES ASSUME QuotaInv, [Next]_vars PROVE QuotaInv'
    OBVIOUS
  <1>1. StackInv' /\ TypeInv /\ TypeInv'
    BY StackInvStable, TypeInvStable DEF QuotaInv, StackInv
  <1>2. RecursionIsCharged'
    BY <1>1, StackMoves, SettlesKeepsCharges, PushesKeepsCharges DEF QuotaInv
  <1> QED
    BY <1>1, <1>2 DEF QuotaInv

(* The branch quota bounds recursion whatever the program and the quotas   *)
(* it sets: a frame has paid one branch for each frame of its function     *)
(* above it and never exceeds its limit, so no more frames of a function   *)
(* can be stacked above one of them than its limit.                        *)
THEOREM RecursionIsBounded == Spec => []RecursionIsCharged
  <1>1. QuotaInv => RecursionIsCharged
    BY DEF QuotaInv
  <1> QED
    BY InitQuotaInv, QuotaInvStable, <1>1, PTL DEF Spec
-----------------------------------------------------------------------------
LEMMA LimitsStayPrivate ==
    ASSUME TypeInv, [Next]_vars
    PROVE  LimitsArePrivate
  <1>1. ASSUME NEW i \in DOMAIN frames \cap DOMAIN frames' PROVE Keeps(i)
    BY StackMoves DEF Settles, Pushes
  <1> QED
    BY <1>1 DEF LimitsArePrivate, Keeps

(* The entry a frame works on is undecided: no store meets a verdict. *)
LEMMA VerdictsStand ==
    ASSUME StackInv, Next
    PROVE  DecidedIsFinal
  <1>1. TypeInv /\ InProgressMatchesStack
    BY DEF StackInv
  <1>2. frames # <<>> => /\ Len(frames) \in DOMAIN frames /\ Top = frames[Len(frames)]
                         /\ Top.role = "const" => OnStack(Top.id)
                         /\ Top.role = "fold" => ~IsDone(evaluated[Top.id])
                         /\ Top.role = "lower" => lowered[Top.id] \in {"inProgress", "poison"}
    BY <1>1, StackShape DEF InProgressMatchesStack, Entries, EntryState, OnStack, Works, IsDone
  <1>3. \A c \in Consts : consts[c] = "inProgress" => OnStack(c)
    BY <1>1 DEF InProgressMatchesStack, Entries, EntriesOf, EntryState, OnStack
  <1>4. \A c \in Consts : consts[c] # "vacant" /\ ~OnStack(c) => consts'[c] = consts[c]
    <2>1. CASE consts' = consts
      BY <2>1
    <2>2. CASE StartConst \/ ReadConst
      BY <1>1, <1>3, <2>2 DEF StartConst, ReadConst, TypeInv, TypeOK
    <2>3. CASE FinishConst \/ FinishConstDiverged
      BY <1>1, <1>2, <2>3 DEF FinishConst, FinishConstDiverged, Ended, BlockOver, Ready, TypeInv, TypeOK
    <2> QED
      BY <2>1, <2>2, <2>3 DEF Next, StartEntry, FinishEntry, ChargeBranch, RaiseQuota, BindPoison,
         CompileError, Stop, ReturnStmt, Match, RuntimeWhile, NextArm, Call, PreambleFails,
         FoldWithoutBody, FoldRejected, FoldBegin, FoldExhausted, FoldPoisons, FoldDone, FoldPanics,
         LowerWithoutBody, LowerBegin, LowerExhausted, LowerDone, LowerPanics, caches
  <1>5. \A k \in Keys : lowered[k] \in {"fn", "poison"} => lowered'[k] = lowered[k]
    <2>1. CASE lowered' = lowered
      BY <2>1
    <2>2. CASE LowerWithoutBody \/ LowerBegin \/ LowerExhausted
      BY <1>1, <2>2 DEF LowerWithoutBody, LowerBegin, LowerExhausted, TypeInv, TypeOK, RecursionMark
    <2>3. CASE LowerDone
      BY <1>1, <1>2, <2>3 DEF LowerDone, LowerResult, Ended, BlockOver, Ready, TypeInv, TypeOK
    <2> QED
      BY <2>1, <2>2, <2>3 DEF Next, StartEntry, StartConst, ReadConst, FinishConst, FinishConstDiverged,
         FinishEntry, ChargeBranch, RaiseQuota, BindPoison,
         CompileError, Stop, ReturnStmt, Match, RuntimeWhile, NextArm, Call, PreambleFails,
         FoldWithoutBody, FoldRejected, FoldBegin, FoldExhausted, FoldPoisons, FoldDone, FoldPanics,
         LowerPanics, caches
  <1>6. \A k \in Keys : IsDone(evaluated[k]) /\ IsDone(evaluated'[k]) => evaluated'[k] = evaluated[k]
    <2>1. CASE evaluated' = evaluated
      BY <2>1
    <2>2. CASE (FoldWithoutBody \/ FoldRejected \/ FoldBegin \/ FoldPoisons) /\ evaluated' # evaluated
      <3>1. PICK e \in {InProgress, Poison} : evaluated' = [evaluated EXCEPT ![Top.id] = e]
        BY <2>2 DEF FoldWithoutBody, FoldRejected, FoldBegin, FoldPoisons
      <3>2. ~IsDone(e) /\ evaluated \in [Keys -> EvaluatedStates]
        BY <1>1 DEF IsDone, InProgress, Poison, TypeInv, TypeOK
      <3> QED
        BY <3>1, <3>2
    <2>3. CASE FoldExhausted \/ FoldDone
      BY <1>1, <1>2, <2>3 DEF FoldExhausted, FoldDone, Ended, BlockOver, Ready, TypeInv, TypeOK
    <2> QED
      BY <2>1, <2>2, <2>3 DEF Next, StartEntry, StartConst, ReadConst, FinishConst, FinishConstDiverged,
         FinishEntry, ChargeBranch, RaiseQuota, BindPoison,
         CompileError, Stop, ReturnStmt, Match, RuntimeWhile, NextArm, Call, PreambleFails,
         FoldPanics, LowerWithoutBody, LowerBegin, LowerExhausted, LowerDone, LowerPanics, caches
  <1> QED
    BY <1>4, <1>5, <1>6 DEF DecidedIsFinal

(* A call changes neither the limit of a suspended frame nor a verdict:    *)
(* lowered functions, poisoned lowerings, consts that are no longer being  *)
(* evaluated and recorded results stay as they are for good.               *)
THEOREM CallersAndVerdicts == Spec => CallersAndVerdictsStand
  <1>1. StackInv /\ [Next]_vars => [LimitsArePrivate /\ DecidedIsFinal]_vars
    BY LimitsStayPrivate, VerdictsStand DEF StackInv
  <1> QED
    BY InitStackInv, StackInvStable, <1>1, PTL DEF Spec, CallersAndVerdictsStand
=============================================================================

----------------------- MODULE ComptimeFailureProofs -----------------------
(***************************************************************************)
(* Every way to fail is accounted for, for every program and quota: poison *)
(* comes with a diagnostic, an assertion of the evaluator only fails after *)
(* recursion was diagnosed, and what ran out of quota can be retried.      *)
(*                                                                         *)
(* The second needs that a body evaluated again gives what it gave before, *)
(* whatever was cached in between.  It is stated with an oracle: what each *)
(* call and each const gives.  Code runs on it one statement after the     *)
(* other, so it ends in one state only; and the oracle is explained, that  *)
(* is, each call it knows gives what its preamble and body end in when     *)
(* they run on the oracle themselves.                                      *)
(***************************************************************************)
EXTENDS ComptimeProofs, SequenceLemmas

-----------------------------------------------------------------------------
(* Running code on an oracle.  O.calls is what each known call gives,      *)
(* O.consts what each decided const does.                                  *)

Oracles ==
    [calls : UNION {[K -> Results] : K \in SUBSET Keys},
     consts : UNION {[C -> Results] : C \in SUBSET Consts}]

(* What evaluation carries from statement to statement. *)
Progress == [acc : Values, bad : BOOLEAN, end : {"none", "value"} \cup Divergences]
Start == [acc |-> 0, bad |-> FALSE, end |-> "none"]

Knows(O, s) ==
    /\ s.op = "call" => s.key \in DOMAIN O.calls
    /\ s.op = "const" => s.id \in DOMAIN O.consts
Given(O, s) ==
    IF s.op = "call" THEN O.calls[s.key] ELSE IF s.op = "const" THEN O.consts[s.id] ELSE Gives("poison")

Receives(st, r) ==
    [acc |-> (st.acc + r.val) % ValueMod, bad |-> st.bad \/ r.how = "poison",
     end |-> IF r.how \in Divergences THEN r.how ELSE "none"]
Returns(st, s) ==
    IF s.dep /\ st.bad THEN [st EXCEPT !.end = "poisoned"]
    ELSE [st EXCEPT !.acc = IF s.dep THEN (@ + s.val) % ValueMod ELSE s.val, !.end = "value"]
After(O, s, st) ==
    IF s.op \in {"call", "const", "oops"} THEN Receives(st, Given(O, s))
    ELSE IF s.op \in {"branch", "raise"} THEN st
    ELSE IF s.op = "ret" THEN Returns(st, s) ELSE [st EXCEPT !.end = "poisoned"]

(* The first n statements of the code lead to st. *)
IsTrace(O, code, n, tr) ==
    /\ tr[0] = Start
    /\ \A i \in 1 .. n : /\ tr[i - 1].end = "none" /\ Knows(O, code[i])
                         /\ tr[i] = After(O, code[i], tr[i - 1])
Runs(O, code, n, st) ==
    \E tr \in [0 .. n -> Progress] : IsTrace(O, code, n, tr) /\ tr[n] = st
Complete(code, n, st) == st.end # "none" \/ n = Len(code)

(* P knows what O knows. *)
Grows(O, P) ==
    /\ \A k \in DOMAIN O.calls : k \in DOMAIN P.calls /\ P.calls[k] = O.calls[k]
    /\ \A c \in DOMAIN O.consts : c \in DOMAIN P.consts /\ P.consts[c] = O.consts[c]

LEMMA StartIsProgress == Start \in Progress
  BY ZeroIsValue DEF Start, Progress

LEMMA AfterGrown ==
    ASSUME NEW O, NEW P, Grows(O, P), NEW s, Knows(O, s)
    PROVE  Knows(P, s) /\ \A st : After(P, s, st) = After(O, s, st)
  BY DEF Grows, Knows, After, Given

LEMMA RunsNothing ==
    ASSUME NEW O, NEW code
    PROVE  Runs(O, code, 0, Start)
  <1>1. PICK tr : tr = [i \in 0 .. 0 |-> Start]
    OBVIOUS
  <1>2. tr \in [0 .. 0 -> Progress] /\ tr[0] = Start
    BY <1>1, StartIsProgress
  <1>3. IsTrace(O, code, 0, tr)
    BY <1>2 DEF IsTrace
  <1> QED
    BY <1>2, <1>3 DEF Runs

LEMMA RunsOn ==
    ASSUME NEW O, NEW code, NEW n \in Nat, NEW st, Runs(O, code, n, st), st.end = "none",
           Knows(O, code[n + 1]), NEW next \in Progress, next = After(O, code[n + 1], st)
    PROVE  Runs(O, code, n + 1, next)
  <1>1. PICK tr \in [0 .. n -> Progress] : IsTrace(O, code, n, tr) /\ tr[n] = st
    BY DEF Runs
  <1>2. PICK m : m = n + 1
    OBVIOUS
  <1>3. m \in Nat \ {0} /\ m - 1 = n /\ \A i \in 1 .. m : i \in 1 .. n \/ i = m
    BY <1>2
  <1>4. PICK long : long = [i \in 0 .. m |-> IF i = m THEN next ELSE tr[i]]
    OBVIOUS
  <1>5. long \in [0 .. m -> Progress] /\ long[m] = next /\ \A i \in 0 .. n : long[i] = tr[i]
    BY <1>2, <1>3, <1>4
  <1>6. IsTrace(O, code, m, long)
    <2>1. long[0] = Start
      BY <1>1, <1>5 DEF IsTrace
    <2>2. ASSUME NEW i \in 1 .. n
          PROVE  /\ long[i - 1].end = "none" /\ Knows(O, code[i])
                 /\ long[i] = After(O, code[i], long[i - 1])
      <3>1. i - 1 \in 0 .. n /\ i \in 0 .. n
        OBVIOUS
      <3>2. long[i - 1] = tr[i - 1] /\ long[i] = tr[i]
        BY <1>5, <3>1
      <3> QED
        BY <1>1, <3>2 DEF IsTrace
    <2>3. long[m - 1] = st
      BY <1>1, <1>3, <1>5
    <2>4. long[m - 1].end = "none" /\ Knows(O, code[m]) /\ long[m] = After(O, code[m], long[m - 1])
      BY <1>2, <1>5, <2>3
    <2> QED
      BY <1>3, <2>1, <2>2, <2>4 DEF IsTrace
  <1> QED
    BY <1>2, <1>5, <1>6 DEF Runs

LEMMA RunsGrown ==
    ASSUME NEW O, NEW P, Grows(O, P), NEW code, NEW n, NEW st, Runs(O, code, n, st)
    PROVE  Runs(P, code, n, st)
  <1>1. PICK tr \in [0 .. n -> Progress] : IsTrace(O, code, n, tr) /\ tr[n] = st
    BY DEF Runs
  <1>2. ASSUME NEW i \in 1 .. n
        PROVE  /\ tr[i - 1].end = "none" /\ Knows(P, code[i])
               /\ tr[i] = After(P, code[i], tr[i - 1])
    <2>1. /\ tr[i - 1].end = "none" /\ Knows(O, code[i])
          /\ tr[i] = After(O, code[i], tr[i - 1])
      BY <1>1 DEF IsTrace
    <2>2. PICK s : s = code[i]
      OBVIOUS
    <2>3. Knows(P, s) /\ \A x : After(P, s, x) = After(O, s, x)
      BY <2>1, <2>2, AfterGrown
    <2> QED
      BY <2>1, <2>2, <2>3
  <1>3. IsTrace(P, code, n, tr)
    BY <1>1, <1>2 DEF IsTrace
  <1> QED
    BY <1>1, <1>3 DEF Runs

(* Code runs in one way only. *)
LEMMA RunsOnce ==
    ASSUME NEW O, NEW code, NEW n \in Nat, NEW m \in Nat, n <= m, m <= Len(code), Len(code) \in Nat,
           NEW a, Runs(O, code, n, a), Complete(code, n, a), NEW b, Runs(O, code, m, b)
    PROVE  n = m /\ a = b
  <1>1. PICK ta \in [0 .. n -> Progress] : IsTrace(O, code, n, ta) /\ ta[n] = a
    BY DEF Runs
  <1>2. PICK tb \in [0 .. m -> Progress] : IsTrace(O, code, m, tb) /\ tb[m] = b
    BY DEF Runs
  <1> DEFINE T == {i \in 0 .. n : ta[i] = tb[i]}
  <1>3. 0 \in T
    BY <1>1, <1>2 DEF IsTrace
  <1>4. ASSUME NEW i \in 1 .. n, i - 1 \in T PROVE i \in T
    <2>1. ta[i] = After(O, code[i], ta[i - 1])
      BY <1>1 DEF IsTrace
    <2>2. tb[i] = After(O, code[i], tb[i - 1])
      BY <1>2 DEF IsTrace
    <2> QED
      BY <1>4, <2>1, <2>2
  <1> HIDE DEF T
  <1>5. 0 .. n \subseteq T
    BY <1>3, <1>4, InductionUpTo
  <1>6. tb[n] = a
    BY <1>1, <1>5 DEF T
  <1>7. CASE n = m
    BY <1>2, <1>6, <1>7
  <1>8. CASE n < m
    <2>1. n + 1 \in 1 .. m /\ (n + 1) - 1 = n
      BY <1>8
    <2>2. tb[n].end = "none"
      BY <1>2, <2>1 DEF IsTrace
    <2> QED
      BY <1>6, <1>8, <2>2 DEF Complete
  <1> QED
    BY <1>7, <1>8

LEMMA CompleteOnce ==
    ASSUME NEW O, NEW code, Len(code) \in Nat, NEW n \in 0 .. Len(code), NEW m \in 0 .. Len(code),
           NEW a, Runs(O, code, n, a), Complete(code, n, a),
           NEW b, Runs(O, code, m, b), Complete(code, m, b)
    PROVE  n = m /\ a = b
  <1>1. n \in Nat /\ m \in Nat /\ n <= Len(code) /\ m <= Len(code)
    OBVIOUS
  <1>2. CASE n <= m
    BY <1>1, <1>2, RunsOnce
  <1>3. CASE m <= n
    <2>1. m = n /\ b = a
      BY <1>1, <1>3, RunsOnce
    <2> QED
      BY <2>1
  <1> QED
    BY <1>1, <1>2, <1>3

(* What a call gives: the preamble, and unless it fails, the body. *)
BodyGives(never, b) ==
    IF b.end = "poisoned" /\ ~never THEN Gives("poison")
    ELSE IF b.end = "value" THEN Yields(b.acc) ELSE Gives("end")
Failed(p) == p.end # "none" \/ p.bad
EndsIn(O, code, st) == \E n \in 0 .. Len(code) : Runs(O, code, n, st) /\ Complete(code, n, st)
CallGives(O, pre, body, never, r) ==
    \E p \in Progress :
       /\ EndsIn(O, pre, p)
       /\ IF Failed(p) THEN r = Gives("poison")
          ELSE \E b \in Progress : EndsIn(O, body, b) /\ b.end # "none" /\ r = BodyGives(never, b)

LEMMA EndsInOnce ==
    ASSUME NEW O, NEW code, Len(code) \in Nat, NEW a, EndsIn(O, code, a), NEW b, EndsIn(O, code, b)
    PROVE  a = b
  BY CompleteOnce DEF EndsIn

LEMMA EndsInGrown ==
    ASSUME NEW O, NEW P, Grows(O, P), NEW code, NEW st, EndsIn(O, code, st)
    PROVE  EndsIn(P, code, st)
  BY RunsGrown DEF EndsIn

LEMMA CallGivesGrown ==
    ASSUME NEW O, NEW P, Grows(O, P), NEW pre, NEW body, NEW never, NEW r,
           CallGives(O, pre, body, never, r)
    PROVE  CallGives(P, pre, body, never, r)
  BY EndsInGrown DEF CallGives

(* A call gives one thing only. *)
LEMMA CallGivesOnce ==
    ASSUME NEW O, NEW pre, NEW body, Len(pre) \in Nat, Len(body) \in Nat, NEW never,
           NEW r, CallGives(O, pre, body, never, r), NEW q, CallGives(O, pre, body, never, q)
    PROVE  r = q
  <1>1. PICK p \in Progress :
          /\ EndsIn(O, pre, p)
          /\ IF Failed(p) THEN r = Gives("poison")
             ELSE \E b \in Progress : EndsIn(O, body, b) /\ b.end # "none" /\ r = BodyGives(never, b)
    BY DEF CallGives
  <1>2. PICK u \in Progress :
          /\ EndsIn(O, pre, u)
          /\ IF Failed(u) THEN q = Gives("poison")
             ELSE \E b \in Progress : EndsIn(O, body, b) /\ b.end # "none" /\ q = BodyGives(never, b)
    BY DEF CallGives
  <1>3. p = u
    BY <1>1, <1>2, EndsInOnce
  <1>4. CASE Failed(p)
    BY <1>1, <1>2, <1>3, <1>4
  <1>5. CASE ~Failed(p)
    <2>1. PICK a \in Progress : EndsIn(O, body, a) /\ r = BodyGives(never, a)
      BY <1>1, <1>5
    <2>2. PICK b \in Progress : EndsIn(O, body, b) /\ q = BodyGives(never, b)
      BY <1>2, <1>3, <1>5
    <2>3. a = b
      BY <2>1, <2>2, EndsInOnce
    <2> QED
      BY <2>1, <2>2, <2>3
  <1> QED
    BY <1>4, <1>5

-----------------------------------------------------------------------------
(* How a step moves the stack, up to what the frames have spent. *)

Alike(f, g) ==
    /\ f.role = g.role /\ f.id = g.id /\ f.folding = g.folding /\ f.code = g.code /\ f.arms = g.arms
    /\ f.acc = g.acc /\ f.bad = g.bad /\ f.badType = g.badType /\ f.existing = g.existing

Depth_ == Len(frames)
Suspended(n) == \A i \in 1 .. n : Alike(frames'[i], frames[i])

Replaces(f) ==
    /\ Depth_ \in Nat \ {0} /\ Depth_' = Depth_
    /\ Suspended(Depth_ - 1) /\ Alike(frames'[Depth_], f)
Stacks(f, g) ==
    /\ Depth_ \in Nat \ {0} /\ Depth_' = Depth_ + 1
    /\ Suspended(Depth_ - 1) /\ Alike(frames'[Depth_], f) /\ frames'[Depth_ + 1] = g
Pops(r) ==
    /\ Depth_ \in Nat \ {0} /\ Depth_' = Depth_ - 1
    /\ Suspended(Depth_ - 2)
    /\ IF Depth_ = 1 THEN ending' = "none"
       ELSE /\ frames'[Depth_ - 1] = Receive(frames[Depth_ - 1], r)
            /\ ending' = IF r.how \in Divergences THEN r.how ELSE "none"

LEMMA WithTopReplaces ==
    ASSUME TypeInv, frames # <<>>, NEW f, frames' = WithTop(f)
    PROVE  Replaces(f)
  <1>1. Depth_ \in Nat \ {0} /\ DOMAIN frames = 1 .. Depth_
    BY StackShape, StackTop DEF TypeInv, Depth_
  <1>2. Depth_' = Depth_
    BY <1>1 DEF WithTop, Depth_
  <1>3. frames' = [i \in 1 .. Depth_ |-> IF i = Depth_ THEN f ELSE frames[i]]
    BY <1>1 DEF WithTop, Depth_
  <1>4. \A i \in 1 .. Depth_ - 1 : frames'[i] = frames[i]
    BY <1>1, <1>3
  <1>5. frames'[Depth_] = f
    BY <1>1, <1>3
  <1> QED
    BY <1>1, <1>2, <1>4, <1>5 DEF Replaces, Suspended, Alike

LEMMA SameReplaces ==
    ASSUME TypeInv, frames # <<>>, frames' = frames
    PROVE  Replaces(Top)
  <1>1. Depth_ \in Nat \ {0}
    BY StackTop DEF TypeInv, Depth_
  <1> QED
    BY <1>1 DEF Replaces, Suspended, Alike, Depth_, Top

LEMMA ReturnPops ==
    ASSUME TypeInv, frames # <<>>, NEW r, Return(r)
    PROVE  Pops(r)
  <1>1. /\ Below \in Seq(GoodFrames) /\ Len(Below) = Depth_ - 1 /\ Depth_ \in Nat \ {0}
        /\ \A i \in 1 .. Depth_ - 1 : Below[i] = frames[i]
    BY StackBelow, StackTop, EmptySeq DEF TypeInv, Below, Depth_
  <1>2. CASE Below = <<>>
    <2>1. Depth_ = 1 /\ frames' = <<>> /\ ending' = "none"
      BY <1>1, <1>2, EmptySeq DEF Return
    <2> QED
      BY <2>1 DEF Pops, Suspended, Depth_
  <1>3. CASE Below # <<>>
    <2>1. PICK f : f = Receive(Below[Depth_ - 1], r)
      OBVIOUS
    <2>2. Depth_ - 1 \in 1 .. Depth_ - 1 /\ Depth_ # 1
      BY <1>1, <1>3, EmptySeq
    <2>3. frames' = [Below EXCEPT ![Depth_ - 1] = f] /\ DOMAIN Below = 1 .. Depth_ - 1
      BY <1>1, <1>3, <2>1, LenProperties DEF Return, Depth_
    <2>4. frames' = [i \in 1 .. Depth_ - 1 |-> IF i = Depth_ - 1 THEN f ELSE frames[i]]
      BY <1>1, <2>3
    <2>5. Depth_' = Depth_ - 1
      <3>1. Len([Below EXCEPT ![Depth_ - 1] = f]) = Len(Below)
        OBVIOUS
      <3> QED
        BY <1>1, <2>3, <3>1 DEF Depth_
    <2>6. \A i \in 1 .. Depth_ - 2 : frames'[i] = frames[i]
      BY <1>1, <2>4
    <2>7. frames'[Depth_ - 1] = Receive(frames[Depth_ - 1], r)
      BY <1>1, <2>1, <2>2, <2>4
    <2>8. ending' = IF r.how \in Divergences THEN r.how ELSE "none"
      BY <1>3 DEF Return
    <2> QED
      BY <1>1, <2>2, <2>5, <2>6, <2>7, <2>8 DEF Pops, Suspended, Alike
  <1> QED
    BY <1>2, <1>3

LEMMA AppendStacks ==
    ASSUME TypeInv, frames # <<>>, NEW f, NEW g, NEW s, s \in Seq(GoodFrames), Len(s) = Depth_,
           \A i \in 1 .. Depth_ - 1 : Alike(s[i], frames[i]), Alike(s[Depth_], f),
           g \in GoodFrames, frames' = Append(s, g)
    PROVE  Stacks(f, g)
  <1>1. Depth_ \in Nat \ {0}
    BY StackTop DEF TypeInv, Depth_
  <1>2. /\ Len(Append(s, g)) = Depth_ + 1
        /\ \A i \in 1 .. Depth_ : Append(s, g)[i] = s[i]
        /\ Append(s, g)[Depth_ + 1] = g
    BY AppendProperties
  <1>3. \A i \in 1 .. Depth_ - 1 : i \in 1 .. Depth_
    BY <1>1
  <1>4. Depth_ \in 1 .. Depth_
    BY <1>1
  <1>5. Depth_' = Depth_ + 1
    BY <1>2 DEF Depth_
  <1>6. \A i \in 1 .. Depth_ - 1 : frames'[i] = s[i]
    BY <1>2, <1>3
  <1> QED
    BY <1>1, <1>2, <1>4, <1>5, <1>6 DEF Stacks, Suspended

(* What a step may assume of the running frame and of what it moves. *)
LEMMA AlikeParts ==
    ASSUME NEW f \in GoodFrames
    PROVE  /\ Advance(f) = [f EXCEPT !.code = Tail(f.code)]
           /\ Advance(f).role = f.role /\ Advance(f).id = f.id /\ Advance(f).folding = f.folding
           /\ Advance(f).code = Tail(f.code) /\ Advance(f).arms = f.arms /\ Advance(f).acc = f.acc
           /\ Advance(f).bad = f.bad /\ Advance(f).badType = f.badType
           /\ Advance(f).existing = f.existing
           /\ \A r : /\ Receive(f, r).role = f.role /\ Receive(f, r).id = f.id
                     /\ Receive(f, r).folding = f.folding /\ Receive(f, r).code = f.code
                     /\ Receive(f, r).arms = f.arms /\ Receive(f, r).badType = f.badType
                     /\ Receive(f, r).acc = (f.acc + r.val) % ValueMod
                     /\ Receive(f, r).bad = (f.bad \/ r.how = "poison")
                     /\ Receive(f, r).existing = f.existing
           /\ \A n : Alike(SetMaxQuota(f, n), f)
           /\ \A n : Alike([f EXCEPT !.spent = n], f)
  BY DEF Advance, Receive, SetMaxQuota, Alike, GoodFrames, Frames

LEMMA ReceiveParts ==
    ASSUME NEW f \in GoodFrames, NEW r, NEW g, g = Receive(f, r)
    PROVE  /\ g.role = f.role /\ g.id = f.id /\ g.folding = f.folding /\ g.code = f.code /\ g.arms = f.arms
           /\ g.badType = f.badType /\ g.existing = f.existing
           /\ g.acc = (f.acc + r.val) % ValueMod /\ g.bad = (f.bad \/ r.how = "poison")
  BY AlikeParts

(* The frame a call pushes. *)
CalleeFrame(s) ==
    NewFrame("preamble", s.key, DefOf[s.key], Comptime(Top) \/ s.ct \/ prog.folds[s.key], Top.limit,
             prog.block[prog.preamble[s.key]])

Rejects(s) == (Comptime(Top) \/ s.ct) /\ prog.rtArg[s.key]

LEMMA CallMovesStack ==
    ASSUME TypeInv, Call, NEW s, s = Head(Top.code)
    PROVE  \/ /\ Rejects(s) /\ Replaces(Receive(Advance(Top), Gives("poison")))
              /\ Emit("comptimeParamGotRuntime") /\ ending' = ending
           \/ ~Rejects(s) /\ Replaces(Top) /\ ending' = "quota" /\ Emit("callQuota")
           \/ ~Rejects(s) /\ Stacks(Advance(Top), CalleeFrame(s)) /\ ending' = ending /\ errors' = errors
  <1>1. PICK f : f = DefOf[s.key]
    OBVIOUS
  <1> DEFINE stack == [Charged(f) EXCEPT ![Len(frames)] = Advance(@)]
  <1>2. /\ frames # <<>> /\ Top.code # <<>> /\ Top \in GoodFrames /\ Advance(Top) \in GoodFrames
        /\ s.key \in Keys /\ f \in FnDefs /\ s.ct \in BOOLEAN
    BY <1>1, TopIsGood, AdvanceIsGood, StatementAtTop, Program DEF Call, At, Ready
  <1>3. CASE Rejects(s)
    <2>1. /\ frames' = WithTop(Receive(Advance(Top), Gives("poison")))
          /\ Emit("comptimeParamGotRuntime") /\ ending' = ending
      BY <1>3 DEF Rejects, Call
    <2> QED
      BY <1>2, <1>3, <2>1, WithTopReplaces
  <1>4. CASE ~Rejects(s) /\ \E i \in FramesOf(f) : ~CanSpend(frames[i], 1)
    <2>1. ending' = "quota" /\ Emit("callQuota") /\ frames' = frames
      BY <1>1, <1>4 DEF Rejects, Call
    <2> QED
      BY <1>2, <1>4, <2>1, SameReplaces
  <1>5. CASE ~Rejects(s) /\ \A i \in FramesOf(f) : CanSpend(frames[i], 1)
    <2>1. PICK g : g = CalleeFrame(s)
      OBVIOUS
    <2>2. frames' = Append(stack, g) /\ ending' = ending /\ errors' = errors
      BY <1>1, <1>5, <2>1 DEF Rejects, Call, CalleeFrame
    <2>3. g \in GoodFrames
      BY <1>1, <1>2, <2>1, NewFrameIsGood, Running, Program DEF Roles, CalleeFrame
    <2>4. /\ Charged(f) \in Seq(GoodFrames) /\ Len(Charged(f)) = Len(frames)
          /\ Charged(f) # <<>> /\ Charged(f)[Len(frames)].code = Top.code
      BY <1>1, <1>2, <1>5, ChargedIsGood
    <2>5. ASSUME NEW i \in DOMAIN frames PROVE Alike(Charged(f)[i], frames[i])
      BY StackShape DEF Charged, GoodFrames, Frames, Alike
    <2>6. /\ Charged(f)[Len(frames)] \in GoodFrames
          /\ Advance(Charged(f)[Len(frames)]) \in GoodFrames
      BY <1>2, <2>4, StackTop, AdvanceIsGood
    <2>7. stack \in Seq(GoodFrames) /\ Len(stack) = Len(frames)
      BY <2>4, <2>6, StackTop
    <2>8. DOMAIN stack = 1 .. Len(frames) /\ DOMAIN frames = 1 .. Len(frames) /\ Len(frames) \in Nat \ {0}
      BY <2>7, LenProperties, StackShape, <1>2
    <2>9. \A i \in DOMAIN frames :
             stack[i] = IF i = Len(frames) THEN Advance(Charged(f)[i]) ELSE Charged(f)[i]
      BY <2>8
    <2> HIDE DEF stack
    <2>10. \A i \in 1 .. Depth_ - 1 : Alike(stack[i], frames[i])
      BY <2>5, <2>8, <2>9 DEF Depth_
    <2>11. Alike(stack[Depth_], Advance(Top))
      <3>1. PICK c : c = Charged(f)[Len(frames)]
        OBVIOUS
      <3>2. Alike(c, Top) /\ c \in GoodFrames
        BY <2>5, <2>6, <2>8, <3>1 DEF Top
      <3>3. stack[Depth_] = Advance(c)
        BY <2>8, <2>9, <3>1 DEF Depth_
      <3>4. PICK t : t = Top
        OBVIOUS
      <3>5. Advance(c) = [c EXCEPT !.code = Tail(c.code)] /\ Advance(t) = [t EXCEPT !.code = Tail(t.code)]
        BY <1>2, <3>2, <3>4 DEF Advance
      <3>6. Alike(Advance(c), Advance(t))
        BY <1>2, <3>2, <3>4, <3>5 DEF Alike, GoodFrames, Frames
      <3> QED
        BY <3>3, <3>4, <3>6
    <2>12. Stacks(Advance(Top), g)
      BY <1>2, <2>2, <2>3, <2>7, <2>10, <2>11, AppendStacks DEF Depth_
    <2> QED
      BY <1>5, <2>1, <2>2, <2>12
  <1> QED
    BY <1>3, <1>4, <1>5

LEMMA ReadConstMovesStack ==
    ASSUME TypeInv, ReadConst, NEW c, c = Head(Top.code).id
    PROVE  /\ \/ /\ consts[c] = "vacant" /\ Stacks(Advance(Top), ConstFrame(c)) /\ errors' = errors
                 /\ consts' = [consts EXCEPT ![c] = "inProgress"]
              \/ /\ consts[c] = "inProgress" /\ Replaces(Receive(Advance(Top), Gives("poison")))
                 /\ consts' = [consts EXCEPT ![c] = "poison"] /\ Emit("constCycle")
              \/ /\ consts[c] \notin {"vacant", "inProgress"} /\ errors' = errors /\ consts' = consts
                 /\ Replaces(Receive(Advance(Top), IF consts[c] = "value" THEN Yields(0) ELSE Gives("poison")))
           /\ ending' = ending
  <1>1. frames # <<>> /\ Top.code # <<>> /\ c \in Consts
    BY StatementAtTop DEF ReadConst, At, Ready
  <1>2. ASSUME NEW r, frames' = WithTop(Receive(Advance(Top), r))
        PROVE  Replaces(Receive(Advance(Top), r))
    BY <1>1, <1>2, WithTopReplaces
  <1>3. ASSUME frames' = Append(WithTop(Advance(Top)), ConstFrame(c))
        PROVE  Stacks(Advance(Top), ConstFrame(c))
    <2>1. PICK stack : stack = WithTop(Advance(Top))
      OBVIOUS
    <2>2. Advance(Top) \in GoodFrames /\ ConstFrame(c) \in GoodFrames
      BY <1>1, TopIsGood, AdvanceIsGood, ConstFrameIsGood
    <2>3. /\ stack \in Seq(GoodFrames) /\ Len(stack) = Len(frames)
          /\ \A i \in DOMAIN frames : stack[i] = IF i = Len(frames) THEN Advance(Top) ELSE frames[i]
      BY <1>1, <2>1, <2>2, StackTop, StackShape DEF WithTop, TypeInv
    <2>4. DOMAIN frames = 1 .. Depth_ /\ Depth_ \in Nat \ {0}
      BY <1>1, StackShape DEF Depth_
    <2>5. \A i \in 1 .. Depth_ - 1 : Alike(stack[i], frames[i])
      BY <2>3, <2>4 DEF Depth_, Alike
    <2>6. Alike(stack[Depth_], Advance(Top))
      BY <2>3, <2>4 DEF Depth_, Alike
    <2> QED
      BY <1>1, <1>3, <2>1, <2>2, <2>3, <2>5, <2>6, AppendStacks DEF Depth_
  <1> QED
    BY <1>2, <1>3 DEF ReadConst

(* Diagnostics are never taken back. *)
LEMMA ErrorsGrow ==
    ASSUME [Next]_vars
    PROVE  errors \subseteq errors'
  BY DEF Next, vars, Emit, EnterArms,
     StartEntry, StartConst, ReadConst, FinishConst, FinishConstDiverged, FinishEntry,
     ChargeBranch, RaiseQuota, BindPoison, CompileError, Stop, ReturnStmt, Match, RuntimeWhile, NextArm,
     Call, PreambleFails, FoldWithoutBody, FoldRejected, FoldBegin, FoldExhausted, FoldPoisons, FoldDone,
     FoldPanics, LowerWithoutBody, LowerBegin, LowerExhausted, LowerDone, LowerPanics, caches, queues

-----------------------------------------------------------------------------
(* Poison and exhaustion have a cause that was diagnosed.                  *)

Tainted ==
    \/ \E e \in errors : e.kind \notin {"loopQuota", "callQuota"}
    \/ \E c \in Consts : consts[c] = "quotaExhausted"

(* What may be found at all: poison, exhaustion. *)
Excuses == {x \in {"poison", "quota"} : IF x = "poison" THEN Tainted ELSE errors # {}}

Callees == {"preamble", "fold", "lower"}

ArmClean(a, C) == (a.joined = "poisoned" => "poison" \in C) /\ (a.joined = "quota" => "quota" \in C)

Clean(f, C) ==
    /\ f.bad \/ f.badType => "poison" \in C
    /\ \A i \in 1 .. Len(f.arms) : ArmClean(f.arms[i], C)
    /\ f.existing.st = "done" /\ f.existing.outcome.end => "poison" \in C
    /\ f.role \in {"const", "preamble"} => Returnless(f.code)
    /\ Comptime(f) => f.arms = <<>>
    /\ f.role = "fold" => f.folding
    /\ f.role = "lower" => ~f.folding

(* A frame and the one above it: what a comptime frame calls is folded. *)
Links(f, g) == g.role # "entry" /\ (Comptime(f) /\ g.role \in Callees => g.folding)

EndClean(e, f, C) ==
    /\ e = "poisoned" => "poison" \in C
    /\ e = "quota" => "quota" \in C
    /\ e = "value" => f.role = "fold"
    /\ e = "end" /\ Comptime(f) => "poison" \in C

ConstClean(v, C) == (v = "poison" => "poison" \in C) /\ (v = "quotaExhausted" => C = {"poison", "quota"})
FoldClean(e, C) == (e = Poison => "poison" \in C) /\ (e.st = "done" /\ e.outcome.end => "poison" \in C)
LowerClean(l, C) == l = "poison" => "poison" \in C

StackClean ==
    /\ \A i \in 1 .. Depth_ : Clean(frames[i], Excuses)
    /\ \A i \in 2 .. Depth_ : Links(frames[i - 1], frames[i])
EndingClean == IF Depth_ = 0 THEN ending = "none" ELSE EndClean(ending, frames[Depth_], Excuses)
CachesClean ==
    /\ \A c \in Consts : ConstClean(consts[c], Excuses)
    /\ \A k \in Keys : FoldClean(evaluated[k], Excuses) /\ LowerClean(lowered[k], Excuses)
TaintInv == StackClean /\ EndingClean /\ CachesClean

LEMMA ExcusesGrow ==
    ASSUME StackInv, [Next]_vars
    PROVE  Excuses \subseteq Excuses'
  <1>1. errors \subseteq errors'
    BY ErrorsGrow
  <1>2. ASSUME NEW c \in Consts, consts[c] = "quotaExhausted" PROVE consts'[c] = "quotaExhausted"
    <2>1. ~OnStack(c)
      BY <1>2 DEF StackInv, InProgressMatchesStack, OnStack, Works, Entries, EntryState
    <2>2. CASE Next
      BY <1>2, <2>1, <2>2, VerdictsStand DEF DecidedIsFinal
    <2>3. CASE UNCHANGED vars
      BY <1>2, <2>3 DEF vars, caches
    <2> QED
      BY <2>2, <2>3
  <1>3. Tainted => Tainted'
    BY <1>1, <1>2 DEF Tainted
  <1> QED
    BY <1>1, <1>3 DEF Excuses

LEMMA CleanGrows ==
    ASSUME NEW C, NEW D, C \subseteq D, D \subseteq {"poison", "quota"}
    PROVE  /\ \A f : Clean(f, C) => Clean(f, D)
           /\ \A e, f : EndClean(e, f, C) => EndClean(e, f, D)
           /\ \A v : ConstClean(v, C) => ConstClean(v, D)
           /\ \A e : FoldClean(e, C) => FoldClean(e, D)
           /\ \A l : LowerClean(l, C) => LowerClean(l, D)
  BY DEF Clean, ArmClean, EndClean, ConstClean, FoldClean, LowerClean

LEMMA CleanAlike ==
    ASSUME NEW f, NEW g, Alike(g, f), NEW C
    PROVE  /\ Clean(f, C) => Clean(g, C)
           /\ \A e : EndClean(e, f, C) => EndClean(e, g, C)
           /\ \A x : Links(x, f) => Links(x, g)
           /\ \A x : Links(f, x) => Links(g, x)
           /\ Comptime(f) = Comptime(g)
  BY DEF Clean, EndClean, Alike, Links, Comptime

(* The moves of the stack keep it clean. *)
LEMMA SuspendedClean ==
    ASSUME TaintInv, Excuses \subseteq Excuses', NEW n \in Nat, n <= Depth_, Depth_ \in Nat, Suspended(n)
    PROVE  /\ \A i \in 1 .. n : Clean(frames'[i], Excuses')
           /\ \A i \in 2 .. n : Links(frames'[i - 1], frames'[i])
           /\ \A f : n > 0 /\ Links(frames[n], f) => Links(frames'[n], f)
  <1>1. Excuses' \subseteq {"poison", "quota"}
    BY DEF Excuses
  <1>2. ASSUME NEW i \in 1 .. n PROVE Clean(frames'[i], Excuses')
    <2>1. Clean(frames[i], Excuses)
      BY DEF TaintInv, StackClean
    <2>2. Clean(frames[i], Excuses')
      BY <1>1, <2>1, CleanGrows
    <2> QED
      BY <2>2, CleanAlike DEF Suspended
  <1>3. ASSUME NEW i \in 2 .. n PROVE Links(frames'[i - 1], frames'[i])
    <2>1. i \in 2 .. Depth_ /\ i - 1 \in 1 .. n /\ i \in 1 .. n
      OBVIOUS
    <2>2. Links(frames[i - 1], frames[i])
      BY <2>1 DEF TaintInv, StackClean
    <2>3. Alike(frames'[i - 1], frames[i - 1]) /\ Alike(frames'[i], frames[i])
      BY <2>1 DEF Suspended
    <2> QED
      BY <2>2, <2>3, CleanAlike
  <1>4. ASSUME NEW f, n > 0, Links(frames[n], f) PROVE Links(frames'[n], f)
    <2>1. Alike(frames'[n], frames[n])
      BY <1>4 DEF Suspended
    <2> QED
      BY <1>4, <2>1, CleanAlike
  <1> QED
    BY <1>2, <1>3, <1>4

LEMMA ReplaceIsClean ==
    ASSUME TaintInv, Excuses \subseteq Excuses', NEW f, Replaces(f), Clean(f, Excuses'),
           \A x : Links(x, Top) => Links(x, f), EndClean(ending', f, Excuses'), CachesClean'
    PROVE  TaintInv'
  <1>1. /\ Depth_ \in Nat \ {0} /\ Depth_' = Depth_ /\ Depth_ - 1 \in Nat /\ Depth_ - 1 <= Depth_
        /\ Suspended(Depth_ - 1) /\ Alike(frames'[Depth_], f)
    BY DEF Replaces
  <1>2. /\ \A i \in 1 .. Depth_ - 1 : Clean(frames'[i], Excuses')
        /\ \A i \in 2 .. Depth_ - 1 : Links(frames'[i - 1], frames'[i])
        /\ \A g : Depth_ - 1 > 0 /\ Links(frames[Depth_ - 1], g) => Links(frames'[Depth_ - 1], g)
    BY <1>1, SuspendedClean
  <1>3. Clean(frames'[Depth_], Excuses') /\ EndClean(ending', frames'[Depth_], Excuses')
    BY <1>1, CleanAlike
  <1>4. ASSUME Depth_ > 1 PROVE Links(frames'[Depth_ - 1], frames'[Depth_])
    <2>1. Links(frames[Depth_ - 1], Top)
      BY <1>1, <1>4 DEF TaintInv, StackClean, Top, Depth_
    <2>2. Links(frames'[Depth_ - 1], f)
      BY <1>1, <1>2, <1>4, <2>1
    <2> QED
      BY <1>1, <2>2, CleanAlike
  <1>5. \A i \in 1 .. Depth_ : i \in 1 .. Depth_ - 1 \/ i = Depth_
    BY <1>1
  <1>6. \A i \in 2 .. Depth_ : i \in 2 .. Depth_ - 1 \/ (i = Depth_ /\ Depth_ > 1)
    BY <1>1
  <1>7. StackClean'
    BY <1>1, <1>2, <1>3, <1>4, <1>5, <1>6 DEF StackClean
  <1>8. EndingClean'
    BY <1>1, <1>3 DEF EndingClean
  <1> QED
    BY <1>7, <1>8 DEF TaintInv

LEMMA StackIsClean ==
    ASSUME TaintInv, Excuses \subseteq Excuses', NEW f, NEW g, Stacks(f, g),
           Clean(f, Excuses'), Clean(g, Excuses'), Links(f, g),
           \A x : Links(x, Top) => Links(x, f), ending' = "none", CachesClean'
    PROVE  TaintInv'
  <1>1. /\ Depth_ \in Nat \ {0} /\ Depth_' = Depth_ + 1 /\ Depth_ - 1 \in Nat /\ Depth_ - 1 <= Depth_
        /\ Suspended(Depth_ - 1) /\ Alike(frames'[Depth_], f) /\ frames'[Depth_ + 1] = g
    BY DEF Stacks
  <1>2. /\ \A i \in 1 .. Depth_ - 1 : Clean(frames'[i], Excuses')
        /\ \A i \in 2 .. Depth_ - 1 : Links(frames'[i - 1], frames'[i])
        /\ \A x : Depth_ - 1 > 0 /\ Links(frames[Depth_ - 1], x) => Links(frames'[Depth_ - 1], x)
    BY <1>1, SuspendedClean
  <1>3. Clean(frames'[Depth_], Excuses') /\ Links(frames'[Depth_], g)
    BY <1>1, CleanAlike
  <1>4. ASSUME Depth_ > 1 PROVE Links(frames'[Depth_ - 1], frames'[Depth_])
    <2>1. Links(frames[Depth_ - 1], Top)
      BY <1>1, <1>4 DEF TaintInv, StackClean, Top, Depth_
    <2>2. Links(frames'[Depth_ - 1], f)
      BY <1>1, <1>2, <1>4, <2>1
    <2> QED
      BY <1>1, <2>2, CleanAlike
  <1>5. \A i \in 1 .. Depth_ + 1 : i \in 1 .. Depth_ - 1 \/ i = Depth_ \/ i = Depth_ + 1
    BY <1>1
  <1>6. \A i \in 2 .. Depth_ + 1 : i \in 2 .. Depth_ - 1 \/ (i = Depth_ /\ Depth_ > 1) \/ i = Depth_ + 1
    BY <1>1
  <1>7. (Depth_ + 1) - 1 = Depth_ /\ Depth_ + 1 # 0
    BY <1>1
  <1>8. StackClean'
    <2>1. \A i \in 1 .. Depth_ + 1 : Clean(frames'[i], Excuses')
      BY <1>1, <1>2, <1>3, <1>5
    <2>2. \A i \in 2 .. Depth_ + 1 : Links(frames'[i - 1], frames'[i])
      BY <1>1, <1>2, <1>3, <1>4, <1>6, <1>7
    <2> QED
      BY <1>1, <2>1, <2>2 DEF StackClean
  <1>9. EndingClean'
    BY <1>1, <1>7 DEF EndingClean, EndClean
  <1> QED
    BY <1>8, <1>9 DEF TaintInv

LEMMA FirstIsClean ==
    ASSUME NEW g, frames' = <<g>>,
           Clean(g, Excuses'), ending' = "none", CachesClean'
    PROVE  TaintInv'
  <1>1. Depth_' = 1 /\ frames'[1] = g
    BY DEF Depth_
  <1> QED
    BY <1>1 DEF TaintInv, StackClean, EndingClean, EndClean

(* What a callee may hand back to the frame f. *)
Excused(r, f, C) ==
    /\ r.how \in {"poison", "poisoned"} => "poison" \in C
    /\ r.how = "quota" => "quota" \in C
    /\ r.how = "end" /\ Comptime(f) => "poison" \in C

LEMMA ReceiveClean ==
    ASSUME NEW f \in GoodFrames, NEW C, Clean(f, C), NEW r, r.how = "poison" => "poison" \in C
    PROVE  Clean(Receive(f, r), C)
  <1>1. PICK g : g = Receive(f, r)
    OBVIOUS
  <1>2. /\ g.role = f.role /\ g.folding = f.folding /\ g.code = f.code /\ g.arms = f.arms
        /\ g.badType = f.badType /\ g.existing = f.existing /\ g.bad = (f.bad \/ r.how = "poison")
    BY <1>1, ReceiveParts
  <1>3. g.bad => "poison" \in C
    <2>1. f.bad => "poison" \in C
      BY DEF Clean
    <2> QED
      BY <1>2, <2>1
  <1>4. Clean(g, C)
    BY <1>2, <1>3 DEF Clean, Comptime
  <1> QED
    BY <1>1, <1>4

LEMMA AdvanceClean ==
    ASSUME NEW f \in GoodFrames, NEW C, Clean(f, C), f.code # <<>>
    PROVE  Clean(Advance(f), C)
  <1>1. PICK g : g = Advance(f)
    OBVIOUS
  <1>2. /\ g.role = f.role /\ g.folding = f.folding /\ g.code = Tail(f.code) /\ g.arms = f.arms
        /\ g.badType = f.badType /\ g.existing = f.existing /\ g.bad = f.bad
    BY <1>1, AlikeParts
  <1>3. Returnless(f.code) => Returnless(g.code)
    <2>1. f.code \in Seq(Statements)
      BY DEF GoodFrames, Frames, Code
    <2>2. /\ Len(f.code) \in Nat \ {0} /\ Len(g.code) = Len(f.code) - 1
          /\ \A i \in 1 .. Len(f.code) - 1 : g.code[i] = f.code[i + 1]
      BY <1>2, <2>1, HeadTailProperties, EmptySeq
    <2>3. \A i \in 1 .. Len(g.code) : i + 1 \in 1 .. Len(f.code)
      BY <2>2
    <2> QED
      BY <2>2, <2>3 DEF Returnless
  <1>4. Clean(g, C)
    BY <1>2, <1>3 DEF Clean, Comptime
  <1> QED
    BY <1>1, <1>4

LEMMA PopIsClean ==
    ASSUME TypeInv, TaintInv, Excuses \subseteq Excuses', NEW r, Pops(r),
           \A x : Links(x, Top) => Excused(r, x, Excuses'), CachesClean'
    PROVE  TaintInv'
  <1>1. Depth_ \in Nat \ {0} /\ Depth_' = Depth_ - 1 /\ Suspended(Depth_ - 2)
    BY DEF Pops
  <1>2. CASE Depth_ = 1
    <2>1. Depth_' = 0 /\ ending' = "none"
      BY <1>1, <1>2 DEF Pops
    <2> QED
      BY <2>1 DEF TaintInv, StackClean, EndingClean
  <1>3. CASE Depth_ # 1
    <2>1. PICK f : f = frames[Depth_ - 1]
      OBVIOUS
    <2>2. PICK n \in Nat \ {0} : n = Depth_ - 1
      BY <1>1, <1>3
    <2>3. /\ frames'[n] = Receive(f, r) /\ n - 1 = Depth_ - 2 /\ n \in 1 .. Depth_ /\ Depth_ \in 2 .. Depth_
          /\ ending' = IF r.how \in Divergences THEN r.how ELSE "none"
      BY <1>1, <1>3, <2>1, <2>2 DEF Pops
    <2>4. f \in GoodFrames
      BY <2>1, <2>2, <2>3, StackShape DEF Depth_
    <2>5. Clean(f, Excuses) /\ Links(f, Top)
      BY <2>1, <2>2, <2>3 DEF TaintInv, StackClean, Top, Depth_
    <2>6. Clean(f, Excuses') /\ Excused(r, f, Excuses')
      <3>1. Excuses' \subseteq {"poison", "quota"}
        BY DEF Excuses
      <3> QED
        BY <2>5, <3>1, CleanGrows
    <2>7. Clean(Receive(f, r), Excuses')
      BY <2>4, <2>6, ReceiveClean DEF Excused
    <2>8. EndClean(ending', Receive(f, r), Excuses')
      BY <2>3, <2>4, <2>6, AlikeParts DEF EndClean, Excused, Comptime, Divergences
    <2>9. \A x : Links(x, f) => Links(x, Receive(f, r))
      BY <2>4, AlikeParts DEF Links
    <2>10. /\ \A i \in 1 .. n - 1 : Clean(frames'[i], Excuses')
           /\ \A i \in 2 .. n - 1 : Links(frames'[i - 1], frames'[i])
           /\ \A x : n - 1 > 0 /\ Links(frames[n - 1], x) => Links(frames'[n - 1], x)
      <3>1. n - 1 \in Nat /\ n - 1 <= Depth_ /\ Suspended(n - 1)
        BY <1>1, <2>2, <2>3
      <3> QED
        BY <1>1, <3>1, SuspendedClean
    <2>11. ASSUME n > 1 PROVE Links(frames'[n - 1], frames'[n])
      <3>1. n \in 2 .. Depth_
        BY <2>3, <2>11
      <3>2. Links(frames[n - 1], f)
        BY <2>1, <2>2, <3>1 DEF TaintInv, StackClean
      <3> QED
        BY <2>3, <2>9, <2>10, <2>11, <3>2
    <2>12. \A i \in 1 .. n : i \in 1 .. n - 1 \/ i = n
      BY <2>2
    <2>13. \A i \in 2 .. n : i \in 2 .. n - 1 \/ (i = n /\ n > 1)
      BY <2>2
    <2>14. StackClean'
      <3>1. \A i \in 1 .. n : Clean(frames'[i], Excuses')
        BY <2>3, <2>7, <2>10, <2>12
      <3>2. \A i \in 2 .. n : Links(frames'[i - 1], frames'[i])
        BY <2>10, <2>11, <2>13
      <3> QED
        BY <1>1, <2>2, <3>1, <3>2 DEF StackClean
    <2>15. EndingClean'
      BY <1>1, <2>2, <2>3, <2>8 DEF EndingClean
    <2> QED
      BY <2>14, <2>15 DEF TaintInv
  <1> QED
    BY <1>2, <1>3

(* What a step may assume of the running frame, and what a diagnostic excuses. *)
LEMMA TopClean ==
    ASSUME TypeInv, TaintInv, Excuses \subseteq Excuses', frames # <<>>
    PROVE  /\ Clean(Top, Excuses') /\ EndClean(ending, Top, Excuses') /\ Top \in GoodFrames
  <1>1. Depth_ \in Nat \ {0} /\ Top = frames[Depth_] /\ Top \in GoodFrames
    BY StackShape, TopIsGood DEF Depth_
  <1>2. Clean(Top, Excuses) /\ EndClean(ending, Top, Excuses)
    BY <1>1 DEF TaintInv, StackClean, EndingClean
  <1>3. Excuses' \subseteq {"poison", "quota"}
    BY DEF Excuses
  <1>4. Clean(Top, Excuses') /\ EndClean(ending, Top, Excuses')
    BY <1>2, <1>3, CleanGrows
  <1> QED
    BY <1>1, <1>4

LEMMA EmitExcuses ==
    ASSUME NEW kind, Emit(kind)
    PROVE  "quota" \in Excuses' /\ (kind \notin {"loopQuota", "callQuota"} => Excuses' = {"poison", "quota"})
  <1>1. [kind |-> kind, id |-> Top.id] \in errors'
    BY DEF Emit
  <1> QED
    BY <1>1 DEF Excuses, Tainted

LEMMA CachesStayClean ==
    ASSUME TypeInv, TaintInv, Excuses \subseteq Excuses'
    PROVE  /\ UNCHANGED caches => CachesClean'
           /\ \A c \in Consts : \A v : consts' = [consts EXCEPT ![c] = v] /\ UNCHANGED <<evaluated, lowered>>
                                   /\ ConstClean(v, Excuses') => CachesClean'
           /\ \A k \in Keys : \A e : evaluated' = [evaluated EXCEPT ![k] = e] /\ UNCHANGED <<consts, lowered>>
                                 /\ FoldClean(e, Excuses') => CachesClean'
           /\ \A k \in Keys : \A l : lowered' = [lowered EXCEPT ![k] = l] /\ UNCHANGED <<consts, evaluated>>
                                 /\ LowerClean(l, Excuses') => CachesClean'
  <1>1. Excuses' \subseteq {"poison", "quota"}
    BY DEF Excuses
  <1>2. /\ \A c \in Consts : ConstClean(consts[c], Excuses')
        /\ \A k \in Keys : FoldClean(evaluated[k], Excuses') /\ LowerClean(lowered[k], Excuses')
    BY <1>1, CleanGrows DEF TaintInv, CachesClean
  <1>3. /\ evaluated \in [Keys -> EvaluatedStates] /\ lowered \in [Keys -> LoweredStates]
        /\ consts \in [Consts -> ConstStates]
    BY DEF TypeInv, TypeOK
  <1>4. UNCHANGED caches => CachesClean'
    BY <1>2 DEF CachesClean, caches
  <1>5. ASSUME NEW c \in Consts, NEW v, consts' = [consts EXCEPT ![c] = v], UNCHANGED <<evaluated, lowered>>,
               ConstClean(v, Excuses')
        PROVE  CachesClean'
    <2>1. \A d \in Consts : consts'[d] = IF d = c THEN v ELSE consts[d]
      BY <1>3, <1>5
    <2> QED
      BY <1>2, <1>5, <2>1 DEF CachesClean
  <1>6. ASSUME NEW k \in Keys, NEW e, evaluated' = [evaluated EXCEPT ![k] = e], UNCHANGED <<consts, lowered>>,
               FoldClean(e, Excuses')
        PROVE  CachesClean'
    <2>1. \A d \in Keys : evaluated'[d] = IF d = k THEN e ELSE evaluated[d]
      BY <1>3, <1>6
    <2> QED
      BY <1>2, <1>6, <2>1 DEF CachesClean
  <1>7. ASSUME NEW k \in Keys, NEW l, lowered' = [lowered EXCEPT ![k] = l], UNCHANGED <<consts, evaluated>>,
               LowerClean(l, Excuses')
        PROVE  CachesClean'
    <2>1. \A d \in Keys : lowered'[d] = IF d = k THEN l ELSE lowered[d]
      BY <1>3, <1>7
    <2> QED
      BY <1>2, <1>7, <2>1 DEF CachesClean
  <1> QED
    BY <1>4, <1>5, <1>6, <1>7

LEMMA NewFrameClean ==
    ASSUME NEW f, f.arms = <<>>, f.bad = FALSE, f.badType = FALSE, f.existing = Empty,
           f.role \in {"const", "preamble"} => Returnless(f.code), f.role \notin {"fold", "lower"}, NEW C
    PROVE  Clean(f, C)
  <1>1. Len(f.arms) = 0 /\ f.existing.st # "done"
    BY DEF Empty
  <1>2. 1 .. Len(f.arms) = {}
    BY <1>1
  <1> QED
    BY <1>1, <1>2 DEF Clean, Comptime

(* The parts of a program whose blocks hold no return. *)
LEMMA ProgramReturns ==
    ASSUME TypeInv
    PROVE  /\ \A k \in Keys : Returnless(prog.block[prog.preamble[k]])
           /\ \A c \in Consts : Returnless(prog.block[prog.const[c]])
  BY DEF TypeInv, TypeOK, WellFormed

LEMMA EvaluateTaints ==
    ASSUME TypeInv, TaintInv, Excuses \subseteq Excuses',
           StartEntry \/ StartConst \/ ReadConst \/ FinishConst \/ FinishConstDiverged \/ FinishEntry
    PROVE  TaintInv'
  <1>1. CASE StartEntry
    <2>1. PICK f : frames' = <<f>> /\ f = NewFrame("entry", Head(entriesLeft), NoFn, FALSE, DefaultQuota,
                                                   prog.block[Head(entriesLeft)])
      BY <1>1 DEF StartEntry
    <2>2. Clean(f, Excuses')
      BY <2>1, NewFrameClean DEF NewFrame
    <2>3. ending' = "none" /\ CachesClean'
      <3>1. frames = <<>> /\ ending' = ending /\ UNCHANGED caches
        BY <1>1 DEF StartEntry
      <3>2. Depth_ = 0
        BY <3>1 DEF Depth_
      <3> QED
        BY <3>1, <3>2, CachesStayClean DEF TaintInv, EndingClean
    <2> QED
      BY <2>1, <2>2, <2>3, FirstIsClean
  <1>2. CASE StartConst
    <2>1. PICK c : c = Head(constsLeft)
      OBVIOUS
    <2>2. frames = <<>> /\ c \in Consts /\ ending' = "none"
      <3>1. frames = <<>> /\ ending' = ending /\ constsLeft # <<>>
        BY <1>2 DEF StartConst
      <3>2. Depth_ = 0
        BY <3>1 DEF Depth_
      <3>3. c \in Consts
        BY <2>1, <3>1, HeadTailProperties DEF TypeInv, TypeOK
      <3> QED
        BY <3>1, <3>2, <3>3 DEF TaintInv, EndingClean
    <2>3. CASE consts[c] = "vacant"
      <3>1. PICK f : frames' = <<f>> /\ f = ConstFrame(c)
        BY <1>2, <2>1, <2>3 DEF StartConst
      <3>2. Clean(f, Excuses')
        BY <2>2, <3>1, NewFrameClean, ProgramReturns DEF ConstFrame, NewFrame
      <3>3. CachesClean'
        <4>1. consts' = [consts EXCEPT ![c] = "inProgress"] /\ UNCHANGED <<evaluated, lowered>>
          BY <1>2, <2>1, <2>3 DEF StartConst
        <4>2. ConstClean("inProgress", Excuses')
          BY DEF ConstClean
        <4> QED
          BY <2>2, <4>1, <4>2, CachesStayClean
      <3> QED
        BY <2>2, <3>1, <3>2, <3>3, FirstIsClean
    <2>4. CASE consts[c] # "vacant"
      <3>1. frames' = <<>> /\ UNCHANGED caches
        BY <1>2, <2>1, <2>2, <2>4 DEF StartConst, caches
      <3>2. Depth_' = 0 /\ CachesClean'
        BY <3>1, CachesStayClean DEF Depth_
      <3> QED
        BY <2>2, <3>2 DEF TaintInv, StackClean, EndingClean
    <2> QED
      BY <2>3, <2>4
  <1>3. CASE ReadConst
    <2>1. PICK c : c = Head(Top.code).id
      OBVIOUS
    <2>2. /\ frames # <<>> /\ Top.code # <<>> /\ c \in Consts /\ Top \in GoodFrames
          /\ ending' = "none" /\ UNCHANGED <<evaluated, lowered>>
      BY <1>3, <2>1, StatementAtTop, TopIsGood DEF ReadConst, At, Ready
    <2>3. Clean(Advance(Top), Excuses') /\ Advance(Top) \in GoodFrames
      BY <2>2, TopClean, AdvanceClean, AdvanceIsGood
    <2>4. ASSUME NEW r, Replaces(Receive(Advance(Top), r)), r.how = "poison" => "poison" \in Excuses', CachesClean'
          PROVE  TaintInv'
      <3>1. Clean(Receive(Advance(Top), r), Excuses')
        BY <2>3, <2>4, ReceiveClean
      <3>2. \A x : Links(x, Top) => Links(x, Receive(Advance(Top), r))
        <4>1. PICK g \in GoodFrames : g = Advance(Top)
          BY <2>3
        <4>2. PICK f : f = Receive(g, r)
          OBVIOUS
        <4>3. g.role = Top.role /\ g.folding = Top.folding
          BY <2>2, <4>1, AlikeParts
        <4>4. f.role = g.role /\ f.folding = g.folding
          BY <4>2, ReceiveParts
        <4>5. \A x : Links(x, Top) => Links(x, f)
          BY <4>3, <4>4 DEF Links
        <4> QED
          BY <4>1, <4>2, <4>5
      <3>3. EndClean(ending', Receive(Advance(Top), r), Excuses')
        BY <2>2 DEF EndClean
      <3> QED
        BY <2>4, <3>1, <3>2, <3>3, ReplaceIsClean
    <2>5. CASE /\ consts[c] = "vacant" /\ Stacks(Advance(Top), ConstFrame(c))
               /\ consts' = [consts EXCEPT ![c] = "inProgress"]
      <3>1. CachesClean'
        <4>1. ConstClean("inProgress", Excuses')
          BY DEF ConstClean
        <4> QED
          BY <2>2, <2>5, <4>1, CachesStayClean
      <3>2. Clean(ConstFrame(c), Excuses')
        BY <2>2, NewFrameClean, ProgramReturns DEF ConstFrame, NewFrame
      <3>3. \A x : Links(x, Top) => Links(x, Advance(Top))
        BY <2>2, AlikeParts DEF Links
      <3>4. Links(Advance(Top), ConstFrame(c))
        BY DEF Links, ConstFrame, NewFrame, Callees
      <3> QED
        BY <2>2, <2>3, <2>5, <3>1, <3>2, <3>3, <3>4, StackIsClean
    <2>6. CASE /\ Replaces(Receive(Advance(Top), Gives("poison")))
               /\ consts' = [consts EXCEPT ![c] = "poison"] /\ Emit("constCycle")
      <3>1. "poison" \in Excuses'
        BY <2>6, EmitExcuses
      <3>2. CachesClean'
        <4>1. ConstClean("poison", Excuses')
          BY <3>1 DEF ConstClean
        <4> QED
          BY <2>2, <2>6, <4>1, CachesStayClean
      <3> QED
        BY <2>4, <2>6, <3>1, <3>2
    <2>7. CASE /\ consts[c] \notin {"vacant", "inProgress"} /\ consts' = consts
               /\ Replaces(Receive(Advance(Top), IF consts[c] = "value" THEN Yields(0) ELSE Gives("poison")))
      <3>1. CachesClean'
        BY <2>2, <2>7, CachesStayClean DEF caches
      <3>2. consts[c] # "value" => "poison" \in Excuses'
        <4>1. consts[c] \in ConstStates /\ ConstClean(consts[c], Excuses)
          BY <2>2 DEF TypeInv, TypeOK, TaintInv, CachesClean
        <4> QED
          BY <2>7, <4>1 DEF ConstStates, ConstClean
      <3> QED
        BY <2>4, <2>7, <3>1, <3>2 DEF Yields, Gives
    <2> QED
      BY <1>3, <2>1, <2>5, <2>6, <2>7, ReadConstMovesStack
  <1>4. CASE FinishConst \/ FinishConstDiverged
    <2>1. /\ frames # <<>> /\ Top.role = "const" /\ Top.id \in Consts /\ Comptime(Top)
          /\ UNCHANGED <<evaluated, lowered>>
      BY <1>4, Running DEF FinishConst, FinishConstDiverged, Ended, BlockOver, Ready, Comptime
    <2>2. Clean(Top, Excuses') /\ EndClean(ending, Top, Excuses') /\ ConstClean(consts[Top.id], Excuses')
      <3>1. ConstClean(consts[Top.id], Excuses) /\ Excuses' \subseteq {"poison", "quota"}
        BY <2>1 DEF TaintInv, CachesClean, Excuses
      <3> QED
        BY <2>1, <3>1, TopClean, CleanGrows
    <2>3. /\ consts \in [Consts -> ConstStates] /\ ending \in {"none", "value"} \cup Divergences
          /\ Excuses' \subseteq {"poison", "quota"}
      BY DEF TypeInv, TypeOK, Excuses
    <2>4. CASE FinishConst
      <3>1. PICK v : v = IF consts[Top.id] = "poison" \/ Top.bad THEN "poison" ELSE "value"
        OBVIOUS
      <3>2. consts' = [consts EXCEPT ![Top.id] = v]
        BY <2>1, <2>3, <2>4, <3>1 DEF FinishConst
      <3>3. ConstClean(v, Excuses')
        BY <2>2, <3>1 DEF ConstClean, Clean
      <3>4. CachesClean'
        BY <2>1, <3>2, <3>3, CachesStayClean
      <3>5. PICK r : r = IF Top.bad THEN Gives("poison") ELSE Yields(0)
        OBVIOUS
      <3>6. Pops(r)
        BY <2>1, <2>4, <3>5, ReturnPops DEF FinishConst
      <3>7. \A x : Excused(r, x, Excuses')
        BY <2>2, <3>5 DEF Excused, Clean, Gives, Yields
      <3> QED
        BY <3>4, <3>6, <3>7, PopIsClean
    <2>5. CASE FinishConstDiverged
      <3>1. ending # "none" /\ "poison" \in Excuses' /\ (ending = "quota" => Excuses' = {"poison", "quota"})
        <4>1. ending # "none" /\ ending # "value"
          BY <2>1, <2>2, <2>5 DEF FinishConstDiverged, EndClean
        <4>2. CASE ending = "quota"
          <5>1. consts'[Top.id] = "quotaExhausted"
            BY <2>1, <2>3, <2>5, <4>2 DEF FinishConstDiverged
          <5>2. Tainted'
            BY <2>1, <5>1 DEF Tainted
          <5> QED
            BY <2>2, <2>3, <4>2, <5>2 DEF Excuses, EndClean
        <4> QED
          BY <2>1, <2>2, <2>3, <4>1, <4>2 DEF EndClean, Divergences
      <3>2. PICK v : v = IF ending = "quota" THEN "quotaExhausted" ELSE "poison"
        OBVIOUS
      <3>3. consts' = [consts EXCEPT ![Top.id] = v] /\ ConstClean(v, Excuses')
        BY <2>5, <3>1, <3>2 DEF FinishConstDiverged, ConstClean
      <3>4. CachesClean'
        BY <2>1, <3>3, CachesStayClean
      <3>5. Pops(Gives("poison"))
        BY <2>1, <2>5, ReturnPops DEF FinishConstDiverged
      <3>6. \A x : Excused(Gives("poison"), x, Excuses')
        BY <3>1 DEF Excused, Gives
      <3> QED
        BY <3>4, <3>5, <3>6, PopIsClean
    <2> QED
      BY <1>4, <2>4, <2>5
  <1>5. CASE FinishEntry
    <2>1. frames # <<>> /\ Top.role = "entry" /\ UNCHANGED caches
      BY <1>5 DEF FinishEntry, Ended, BlockOver, Ready
    <2>2. Pops(Gives("poison"))
      BY <1>5, <2>1, ReturnPops DEF FinishEntry
    <2>3. \A x : ~Links(x, Top)
      BY <2>1 DEF Links
    <2> QED
      BY <2>1, <2>2, <2>3, CachesStayClean, PopIsClean
  <1> QED
    BY <1>1, <1>2, <1>3, <1>4, <1>5

LEMMA ArmsClean ==
    ASSUME NEW arms \in Seq(Arms), NEW C, \A i \in 1 .. Len(arms) : ArmClean(arms[i], C)
    PROVE  /\ \A a \in Arms : ArmClean(a, C)
                              => \A i \in 1 .. Len(<<a>> \o arms) : ArmClean((<<a>> \o arms)[i], C)
           /\ arms # <<>> => /\ ArmClean(Head(arms), C) /\ Tail(arms) \in Seq(Arms)
                             /\ \A i \in 1 .. Len(Tail(arms)) : ArmClean(Tail(arms)[i], C)
  <1>1. ASSUME NEW a \in Arms, ArmClean(a, C), NEW i \in 1 .. Len(<<a>> \o arms)
        PROVE  ArmClean((<<a>> \o arms)[i], C)
    <2>1. Len(<<a>> \o arms) = Len(arms) + 1 /\ Len(arms) \in Nat
      OBVIOUS
    <2>2. CASE i = 1
      <3>1. (<<a>> \o arms)[1] = a
        OBVIOUS
      <3> QED
        BY <1>1, <2>2, <3>1
    <2>3. CASE i # 1
      <3>1. i - 1 \in 1 .. Len(arms)
        BY <2>1, <2>3
      <3>2. (<<a>> \o arms)[i] = arms[i - 1]
        BY <2>1, <2>3
      <3> QED
        BY <3>1, <3>2
    <2> QED
      BY <2>2, <2>3
  <1>2. ASSUME arms # <<>>
        PROVE  /\ ArmClean(Head(arms), C) /\ Tail(arms) \in Seq(Arms)
               /\ \A i \in 1 .. Len(Tail(arms)) : ArmClean(Tail(arms)[i], C)
    <2>1. /\ Len(arms) \in Nat \ {0} /\ Len(Tail(arms)) = Len(arms) - 1 /\ Tail(arms) \in Seq(Arms)
          /\ Head(arms) = arms[1] /\ \A i \in 1 .. Len(arms) - 1 : Tail(arms)[i] = arms[i + 1]
      BY <1>2, HeadTailProperties, EmptySeq
    <2>2. 1 \in 1 .. Len(arms) /\ \A i \in 1 .. Len(arms) - 1 : i + 1 \in 1 .. Len(arms)
      BY <2>1
    <2> QED
      BY <2>1, <2>2
  <1> QED
    BY <1>1, <1>2

(* Comptime code without a return is not a body. *)
LEMMA ReturnsInBody ==
    ASSUME TypeInv, At("ret"), NEW C, Clean(Top, C)
    PROVE  Comptime(Top) => Top.role = "fold"
  <1>1. /\ Top.code # <<>> /\ Top.code \in Seq(Statements) /\ Head(Top.code).op = "ret"
    BY Running DEF At, Ready, Code
  <1>2. 1 \in 1 .. Len(Top.code) /\ Top.code[1].op = "ret"
    BY <1>1, HeadTailProperties, EmptySeq
  <1> QED
    BY <1>2 DEF Clean, Returnless, Comptime

LEMMA ArmsTaint ==
    ASSUME TypeInv, TaintInv, Excuses \subseteq Excuses', Match \/ RuntimeWhile \/ NextArm
    PROVE  TaintInv'
  <1>1. /\ frames # <<>> /\ Clean(Top, Excuses') /\ EndClean(ending, Top, Excuses') /\ Top \in GoodFrames
        /\ UNCHANGED caches
    BY TopClean DEF Match, RuntimeWhile, NextArm, At, BlockOver, Ready, caches
  <1>2. /\ Top.arms \in Seq(Arms) /\ Top.role \in Roles /\ Top.code \in Code
        /\ \A i \in 1 .. Len(Top.arms) : ArmClean(Top.arms[i], Excuses')
        /\ ending \in {"none", "value"} \cup Divergences
    BY <1>1, Running DEF Clean, TypeInv, TypeOK
  <1>3. CachesClean'
    BY <1>1, CachesStayClean
  <1>4. ASSUME NEW code, NEW arms, frames' = WithTop([Top EXCEPT !.code = code, !.arms = arms]), ~Comptime(Top),
               \A i \in 1 .. Len(arms) : ArmClean(arms[i], Excuses'), EndClean(ending', Top, Excuses')
        PROVE  TaintInv'
    <2>1. PICK f : f = [Top EXCEPT !.code = code, !.arms = arms]
      OBVIOUS
    <2>2. /\ f.role = Top.role /\ f.folding = Top.folding /\ f.arms = arms
          /\ f.bad = Top.bad /\ f.badType = Top.badType /\ f.existing = Top.existing
      BY <1>1, <2>1 DEF GoodFrames, Frames
    <2>3. Clean(f, Excuses') /\ EndClean(ending', f, Excuses') /\ \A x : Links(x, Top) => Links(x, f)
      BY <1>1, <1>4, <2>2 DEF Clean, EndClean, Links, Comptime
    <2>4. Replaces(f)
      BY <1>1, <1>4, <2>1, WithTopReplaces
    <2> QED
      BY <1>3, <2>3, <2>4, ReplaceIsClean
  <1>5. ASSUME NEW bs, NEW loop \in BOOLEAN, EnterArms(bs, loop), ending = "none", bs \in Seq(Blocks), bs # <<>>,
               Top.code # <<>>
        PROVE  TaintInv'
    <2>1. CASE Comptime(Top)
      <3>1. Replaces(Top) /\ ending' = "poisoned" /\ Excuses' = {"poison", "quota"}
        BY <1>1, <1>5, <2>1, SameReplaces, EmitExcuses DEF EnterArms
      <3> QED
        BY <1>1, <1>3, <3>1, ReplaceIsClean DEF EndClean
    <2>2. CASE ~Comptime(Top)
      <3>1. PICK a : a = [joined |-> "end", left |-> Tail(bs), rest |-> Tail(Top.code), loop |-> loop]
        OBVIOUS
      <3>2. a \in Arms
        <4>1. Tail(bs) \in Seq(Blocks) /\ Tail(Top.code) \in Code
          BY <1>2, <1>5, HeadTailProperties DEF Code
        <4> QED
          BY <3>1, <4>1 DEF Arms, Divergences
      <3>3. ArmClean(a, Excuses')
        BY <3>1 DEF ArmClean
      <3>4. PICK arms : arms = <<a>> \o Top.arms
        OBVIOUS
      <3>5. \A i \in 1 .. Len(arms) : ArmClean(arms[i], Excuses')
        BY <1>2, <3>2, <3>3, <3>4, ArmsClean
      <3>6. frames' = WithTop([Top EXCEPT !.code = prog.block[Head(bs)], !.arms = arms]) /\ ending' = "none"
        BY <1>5, <2>2, <3>1, <3>4 DEF EnterArms
      <3> QED
        BY <1>4, <2>2, <3>5, <3>6 DEF EndClean
    <2> QED
      BY <2>1, <2>2
  <1>6. CASE Match
    <2>1. PICK bs : bs = Head(Top.code).arms
      OBVIOUS
    <2>2. EnterArms(bs, FALSE) /\ ending = "none" /\ bs \in Seq(Blocks) /\ bs # <<>> /\ Top.code # <<>>
      BY <1>1, <1>6, <2>1, StatementAtTop DEF Match, At
    <2> QED
      BY <1>5, <2>2
  <1>7. CASE RuntimeWhile
    <2>1. PICK bs : bs = <<Head(Top.code).body>>
      OBVIOUS
    <2>2. EnterArms(bs, TRUE) /\ ending = "none" /\ Top.code # <<>> /\ Head(Top.code).op = "while"
      BY <1>7, <2>1 DEF RuntimeWhile, At
    <2>3. Head(Top.code).body \in Blocks
      BY <1>1, <2>2, StatementAtTop
    <2>4. bs \in Seq(Blocks) /\ bs # <<>>
      BY <2>1, <2>3
    <2> QED
      BY <1>5, <2>2, <2>4
  <1>8. CASE NextArm
    <2>1. PICK a : a = Head(Top.arms)
      OBVIOUS
    <2>2. PICK joined : joined = Join(a.joined, BlockResult)
      OBVIOUS
    <2>3. Top.arms # <<>> /\ ~Comptime(Top) /\ a \in Arms
      BY <1>1, <1>2, <1>8, <2>1, HeadTailProperties DEF NextArm, Clean
    <2>4. /\ ArmClean(a, Excuses') /\ Tail(Top.arms) \in Seq(Arms)
          /\ \A i \in 1 .. Len(Tail(Top.arms)) : ArmClean(Tail(Top.arms)[i], Excuses')
      BY <1>2, <2>1, <2>3, ArmsClean
    <2>5. /\ joined \in {"poisoned", "quota", "ok", "end"}
          /\ joined = "poisoned" => "poison" \in Excuses'
          /\ joined = "quota" => "quota" \in Excuses'
      BY <1>1, <2>2, <2>4 DEF Join, BlockResult, EndClean, ArmClean
    <2>6. CASE a.left # <<>>
      <3>1. PICK b : b = [a EXCEPT !.joined = joined, !.left = Remaining(@)]
        OBVIOUS
      <3>2. b.joined = joined /\ b \in Arms
        <4>1. Tail(a.left) \in Seq(Blocks)
          BY <2>3, <2>6, HeadTailProperties DEF Arms
        <4> QED
          BY <2>3, <2>5, <3>1, <4>1 DEF Arms, Remaining, Divergences
      <3>3. ArmClean(b, Excuses')
        BY <2>5, <3>2 DEF ArmClean
      <3>4. PICK arms : arms = <<b>> \o Tail(Top.arms)
        OBVIOUS
      <3>5. \A i \in 1 .. Len(arms) : ArmClean(arms[i], Excuses')
        BY <2>4, <3>2, <3>3, <3>4, ArmsClean
      <3>6. /\ frames' = WithTop([Top EXCEPT !.code = prog.block[Head(a.left)], !.arms = arms])
            /\ ending' = "none"
        BY <1>8, <2>1, <2>2, <2>6, <3>1, <3>4 DEF NextArm
      <3> QED
        BY <1>4, <2>3, <3>5, <3>6 DEF EndClean
    <2>7. CASE a.left = <<>>
      <3>1. PICK result : result = IF a.loop /\ joined = "end" THEN "ok" ELSE joined
        OBVIOUS
      <3>2. /\ frames' = WithTop([Top EXCEPT !.code = a.rest, !.arms = Tail(Top.arms)])
            /\ ending' = IF result = "ok" THEN "none" ELSE result
        BY <1>8, <2>1, <2>2, <2>7, <3>1 DEF NextArm
      <3>3. EndClean(ending', Top, Excuses')
        BY <2>3, <2>5, <3>1, <3>2 DEF EndClean
      <3> QED
        BY <1>4, <2>3, <2>4, <3>2, <3>3
    <2> QED
      BY <2>6, <2>7
  <1> QED
    BY <1>6, <1>7, <1>8

LEMMA StatementsTaint ==
    ASSUME TypeInv, TaintInv, Excuses \subseteq Excuses',
           ChargeBranch \/ RaiseQuota \/ BindPoison \/ CompileError \/ Stop \/ ReturnStmt
    PROVE  TaintInv'
  <1>1. /\ frames # <<>> /\ Clean(Top, Excuses') /\ Top \in GoodFrames /\ ending = "none"
        /\ Top.code # <<>> /\ UNCHANGED caches
    BY TopClean DEF ChargeBranch, RaiseQuota, BindPoison, CompileError, Stop, ReturnStmt, At, Ready, caches
  <1>2. CachesClean'
    BY <1>1, CachesStayClean
  <1>3. PICK g : g = Advance(Top)
    OBVIOUS
  <1>4. g \in GoodFrames /\ Clean(g, Excuses') /\ g.role = Top.role /\ g.folding = Top.folding
    BY <1>1, <1>3, AdvanceIsGood, AdvanceClean, AlikeParts
  <1>5. ASSUME NEW f, frames' = WithTop(f), Clean(f, Excuses'), f.role = Top.role, f.folding = Top.folding,
               EndClean(ending', Top, Excuses')
        PROVE  TaintInv'
    <2>1. EndClean(ending', f, Excuses') /\ \A x : Links(x, Top) => Links(x, f)
      BY <1>5 DEF EndClean, Links, Comptime
    <2> QED
      BY <1>1, <1>2, <1>5, <2>1, WithTopReplaces, ReplaceIsClean
  <1>6. ASSUME frames' = frames, EndClean(ending', Top, Excuses')
        PROVE  TaintInv'
    BY <1>1, <1>2, <1>6, SameReplaces, ReplaceIsClean
  <1>7. CASE ChargeBranch
    <2>1. CASE CanSpend(Top, 1)
      <3>1. PICK f : f = [g EXCEPT !.spent = g.spent + 1]
        OBVIOUS
      <3>2. frames' = WithTop(f) /\ ending' = "none"
        BY <1>1, <1>3, <1>7, <2>1, <3>1 DEF ChargeBranch
      <3>3. Alike(f, g)
        BY <1>4, <3>1, AlikeParts
      <3>4. Clean(f, Excuses') /\ f.role = Top.role /\ f.folding = Top.folding
        BY <1>4, <3>3, CleanAlike DEF Alike
      <3> QED
        BY <1>5, <3>2, <3>4 DEF EndClean
    <2>2. CASE ~CanSpend(Top, 1)
      <3>1. ending' = "quota" /\ Emit("loopQuota") /\ frames' = frames
        BY <1>7, <2>2 DEF ChargeBranch
      <3>2. "quota" \in Excuses'
        BY <3>1, EmitExcuses
      <3> QED
        BY <1>6, <3>1, <3>2 DEF EndClean
    <2> QED
      BY <2>1, <2>2
  <1>8. CASE RaiseQuota
    <2>1. PICK f : f = SetMaxQuota(g, Head(Top.code).limit)
      OBVIOUS
    <2>2. frames' = WithTop(f) /\ ending' = "none"
      BY <1>1, <1>3, <1>8, <2>1 DEF RaiseQuota
    <2>3. Alike(f, g)
      BY <1>4, <2>1, AlikeParts
    <2>4. Clean(f, Excuses') /\ f.role = Top.role /\ f.folding = Top.folding
      BY <1>4, <2>3, CleanAlike DEF Alike
    <2> QED
      BY <1>5, <2>2, <2>4 DEF EndClean
  <1>9. CASE BindPoison
    <2>1. PICK f : f = Receive(g, Gives("poison"))
      OBVIOUS
    <2>2. frames' = WithTop(f) /\ ending' = "none" /\ Emit("badExpression")
      BY <1>1, <1>3, <1>9, <2>1 DEF BindPoison
    <2>3. "poison" \in Excuses'
      BY <2>2, EmitExcuses
    <2>4. Clean(f, Excuses')
      BY <1>4, <2>1, <2>3, ReceiveClean
    <2>5. f.role = Top.role /\ f.folding = Top.folding
      BY <1>4, <2>1, AlikeParts
    <2> QED
      BY <1>5, <2>2, <2>4, <2>5 DEF EndClean
  <1>10. CASE CompileError
    <2>1. ending' = "poisoned" /\ frames' = frames /\ Emit("compileError")
      BY <1>10 DEF CompileError
    <2>2. "poison" \in Excuses'
      BY <2>1, EmitExcuses
    <2> QED
      BY <1>6, <2>1, <2>2 DEF EndClean
  <1>11. CASE Stop
    <2>1. frames' = frames
      BY <1>11 DEF Stop
    <2>2. CASE Comptime(Top)
      <3>1. ending' = "poisoned" /\ Emit("runtimeBuiltin")
        BY <1>11, <2>2 DEF Stop
      <3>2. "poison" \in Excuses'
        BY <3>1, EmitExcuses
      <3> QED
        BY <1>6, <2>1, <3>1, <3>2 DEF EndClean
    <2>3. CASE ~Comptime(Top)
      <3>1. ending' = "end"
        BY <1>11, <2>3 DEF Stop
      <3> QED
        BY <1>6, <2>1, <2>3, <3>1 DEF EndClean
    <2> QED
      BY <2>2, <2>3
  <1>12. CASE ReturnStmt
    <2>1. PICK s : s = Head(Top.code)
      OBVIOUS
    <2>2. CASE s.dep /\ Top.bad
      <3>1. ending' = "poisoned" /\ frames' = frames
        BY <1>12, <2>1, <2>2 DEF ReturnStmt
      <3>2. "poison" \in Excuses'
        BY <1>1, <2>2 DEF Clean
      <3> QED
        BY <1>6, <3>1, <3>2 DEF EndClean
    <2>3. CASE ~(s.dep /\ Top.bad)
      <3>1. PICK v : v = IF s.dep THEN (Top.acc + s.val) % ValueMod ELSE s.val
        OBVIOUS
      <3>2. PICK f : f = [Top EXCEPT !.acc = v]
        OBVIOUS
      <3>3. frames' = WithTop(f) /\ ending' = IF Comptime(Top) THEN "value" ELSE "end"
        BY <1>12, <2>1, <2>3, <3>1, <3>2 DEF ReturnStmt
      <3>4. /\ f.role = Top.role /\ f.folding = Top.folding /\ f.code = Top.code /\ f.arms = Top.arms
            /\ f.bad = Top.bad /\ f.badType = Top.badType /\ f.existing = Top.existing
        BY <1>1, <3>2 DEF GoodFrames, Frames
      <3>5. Clean(f, Excuses')
        BY <1>1, <3>4 DEF Clean, Comptime
      <3>6. Comptime(Top) => Top.role = "fold"
        BY <1>1, <1>12, ReturnsInBody DEF ReturnStmt
      <3> QED
        BY <1>5, <3>3, <3>4, <3>5, <3>6 DEF EndClean
    <2> QED
      BY <2>2, <2>3
  <1> QED
    BY <1>7, <1>8, <1>9, <1>10, <1>11, <1>12

LEMMA CallTaints ==
    ASSUME TypeInv, TaintInv, Excuses \subseteq Excuses', Call
    PROVE  TaintInv'
  <1>1. /\ frames # <<>> /\ Clean(Top, Excuses') /\ Top \in GoodFrames /\ ending = "none"
        /\ Top.code # <<>> /\ UNCHANGED caches /\ Head(Top.code).key \in Keys
    BY TopClean, StatementAtTop DEF Call, At, Ready
  <1>2. CachesClean'
    BY <1>1, CachesStayClean
  <1>3. PICK g : g = Advance(Top)
    OBVIOUS
  <1>4. /\ g \in GoodFrames /\ Clean(g, Excuses') /\ Comptime(g) = Comptime(Top)
        /\ \A x : Links(x, Top) => Links(x, g)
    BY <1>1, <1>3, AdvanceIsGood, AdvanceClean, AlikeParts DEF Links, Comptime
  <1>5. PICK s : s = Head(Top.code)
    OBVIOUS
  <1>6. CASE Replaces(Receive(g, Gives("poison"))) /\ Emit("comptimeParamGotRuntime") /\ ending' = ending
    <2>1. PICK f : f = Receive(g, Gives("poison"))
      OBVIOUS
    <2>2. "poison" \in Excuses'
      BY <1>6, EmitExcuses
    <2>3. Clean(f, Excuses')
      BY <1>4, <2>1, <2>2, ReceiveClean
    <2>4. \A x : Links(x, Top) => Links(x, f)
      <3>1. f.role = g.role /\ f.folding = g.folding
        BY <1>4, <2>1, ReceiveParts
      <3>2. \A x : Links(x, g) => Links(x, f)
        BY <3>1 DEF Links
      <3> QED
        BY <1>4, <3>2
    <2>5. Replaces(f) /\ EndClean(ending', f, Excuses')
      BY <1>1, <1>6, <2>1 DEF EndClean
    <2> QED
      BY <1>2, <2>3, <2>4, <2>5, ReplaceIsClean
  <1>7. CASE Replaces(Top) /\ ending' = "quota" /\ Emit("callQuota")
    <2>1. "quota" \in Excuses'
      BY <1>7, EmitExcuses
    <2> QED
      BY <1>1, <1>2, <1>7, <2>1, ReplaceIsClean DEF EndClean
  <1>8. CASE Stacks(g, CalleeFrame(s)) /\ ending' = ending
    <2>1. PICK f : f = CalleeFrame(s)
      OBVIOUS
    <2>2. /\ f.role = "preamble" /\ f.arms = <<>> /\ f.bad = FALSE /\ f.badType = FALSE /\ f.existing = Empty
          /\ f.code = prog.block[prog.preamble[s.key]] /\ (Comptime(Top) => f.folding)
      BY <2>1 DEF CalleeFrame, NewFrame
    <2>3. Clean(f, Excuses')
      BY <1>1, <1>5, <2>2, ProgramReturns, NewFrameClean
    <2>4. Links(g, f)
      BY <1>4, <2>2 DEF Links
    <2> QED
      BY <1>1, <1>2, <1>4, <1>8, <2>1, <2>3, <2>4, StackIsClean
  <1> QED
    BY <1>3, <1>5, <1>6, <1>7, <1>8, CallMovesStack

LEMMA FoldTaints ==
    ASSUME TypeInv, TaintInv, Excuses \subseteq Excuses',
           PreambleFails \/ FoldWithoutBody \/ FoldRejected \/ FoldBegin \/ FoldExhausted \/ FoldPoisons
           \/ FoldDone
    PROVE  TaintInv'
  <1>1. /\ frames # <<>> /\ Top.role \in {"preamble", "fold"} /\ UNCHANGED <<consts, lowered>>
    BY DEF PreambleFails, FoldWithoutBody, FoldRejected, FoldBegin, FoldExhausted, FoldPoisons, FoldDone,
           CalleeReady, Ended, BlockOver, Ready, caches
  <1>2. /\ Clean(Top, Excuses') /\ EndClean(ending, Top, Excuses') /\ Top \in GoodFrames /\ Comptime(Top)
        /\ Top.id \in Keys
    BY <1>1, TopClean, Running DEF Comptime
  <1>3. PICK k \in Keys : k = Top.id
    BY <1>2
  <1>4. /\ evaluated[k] \in EvaluatedStates /\ FoldClean(evaluated[k], Excuses')
        /\ evaluated \in [Keys -> EvaluatedStates] /\ ending \in {"none", "value"} \cup Divergences
    <2>1. Excuses' \subseteq {"poison", "quota"}
      BY DEF Excuses
    <2> QED
      BY <2>1, CleanGrows DEF TypeInv, TypeOK, TaintInv, CachesClean
  <1>5. ASSUME NEW r, Return(r), r.how \in {"poison", "end", "poisoned"} => "poison" \in Excuses',
               r.how = "quota" => "quota" \in Excuses',
               \/ evaluated' = evaluated
               \/ \E e : evaluated' = [evaluated EXCEPT ![k] = e] /\ FoldClean(e, Excuses')
        PROVE  TaintInv'
    <2>1. CachesClean'
      BY <1>1, <1>5, CachesStayClean DEF caches
    <2>2. \A x : Excused(r, x, Excuses')
      BY <1>5 DEF Excused
    <2> QED
      BY <1>1, <1>5, <2>1, <2>2, ReturnPops, PopIsClean
  <1>6. CASE PreambleFails
    <2>1. ending \in Divergences /\ evaluated' = evaluated
      BY <1>2, <1>4, <1>6 DEF PreambleFails, Ended, EndClean, caches
    <2>2. CASE ending = "quota"
      BY <1>2, <1>5, <1>6, <2>1, <2>2 DEF PreambleFails, EndClean, Gives
    <2>3. CASE ending # "quota"
      <3>1. "poison" \in Excuses'
        BY <1>2, <2>1, <2>3 DEF EndClean, Divergences
      <3>2. Return(Gives("poison"))
        BY <1>6, <2>3 DEF PreambleFails
      <3> QED
        BY <1>5, <2>1, <3>1, <3>2 DEF Gives
    <2> QED
      BY <2>2, <2>3
  <1>7. CASE FoldWithoutBody
    <2>1. CASE Top.bad /\ Return(Gives("poison")) /\ evaluated' = evaluated
      BY <1>2, <1>5, <2>1 DEF Clean, Gives
    <2>2. CASE /\ evaluated' = [evaluated EXCEPT ![k] = Poison] /\ Emit("comptimeRecursion")
               /\ Return(Gives("poison"))
      <3>1. "poison" \in Excuses'
        BY <2>2, EmitExcuses
      <3>2. FoldClean(Poison, Excuses')
        BY <3>1 DEF FoldClean, Poison
      <3> QED
        BY <1>5, <2>2, <3>1, <3>2 DEF Gives
    <2>3. CASE /\ evaluated[k].st = "done" /\ Return(OutcomeResult(evaluated[k].outcome))
               /\ evaluated' = evaluated
      <3>1. PICK r : r = OutcomeResult(evaluated[k].outcome)
        OBVIOUS
      <3>2. r.how = "value" \/ (r.how = "end" /\ "poison" \in Excuses')
        BY <1>4, <2>3, <3>1 DEF OutcomeResult, FoldClean, Gives, Yields
      <3> QED
        BY <1>5, <2>3, <3>1, <3>2
    <2>4. CASE evaluated[k].st = "poison" /\ Return(Suppressed(k, FALSE)) /\ evaluated' = evaluated
      <3>1. evaluated[k] = Poison
        BY <1>4, <2>4 DEF EvaluatedStates, Empty, InProgress, Poison, CallResults
      <3>2. "poison" \in Excuses'
        BY <1>4, <3>1 DEF FoldClean
      <3>3. PICK r : r = Suppressed(k, FALSE)
        OBVIOUS
      <3>4. r.how # "quota"
        BY <3>3 DEF Suppressed, Gives
      <3> QED
        BY <1>5, <2>4, <3>2, <3>3, <3>4
    <2> QED
      BY <1>3, <1>7, <2>1, <2>2, <2>3, <2>4 DEF FoldWithoutBody, Replayable
  <1>8. CASE FoldRejected
    <2>1. /\ evaluated' = [evaluated EXCEPT ![k] = Poison] /\ Emit("comptimeOnlyReturnWithRuntimeArg")
          /\ Return(Gives("poison"))
      BY <1>3, <1>8 DEF FoldRejected
    <2>2. "poison" \in Excuses'
      BY <2>1, EmitExcuses
    <2>3. FoldClean(Poison, Excuses')
      BY <2>2 DEF FoldClean, Poison
    <2> QED
      BY <1>5, <2>1, <2>2, <2>3 DEF Gives
  <1>9. CASE FoldBegin
    <2>1. PICK f : f = [Top EXCEPT !.role = "fold", !.existing = evaluated[k], !.before = Top.spent,
                                   !.acc = 0, !.code = prog.block[prog.body[k]]]
      OBVIOUS
    <2>2. /\ frames' = WithTop(f) /\ evaluated' = [evaluated EXCEPT ![k] = InProgress]
          /\ ending' = "none" /\ Top.folding = TRUE /\ evaluated[k].st \in {"empty", "done"}
          /\ Top.role = "preamble"
      BY <1>3, <1>9, <2>1 DEF FoldBegin, CalleeReady, Ended, MustEvaluate
    <2>3. /\ f.role = "fold" /\ f.existing = evaluated[k] /\ f.folding = Top.folding /\ f.arms = Top.arms
          /\ f.bad = Top.bad /\ f.badType = Top.badType
      BY <1>2, <2>1 DEF GoodFrames, Frames
    <2>4. Clean(f, Excuses')
      BY <1>2, <1>4, <2>2, <2>3 DEF Clean, FoldClean, Comptime
    <2>5. CachesClean'
      <3>1. FoldClean(InProgress, Excuses')
        BY DEF FoldClean, InProgress, Poison
      <3> QED
        BY <1>1, <2>2, <3>1, CachesStayClean
    <2>6. \A x : Links(x, Top) => Links(x, f)
      BY <2>2, <2>3 DEF Links
    <2>7. EndClean(ending', f, Excuses')
      BY <2>2 DEF EndClean
    <2> QED
      BY <1>1, <2>2, <2>4, <2>5, <2>6, <2>7, WithTopReplaces, ReplaceIsClean
  <1>10. CASE FoldExhausted
    <2>1. /\ evaluated' = [evaluated EXCEPT ![k] = Top.existing] /\ Return(Gives("quota")) /\ ending = "quota"
      BY <1>3, <1>10 DEF FoldExhausted, AfterExhaustion
    <2>2. FoldClean(Top.existing, Excuses')
      BY <1>2 DEF Clean, FoldClean, GoodFrames, Empty, Poison, CallResults
    <2> QED
      BY <1>2, <1>5, <2>1, <2>2 DEF Gives, EndClean
  <1>11. CASE FoldPoisons
    <2>1. evaluated' = [evaluated EXCEPT ![k] = Poison] /\ Return(Gives("poison")) /\ ending = "poisoned"
      BY <1>3, <1>11 DEF FoldPoisons, BodyPoisoned
    <2>2. "poison" \in Excuses'
      BY <1>2, <2>1 DEF EndClean
    <2>3. FoldClean(Poison, Excuses')
      BY <2>2 DEF FoldClean, Poison
    <2> QED
      BY <1>5, <2>1, <2>2, <2>3 DEF Gives
  <1>12. CASE FoldDone
    <2>1. PICK e : e = CallResult(FoldOutcome, BranchesConsumed, Top.seen)
      OBVIOUS
    <2>2. PICK r : r = OutcomeResult(FoldOutcome)
      OBVIOUS
    <2>3. /\ evaluated' = [evaluated EXCEPT ![k] = e] /\ Return(r) /\ ending \in {"value", "end", "poisoned"}
      BY <1>3, <1>12, <2>1, <2>2 DEF FoldDone
    <2>4. CASE ending = "value"
      <3>1. e.outcome.end = FALSE /\ e.st = "done" /\ r.how = "value"
        BY <2>1, <2>2, <2>4 DEF CallResult, FoldOutcome, OutcomeResult, Value, Yields
      <3>2. FoldClean(e, Excuses')
        BY <3>1 DEF FoldClean, Poison
      <3> QED
        BY <1>5, <2>3, <3>1, <3>2
    <2>5. CASE ending # "value"
      <3>1. "poison" \in Excuses'
        BY <1>2, <2>3, <2>5 DEF EndClean
      <3>2. r.how = "end"
        BY <2>2, <2>5 DEF FoldOutcome, OutcomeResult, DivergedEnd, Gives
      <3>3. FoldClean(e, Excuses')
        BY <3>1 DEF FoldClean
      <3> QED
        BY <1>5, <2>3, <3>1, <3>2, <3>3
    <2> QED
      BY <2>4, <2>5
  <1> QED
    BY <1>6, <1>7, <1>8, <1>9, <1>10, <1>11, <1>12

LEMMA LowerTaints ==
    ASSUME TypeInv, TaintInv, Excuses \subseteq Excuses',
           LowerWithoutBody \/ LowerBegin \/ LowerExhausted \/ LowerDone
    PROVE  TaintInv'
  <1>1. /\ frames # <<>> /\ UNCHANGED <<consts, evaluated>>
        /\ (Top.role = "preamble" /\ Top.folding = FALSE /\ ending = "none") \/ Top.role = "lower"
    BY DEF LowerWithoutBody, LowerBegin, LowerExhausted, LowerDone, CalleeReady, Ended, BlockOver, Ready
  <1>2. /\ Clean(Top, Excuses') /\ EndClean(ending, Top, Excuses') /\ Top \in GoodFrames
        /\ Top.id \in Keys /\ ~Top.folding
    BY <1>1, TopClean, Running DEF Clean
  <1>3. PICK k \in Keys : k = Top.id
    BY <1>2
  <1>4. /\ lowered[k] \in LoweredStates /\ LowerClean(lowered[k], Excuses')
        /\ lowered \in [Keys -> LoweredStates] /\ ending \in {"none", "value"} \cup Divergences
    <2>1. Excuses' \subseteq {"poison", "quota"}
      BY DEF Excuses
    <2> QED
      BY <2>1, CleanGrows DEF TypeInv, TypeOK, TaintInv, CachesClean
  <1>5. \A x : Links(x, Top) => ~Comptime(x)
    BY <1>1, <1>2 DEF Links, Callees
  <1>6. ASSUME NEW r, Return(r), r.how \in {"poison", "poisoned"} => "poison" \in Excuses',
               r.how = "quota" => "quota" \in Excuses',
               \/ lowered' = lowered
               \/ \E l : lowered' = [lowered EXCEPT ![k] = l] /\ LowerClean(l, Excuses')
        PROVE  TaintInv'
    <2>1. CachesClean'
      BY <1>1, <1>6, CachesStayClean DEF caches
    <2>2. \A x : Links(x, Top) => Excused(r, x, Excuses')
      BY <1>5, <1>6 DEF Excused
    <2> QED
      BY <1>1, <1>6, <2>1, <2>2, ReturnPops, PopIsClean
  <1>7. ASSUME NEW b, NEW l, l = "poison" => "poison" \in Excuses'
        PROVE  /\ CallSiteResult(k, b, l).how \in {"poison", "poisoned"} => "poison" \in Excuses'
               /\ CallSiteResult(k, b, l).how # "quota"
    BY <1>7 DEF CallSiteResult, Suppressed, Gives, Yields
  <1>8. CASE LowerWithoutBody
    <2>1. CASE /\ lowered' = [lowered EXCEPT ![k] = RecursionMark] /\ Emit("runtimeRecursion")
               /\ Return(Gives("poisoned"))
      <3>1. "poison" \in Excuses'
        BY <2>1, EmitExcuses
      <3>2. LowerClean(RecursionMark, Excuses')
        BY <3>1 DEF LowerClean
      <3> QED
        BY <1>6, <2>1, <3>1, <3>2 DEF Gives
    <2>2. CASE Return(CallSiteResult(k, Top.bad, lowered[k])) /\ lowered' = lowered
      <3>1. PICK r : r = CallSiteResult(k, Top.bad, lowered[k])
        OBVIOUS
      <3>2. (r.how \in {"poison", "poisoned"} => "poison" \in Excuses') /\ r.how # "quota"
        BY <1>4, <1>7, <3>1 DEF LowerClean
      <3> QED
        BY <1>6, <2>2, <3>1, <3>2
    <2> QED
      BY <1>3, <1>8, <2>1, <2>2 DEF LowerWithoutBody
  <1>9. CASE LowerBegin
    <2>1. PICK f : f = [Top EXCEPT !.role = "lower", !.code = prog.block[prog.body[k]], !.acc = 0,
                                   !.bad = FALSE, !.badType = Top.bad]
      OBVIOUS
    <2>2. /\ frames' = WithTop(f) /\ lowered' = [lowered EXCEPT ![k] = "inProgress"]
          /\ ending' = "none" /\ Top.role = "preamble"
      BY <1>3, <1>9, <2>1 DEF LowerBegin, CalleeReady, Ended
    <2>3. /\ f.role = "lower" /\ f.existing = Top.existing /\ f.folding = Top.folding /\ f.arms = Top.arms
          /\ f.bad = FALSE /\ f.badType = Top.bad
      BY <1>2, <2>1 DEF GoodFrames, Frames
    <2>4. Clean(f, Excuses')
      BY <1>2, <2>2, <2>3 DEF Clean, Comptime
    <2>5. CachesClean'
      <3>1. LowerClean("inProgress", Excuses')
        BY DEF LowerClean
      <3> QED
        BY <1>1, <2>2, <3>1, CachesStayClean
    <2>6. \A x : Links(x, Top) => Links(x, f)
      BY <2>2, <2>3 DEF Links, Callees
    <2>7. EndClean(ending', f, Excuses')
      BY <2>2 DEF EndClean
    <2> QED
      BY <1>1, <2>2, <2>4, <2>5, <2>6, <2>7, WithTopReplaces, ReplaceIsClean
  <1>10. CASE LowerExhausted
    <2>1. lowered' = [lowered EXCEPT ![k] = "empty"] /\ Return(Gives("quota")) /\ ending = "quota"
      BY <1>3, <1>10 DEF LowerExhausted
    <2>2. LowerClean("empty", Excuses')
      BY DEF LowerClean
    <2> QED
      BY <1>2, <1>6, <2>1, <2>2 DEF Gives, EndClean
  <1>11. CASE LowerDone
    <2>1. PICK l : l = LowerResult
      OBVIOUS
    <2>2. PICK r : r = CallSiteResult(k, Top.badType, l)
      OBVIOUS
    <2>3. lowered' = [lowered EXCEPT ![k] = l] /\ Return(r)
      BY <1>3, <1>11, <2>1, <2>2 DEF LowerDone
    <2>4. l = "poison" => "poison" \in Excuses'
      BY <1>2, <1>3, <1>4, <2>1 DEF LowerResult, LowerClean, EndClean, Clean
    <2>5. LowerClean(l, Excuses')
      BY <2>4 DEF LowerClean
    <2>6. (r.how \in {"poison", "poisoned"} => "poison" \in Excuses') /\ r.how # "quota"
      BY <1>7, <2>2, <2>4
    <2> QED
      BY <1>6, <2>3, <2>5, <2>6
  <1> QED
    BY <1>8, <1>9, <1>10, <1>11

LEMMA InitTaintInv == Init => TaintInv
  <1> SUFFICES ASSUME Init PROVE TaintInv
    OBVIOUS
  <1>1. Depth_ = 0 /\ ending = "none"
    BY DEF Init, Depth_
  <1>2. CachesClean
    BY DEF Init, CachesClean, ConstClean, FoldClean, LowerClean, Empty, Poison
  <1> QED
    BY <1>1, <1>2 DEF TaintInv, StackClean, EndingClean

LEMMA TaintInvStable == StackInv /\ TaintInv /\ [Next]_vars => TaintInv'
  <1> SUFFICES ASSUME StackInv, TaintInv, [Next]_vars PROVE TaintInv'
    OBVIOUS
  <1>1. TypeInv /\ Excuses \subseteq Excuses'
    BY ExcusesGrow DEF StackInv
  <1>2. CASE UNCHANGED vars \/ FoldPanics \/ LowerPanics
    <2>1. frames' = frames /\ ending' = ending /\ UNCHANGED caches /\ CachesClean'
      BY <1>1, <1>2, CachesStayClean DEF vars, FoldPanics, LowerPanics
    <2>2. CASE frames = <<>>
      <3>1. Depth_ = 0 /\ Depth_' = 0
        BY <2>1, <2>2 DEF Depth_
      <3> QED
        BY <2>1, <3>1 DEF TaintInv, StackClean, EndingClean
    <2>3. CASE frames # <<>>
      BY <1>1, <2>1, <2>3, TopClean, SameReplaces, ReplaceIsClean
    <2> QED
      BY <2>2, <2>3
  <1> QED
    BY <1>1, <1>2, EvaluateTaints, StatementsTaint, ArmsTaint, CallTaints, FoldTaints, LowerTaints DEF Next

-----------------------------------------------------------------------------
(* An entry that is poison while its frame still works on it was poisoned  *)
(* by recursion, which was diagnosed.                                      *)

Mark(role) ==
    IF role = "fold" THEN "comptimeRecursion" ELSE IF role = "lower" THEN "runtimeRecursion" ELSE "constCycle"
MarkInv ==
    \A i \in 1 .. Depth_ : frames[i].role \in Entries /\ EntryState(frames[i].role, frames[i].id) = "poison"
                           => Emitted(Mark(frames[i].role))

(* A frame that begins to work on an entry puts it in progress. *)
Begins(f) == f.role \in Entries => EntryState(f.role, f.id)' = "inProgress"
SameJob(f, g) == f.role = g.role /\ f.id = g.id

LEMMA StatementsReplace ==
    ASSUME TypeInv,
           ChargeBranch \/ RaiseQuota \/ BindPoison \/ CompileError \/ Stop \/ ReturnStmt
           \/ Match \/ RuntimeWhile \/ NextArm
    PROVE  \E f : Replaces(f) /\ SameJob(f, Top)
  <1>1. frames # <<>> /\ Top \in GoodFrames
    BY TopIsGood DEF ChargeBranch, RaiseQuota, BindPoison, CompileError, Stop, ReturnStmt, Match,
           RuntimeWhile, NextArm, At, BlockOver, Ready
  <1>2. ASSUME NEW f, frames' = WithTop(f), SameJob(f, Top)
        PROVE  \E g : Replaces(g) /\ SameJob(g, Top)
    BY <1>1, <1>2, WithTopReplaces
  <1>3. CASE frames' = frames
    BY <1>1, <1>3, SameReplaces DEF SameJob
  <1>4. CASE (ChargeBranch /\ frames' # frames) \/ RaiseQuota \/ BindPoison
    <2>1. PICK g : g = Advance(Top)
      OBVIOUS
    <2>2. g \in GoodFrames /\ SameJob(g, Top)
      BY <1>1, <1>4, <2>1, AdvanceIsGood, AlikeParts DEF SameJob, ChargeBranch, RaiseQuota, BindPoison, At
    <2>3. \/ frames' = WithTop([g EXCEPT !.spent = @ + 1])
          \/ frames' = WithTop(SetMaxQuota(g, Head(Top.code).limit))
          \/ frames' = WithTop(Receive(g, Gives("poison")))
      BY <1>4, <2>1 DEF ChargeBranch, RaiseQuota, BindPoison
    <2>4. PICK f : /\ frames' = WithTop(f)
                   /\ \/ f = [g EXCEPT !.spent = @ + 1] \/ f = SetMaxQuota(g, Head(Top.code).limit)
                      \/ f = Receive(g, Gives("poison"))
      BY <2>3
    <2>5. CASE f = Receive(g, Gives("poison"))
      BY <1>2, <2>2, <2>4, <2>5, AlikeParts DEF SameJob
    <2>6. CASE f = SetMaxQuota(g, Head(Top.code).limit)
      <3>1. Alike(f, g)
        BY <2>2, <2>6, AlikeParts
      <3> QED
        BY <1>2, <2>2, <2>4, <3>1 DEF SameJob, Alike
    <2>7. CASE f = [g EXCEPT !.spent = @ + 1]
      <3>1. f = [g EXCEPT !.spent = g.spent + 1]
        BY <2>7
      <3>2. Alike(f, g)
        BY <2>2, <3>1, AlikeParts
      <3> QED
        BY <1>2, <2>2, <2>4, <3>2 DEF SameJob, Alike
    <2> QED
      BY <2>4, <2>5, <2>6, <2>7
  <1>5. CASE (ReturnStmt \/ Match \/ RuntimeWhile \/ NextArm) /\ frames' # frames
    <2>1. \E c, a, v : frames' = WithTop([Top EXCEPT !.code = c, !.arms = a])
                       \/ frames' = WithTop([Top EXCEPT !.acc = v])
      BY <1>5 DEF ReturnStmt, Match, RuntimeWhile, NextArm, EnterArms
    <2>2. PICK f : /\ frames' = WithTop(f)
                   /\ \E c, a, v : f = [Top EXCEPT !.code = c, !.arms = a] \/ f = [Top EXCEPT !.acc = v]
      BY <2>1
    <2>3. SameJob(f, Top)
      BY <1>1, <2>2 DEF SameJob, GoodFrames, Frames
    <2> QED
      BY <1>2, <2>2, <2>3
  <1> QED
    BY <1>3, <1>4, <1>5 DEF CompileError, Stop

LEMMA CalleesPop ==
    ASSUME TypeInv,
           FinishConst \/ FinishConstDiverged \/ FinishEntry \/ PreambleFails
           \/ FoldWithoutBody \/ FoldRejected \/ FoldExhausted \/ FoldPoisons \/ FoldDone
           \/ LowerWithoutBody \/ LowerExhausted \/ LowerDone
    PROVE  \E r : Pops(r)
  <1>1. frames # <<>>
    BY DEF FinishConst, FinishConstDiverged, FinishEntry, PreambleFails, FoldWithoutBody, FoldRejected,
           FoldExhausted, FoldPoisons, FoldDone, LowerWithoutBody, LowerExhausted, LowerDone,
           CalleeReady, Ended, BlockOver, Ready
  <1>2. \E r : Return(r)
    BY DEF FinishConst, FinishConstDiverged, FinishEntry, PreambleFails, FoldWithoutBody, FoldRejected,
           FoldExhausted, FoldPoisons, FoldDone, LowerWithoutBody, LowerExhausted, LowerDone
  <1> QED
    BY <1>1, <1>2, ReturnPops

LEMMA StepMovesStack ==
    ASSUME TypeInv, Next
    PROVE  \/ frames = <<>> /\ (frames' = <<>> \/ \E g : frames' = <<g>> /\ Begins(g))
           \/ \E f : Replaces(f) /\ (SameJob(f, Top) \/ Begins(f))
           \/ \E f, g : Stacks(f, g) /\ SameJob(f, Top) /\ Begins(g)
           \/ \E r : Pops(r)
  <1>1. CASE StartEntry
    <2>1. PICK g : frames' = <<g>> /\ g = NewFrame("entry", Head(entriesLeft), NoFn, FALSE, DefaultQuota,
                                                   prog.block[Head(entriesLeft)])
      BY <1>1 DEF StartEntry
    <2>2. Begins(g)
      BY <2>1 DEF Begins, Entries, NewFrame
    <2> QED
      BY <1>1, <2>1, <2>2 DEF StartEntry
  <1>2. CASE StartConst
    <2>1. PICK c : c = Head(constsLeft)
      OBVIOUS
    <2>2. c \in Consts
      BY <1>2, <2>1, HeadTailProperties DEF StartConst, TypeInv, TypeOK
    <2>3. CASE consts[c] = "vacant"
      <3>1. PICK g : frames' = <<g>> /\ g = ConstFrame(c)
        BY <1>2, <2>1, <2>3 DEF StartConst
      <3>2. consts'[c] = "inProgress"
        BY <1>2, <2>1, <2>2, <2>3 DEF StartConst, TypeInv, TypeOK
      <3>3. Begins(g)
        BY <3>1, <3>2 DEF Begins, Entries, NewFrame, ConstFrame, EntryState
      <3> QED
        BY <1>2, <3>1, <3>3 DEF StartConst
    <2>4. CASE consts[c] # "vacant"
      BY <1>2, <2>1, <2>4 DEF StartConst
    <2> QED
      BY <2>3, <2>4
  <1>3. CASE ReadConst
    <2>1. PICK c : c = Head(Top.code).id
      OBVIOUS
    <2>2. frames # <<>> /\ Top.code # <<>> /\ c \in Consts /\ Top \in GoodFrames /\ Advance(Top) \in GoodFrames
      BY <1>3, <2>1, StatementAtTop, TopIsGood, AdvanceIsGood DEF ReadConst, At, Ready
    <2>3. SameJob(Advance(Top), Top) /\ \A r : SameJob(Receive(Advance(Top), r), Top)
      BY <2>2, AlikeParts DEF SameJob
    <2>4. ASSUME consts' = [consts EXCEPT ![c] = "inProgress"] PROVE Begins(ConstFrame(c))
      <3>1. consts'[c] = "inProgress"
        BY <2>2, <2>4 DEF TypeInv, TypeOK
      <3> QED
        BY <3>1 DEF Begins, Entries, NewFrame, ConstFrame, EntryState
    <2> QED
      BY <1>3, <2>1, <2>3, <2>4, ReadConstMovesStack
  <1>4. CASE Call
    <2>1. PICK s : s = Head(Top.code)
      OBVIOUS
    <2>2. frames # <<>> /\ Top.code # <<>> /\ Top \in GoodFrames /\ Advance(Top) \in GoodFrames
      BY <1>4, TopIsGood, AdvanceIsGood DEF Call, At, Ready
    <2>3. SameJob(Top, Top) /\ SameJob(Advance(Top), Top) /\ \A r : SameJob(Receive(Advance(Top), r), Top)
      BY <2>2, AlikeParts DEF SameJob
    <2>4. Begins(CalleeFrame(s))
      BY DEF Begins, Entries, NewFrame, CalleeFrame
    <2> QED
      BY <1>4, <2>1, <2>3, <2>4, CallMovesStack
  <1>5. CASE FoldBegin \/ LowerBegin
    <2>1. frames # <<>> /\ Top \in GoodFrames /\ Top.id \in Keys
      BY <1>5, Running DEF FoldBegin, LowerBegin, CalleeReady, Ended, BlockOver, Ready
    <2>2. PICK f : /\ frames' = WithTop(f)
                   /\ \/ f = [Top EXCEPT !.role = "fold", !.existing = evaluated[Top.id],
                                         !.before = Top.spent, !.acc = 0,
                                         !.code = prog.block[prog.body[Top.id]]] /\ FoldBegin
                      \/ f = [Top EXCEPT !.role = "lower", !.code = prog.block[prog.body[Top.id]],
                                         !.acc = 0, !.bad = FALSE, !.badType = Top.bad] /\ LowerBegin
      BY <1>5 DEF FoldBegin, LowerBegin
    <2>3. \/ f.id = Top.id /\ f.role = "fold" /\ evaluated'[Top.id] = InProgress
          \/ f.id = Top.id /\ f.role = "lower" /\ lowered'[Top.id] = "inProgress"
      BY <2>1, <2>2 DEF GoodFrames, Frames, FoldBegin, LowerBegin, TypeInv, TypeOK
    <2>4. Begins(f)
      BY <2>3 DEF Begins, EntryState, InProgress
    <2> QED
      BY <2>1, <2>2, <2>4, WithTopReplaces
  <1>6. CASE FoldPanics \/ LowerPanics
    <2>1. frames # <<>> /\ frames' = frames
      BY <1>6 DEF FoldPanics, LowerPanics, Ended, BlockOver, Ready
    <2> QED
      BY <2>1, SameReplaces DEF SameJob
  <1> QED
    BY <1>1, <1>2, <1>3, <1>4, <1>5, <1>6, StatementsReplace, CalleesPop DEF Next

LEMMA WorkIsUnique ==
    ASSUME StackInv, frames # <<>>, Top.role \in Entries
    PROVE  /\ \A i \in 1 .. Depth_ : i # Depth_ => frames[i].role # Top.role \/ frames[i].id # Top.id
           /\ EntryState(Top.role, Top.id) \in {"inProgress", "poison"}
  <1>1. TypeInv /\ InProgressMatchesStack
    BY DEF StackInv
  <1>2. DOMAIN frames = 1 .. Depth_ /\ Top = frames[Depth_] /\ Depth_ \in DOMAIN frames
    BY <1>1, StackShape DEF Depth_
  <1> QED
    BY <1>1, <1>2 DEF InProgressMatchesStack, Works

LEMMA EmitEmitted ==
    ASSUME NEW kind, Emit(kind)
    PROVE  Emitted(kind)'
  <1>1. PICK e : e = [kind |-> kind, id |-> Top.id]
    OBVIOUS
  <1>2. e \in errors' /\ e.kind = kind
    BY <1>1 DEF Emit
  <1> QED
    BY <1>2 DEF Emitted

(* What poisons the entry a frame works on emits the mark of recursion. *)
LEMMA PoisonIsMarked ==
    ASSUME StackInv, Next, NEW i \in 1 .. Depth_, i <= Depth_', NEW role \in Entries, role = frames[i].role,
           NEW id, id = frames[i].id, EntryState(role, id)' = "poison"
    PROVE  EntryState(role, id) = "poison" \/ Emitted(Mark(role))'
  <1>1. TypeInv /\ InProgressMatchesStack
    BY DEF StackInv
  <1>2. /\ Depth_ \in Nat /\ DOMAIN frames = 1 .. Depth_ /\ frames # <<>>
        /\ (role = "const" => id \in Consts) /\ (role # "const" => id \in Keys)
    <2>1. frames = <<>> => Depth_ = 0
      BY DEF Depth_
    <2> QED
      BY <1>1, <2>1, StackShape DEF Depth_, EntriesOf
  <1>3. EntryState(role, id) \in {"inProgress", "poison"}
    BY <1>1, <1>2 DEF InProgressMatchesStack
  <1>4. /\ evaluated \in [Keys -> EvaluatedStates] /\ lowered \in [Keys -> LoweredStates]
        /\ consts \in [Consts -> ConstStates]
    BY <1>1 DEF TypeInv, TypeOK
  <1>5. ASSUME NEW r, Return(r), Top.role \in Entries
        PROVE  role # Top.role \/ id # Top.id
    <2>1. Depth_' = Depth_ - 1
      BY <1>1, <1>2, <1>5, ReturnPops DEF Pops
    <2>2. i # Depth_
      BY <1>2, <2>1
    <2> QED
      BY <1>2, <1>5, <2>2, WorkIsUnique
  <1>6. CASE UNCHANGED caches
    BY <1>6 DEF caches, EntryState
  <1>7. CASE ReadConst
    <2>1. Emit("constCycle") => Emitted("constCycle")'
      BY EmitEmitted
    <2>2. PICK c \in Consts : c = Head(Top.code).id
      BY <1>1, <1>7, StatementAtTop DEF ReadConst, At, Ready
    <2>3. UNCHANGED <<evaluated, lowered>>
      BY <1>7 DEF ReadConst
    <2>4. CASE consts' = [consts EXCEPT ![c] = "inProgress"]
      BY <1>2, <1>4, <2>3, <2>4 DEF EntryState
    <2>5. CASE consts' = [consts EXCEPT ![c] = "poison"] /\ Emit("constCycle")
      <3>1. CASE role = "const"
        BY <2>1, <2>5, <3>1 DEF Mark
      <3>2. CASE role # "const"
        BY <2>3, <3>2 DEF EntryState, Entries
      <3> QED
        BY <3>1, <3>2
    <2>6. CASE consts' = consts
      BY <2>3, <2>6 DEF EntryState
    <2> QED
      BY <1>1, <1>7, <2>2, <2>4, <2>5, <2>6, ReadConstMovesStack
  <1>8. CASE FinishConst \/ FinishConstDiverged
    <2>1. Top.role = "const" /\ (\E r : Return(r)) /\ UNCHANGED <<evaluated, lowered>>
          /\ \E v : consts' = [consts EXCEPT ![Top.id] = v]
      BY <1>8 DEF FinishConst, FinishConstDiverged, Ended
    <2>2. role # "const" \/ id # Top.id
      BY <1>5, <2>1 DEF Entries
    <2> QED
      BY <1>2, <1>4, <2>1, <2>2 DEF EntryState, Entries
  <1>9. CASE FoldExhausted \/ FoldPoisons \/ FoldDone
    <2>1. Top.role = "fold" /\ (\E r : Return(r)) /\ UNCHANGED <<consts, lowered>>
          /\ \E e : evaluated' = [evaluated EXCEPT ![Top.id] = e]
      BY <1>9 DEF FoldExhausted, FoldPoisons, FoldDone, Ended
    <2>2. role # "fold" \/ id # Top.id
      BY <1>5, <2>1 DEF Entries
    <2> QED
      BY <1>2, <1>4, <2>1, <2>2 DEF EntryState, Entries
  <1>10. CASE LowerExhausted \/ LowerDone
    <2>1. Top.role = "lower" /\ (\E r : Return(r)) /\ UNCHANGED <<consts, evaluated>>
          /\ \E l : lowered' = [lowered EXCEPT ![Top.id] = l]
      BY <1>10 DEF LowerExhausted, LowerDone, Ended
    <2>2. role # "lower" \/ id # Top.id
      BY <1>5, <2>1 DEF Entries
    <2> QED
      BY <1>2, <1>4, <2>1, <2>2 DEF EntryState, Entries
  <1>11. CASE FoldWithoutBody
    <2>1. UNCHANGED <<consts, lowered>>
      BY <1>11 DEF FoldWithoutBody
    <2>2. CASE evaluated' = evaluated
      BY <2>1, <2>2 DEF EntryState
    <2>3. CASE Emit("comptimeRecursion")
      <3>1. Emitted("comptimeRecursion")'
        BY <2>3, EmitEmitted
      <3> QED
        BY <2>1, <3>1 DEF EntryState, Entries, Mark
    <2> QED
      BY <1>11, <2>2, <2>3 DEF FoldWithoutBody
  <1>12. CASE FoldRejected \/ FoldBegin
    <2>1. /\ UNCHANGED <<consts, lowered>> /\ evaluated[Top.id].st \in {"empty", "done"}
          /\ \E e : evaluated' = [evaluated EXCEPT ![Top.id] = e]
      BY <1>12 DEF FoldRejected, FoldBegin, MustEvaluate
    <2>2. role # "fold" \/ id # Top.id
      BY <1>3, <2>1 DEF EntryState
    <2> QED
      BY <1>2, <1>4, <2>1, <2>2 DEF EntryState, Entries
  <1>13. CASE LowerWithoutBody
    <2>1. UNCHANGED <<consts, evaluated>>
      BY <1>13 DEF LowerWithoutBody
    <2>2. CASE lowered' = lowered
      BY <2>1, <2>2 DEF EntryState
    <2>3. CASE Emit("runtimeRecursion")
      <3>1. Emitted("runtimeRecursion")'
        BY <2>3, EmitEmitted
      <3> QED
        BY <2>1, <3>1 DEF EntryState, Entries, Mark
    <2> QED
      BY <1>13, <2>2, <2>3 DEF LowerWithoutBody
  <1>14. CASE LowerBegin
    <2>1. UNCHANGED <<consts, evaluated>> /\ lowered[Top.id] = "empty"
          /\ lowered' = [lowered EXCEPT ![Top.id] = "inProgress"]
      BY <1>14 DEF LowerBegin
    <2>2. role # "lower" \/ id # Top.id
      BY <1>3, <2>1 DEF EntryState
    <2> QED
      BY <1>2, <1>4, <2>1, <2>2 DEF EntryState, Entries
  <1>15. CASE StartConst
    BY <1>2, <1>15 DEF StartConst
  <1> QED
    BY <1>6, <1>7, <1>8, <1>9, <1>10, <1>11, <1>12, <1>13, <1>14, <1>15
       DEF Next, StartEntry, FinishEntry, ChargeBranch, RaiseQuota, BindPoison, CompileError, Stop,
           ReturnStmt, Match, RuntimeWhile, NextArm, Call, PreambleFails, FoldPanics, LowerPanics, caches

LEMMA MarkInvStable == StackInv /\ MarkInv /\ [Next]_vars => MarkInv'
  <1> SUFFICES ASSUME StackInv, MarkInv, [Next]_vars PROVE MarkInv'
    OBVIOUS
  <1>1. TypeInv /\ errors \subseteq errors'
    BY ErrorsGrow DEF StackInv
  <1>2. CASE UNCHANGED vars
    BY <1>2 DEF MarkInv, vars, caches, Depth_, EntryState, Emitted
  <1>3. CASE Next
    <2> DEFINE Marked(j) == frames'[j].role \in Entries /\ EntryState(frames[j].role, frames[j].id)' = "poison"
                            => Emitted(Mark(frames[j].role))'
    <2>1. ASSUME NEW i \in 1 .. Depth_, i <= Depth_', SameWork(i) PROVE Marked(i)
      <3>1. PICK role : role = frames[i].role
        OBVIOUS
      <3>2. PICK id : id = frames[i].id
        OBVIOUS
      <3>3. role = frames'[i].role /\ id = frames'[i].id
        BY <2>1, <3>1, <3>2 DEF SameWork
      <3>4. ASSUME role \in Entries, EntryState(role, id)' = "poison" PROVE Emitted(Mark(role))'
        <4>1. EntryState(role, id) = "poison" \/ Emitted(Mark(role))'
          BY <1>3, <2>1, <3>1, <3>2, <3>4, PoisonIsMarked
        <4>2. EntryState(role, id) = "poison" => Emitted(Mark(role))
          BY <3>1, <3>2, <3>4 DEF MarkInv
        <4> QED
          BY <1>1, <4>1, <4>2 DEF Emitted
      <3> QED
        BY <3>3, <3>4
    <2>2. ASSUME NEW i, NEW f, frames'[i] = f, Begins(f) PROVE Marked(i)
      <3>1. EntryState(frames[i].role, frames[i].id)' = EntryState(f.role, f.id)'
        BY <2>2 DEF EntryState
      <3> QED
        BY <2>2, <3>1 DEF Begins
    <2> HIDE DEF Marked
    <2>3. ASSUME NEW i \in 1 .. Depth_' PROVE Marked(i)
      <3>1. CASE frames = <<>> /\ (frames' = <<>> \/ \E g : frames' = <<g>> /\ Begins(g))
        <4>1. CASE frames' = <<>>
          <5>1. Depth_' = 0
            BY <4>1 DEF Depth_
          <5> QED
            BY <5>1
        <4>2. CASE \E g : frames' = <<g>> /\ Begins(g)
          <5>1. PICK g : frames' = <<g>> /\ Begins(g)
            BY <4>2
          <5>2. Depth_' = 1 /\ frames'[1] = g
            BY <5>1 DEF Depth_
          <5> QED
            BY <2>2, <5>1, <5>2
        <4> QED
          BY <3>1, <4>1, <4>2
      <3>2. CASE \E f : Replaces(f) /\ (SameJob(f, Top) \/ Begins(f))
        <4>1. PICK f : Replaces(f) /\ (SameJob(f, Top) \/ Begins(f))
          BY <3>2
        <4>2. Depth_ \in Nat \ {0} /\ Depth_' = Depth_
          BY <4>1 DEF Replaces
        <4>3. CASE i # Depth_
          <5>1. i \in 1 .. Depth_ - 1
            BY <4>2, <4>3
          <5> QED
            BY <2>1, <4>1, <4>2, <5>1 DEF Replaces, Suspended, Alike, SameWork
        <4>4. CASE i = Depth_ /\ SameJob(f, Top)
          BY <2>1, <4>1, <4>2, <4>4 DEF Replaces, Alike, SameWork, SameJob, Top, Depth_
        <4>5. CASE i = Depth_ /\ Begins(f)
          <5>1. PICK g : g = frames'[i]
            OBVIOUS
          <5>2. g.role = f.role /\ g.id = f.id
            BY <4>1, <4>5, <5>1 DEF Replaces, Alike
          <5>3. Begins(g)
            BY <4>5, <5>2 DEF Begins, EntryState
          <5> QED
            BY <2>2, <5>1, <5>3
        <4> QED
          BY <4>1, <4>3, <4>4, <4>5
      <3>3. CASE \E f, g : Stacks(f, g) /\ SameJob(f, Top) /\ Begins(g)
        <4>1. PICK f, g : Stacks(f, g) /\ SameJob(f, Top) /\ Begins(g)
          BY <3>3
        <4>2. Depth_ \in Nat \ {0} /\ Depth_' = Depth_ + 1
          BY <4>1 DEF Stacks
        <4>3. CASE i \in 1 .. Depth_ - 1
          BY <2>1, <4>1, <4>2, <4>3 DEF Stacks, Suspended, Alike, SameWork
        <4>4. CASE i = Depth_
          BY <2>1, <4>1, <4>2, <4>4 DEF Stacks, Alike, SameWork, SameJob, Top, Depth_
        <4>5. CASE i = Depth_ + 1
          BY <2>2, <4>1, <4>5 DEF Stacks
        <4> QED
          BY <4>2, <4>3, <4>4, <4>5
      <3>4. CASE \E r : Pops(r)
        <4>1. PICK r : Pops(r)
          BY <3>4
        <4>2. Depth_ \in Nat \ {0} /\ Depth_' = Depth_ - 1
          BY <4>1 DEF Pops
        <4>3. CASE i \in 1 .. Depth_ - 2
          BY <2>1, <4>1, <4>2, <4>3 DEF Pops, Suspended, Alike, SameWork
        <4>4. CASE i = Depth_ - 1
          <5>1. frames'[i] = Receive(frames[i], r) /\ i \in 1 .. Depth_
            BY <4>1, <4>2, <4>4 DEF Pops
          <5>2. frames[i] \in GoodFrames
            BY <1>1, <5>1, StackShape DEF Depth_
          <5>3. PICK f : f = frames[i]
            OBVIOUS
          <5>4. Receive(f, r).role = f.role /\ Receive(f, r).id = f.id
            BY <5>2, <5>3, AlikeParts
          <5>5. SameWork(i)
            BY <5>1, <5>3, <5>4 DEF SameWork
          <5> QED
            BY <2>1, <5>1, <5>5
        <4> QED
          BY <4>2, <4>3, <4>4
      <3> QED
        BY <1>1, <1>3, <3>1, <3>2, <3>3, <3>4, StepMovesStack
    <2> QED
      BY <2>3 DEF MarkInv, Marked
  <1> QED
    BY <1>2, <1>3

-----------------------------------------------------------------------------
(* Replaying.  As long as no recursion was diagnosed there is an oracle    *)
(* that explains every call it knows, agrees with the caches, and on which *)
(* every comptime callee of the stack has run to where it is now.          *)

Tracked(f) == f.role \in {"preamble", "fold"}
PreOf(p, k) == p.block[p.preamble[k]]
CodeOf(p, f) == IF f.role = "preamble" THEN PreOf(p, f.id) ELSE p.block[p.body[f.id]]
State(f, e) == [acc |-> f.acc, bad |-> f.bad, end |-> e]
Rest(code, n) == SubSeq(code, n + 1, Len(code))

(* The statement s waits for the result of the frame g. *)
Awaits(p, s, g) ==
    \/ s.op = "call" /\ Tracked(g) /\ g.folding /\ g.id = s.key /\ ~p.rtArg[s.key]
    \/ s.op = "const" /\ g.role = "const" /\ g.id = s.id

Underway(p, O, f) ==
    \E n \in 0 .. Len(CodeOf(p, f)) : f.code = Rest(CodeOf(p, f), n) /\ Runs(O, CodeOf(p, f), n, State(f, "none"))
Over(p, O, f, e) == \E n \in 0 .. Len(CodeOf(p, f)) : Runs(O, CodeOf(p, f), n, State(f, e))
Rests(p, O, f, e) == IF e = "none" THEN Underway(p, O, f) ELSE e = "quota" \/ Over(p, O, f, e)
Waiting(p, O, f, g) ==
    \E n \in 1 .. Len(CodeOf(p, f)) :
       /\ f.code = Rest(CodeOf(p, f), n) /\ Awaits(p, CodeOf(p, f)[n], g)
       /\ Runs(O, CodeOf(p, f), n - 1, State(f, "none"))

(* A body runs after its preamble; one that is evaluated again is known.   *)
Entitled(p, O, f) ==
    f.role = "fold" =>
       /\ ~p.rtArg[f.id]
       /\ \E u \in Progress : EndsIn(O, PreOf(p, f.id), u) /\ ~Failed(u)
       /\ f.existing.st = "done" => /\ f.id \in DOMAIN O.calls
                                    /\ O.calls[f.id] = OutcomeResult(f.existing.outcome)

Explained(p, O, k) ==
    IF p.rtArg[k] THEN k \in DOMAIN O.calls /\ O.calls[k] = Gives("poison")
    ELSE k \in DOMAIN O.calls => CallGives(O, PreOf(p, k), p.block[p.body[k]], p.never[k], O.calls[k])
FoldKnown(p, O, k, e) ==
    /\ e.st = "done" => ~p.rtArg[k] /\ k \in DOMAIN O.calls /\ O.calls[k] = OutcomeResult(e.outcome)
    /\ e.st = "poison" /\ ~p.rtArg[k] => k \in DOMAIN O.calls /\ O.calls[k] = Gives("poison") /\ ~p.never[k]

DecidedConsts == {c \in Consts : consts[c] \notin {"vacant", "inProgress"}}
ConstResults == [c \in DecidedConsts |-> IF consts[c] = "value" THEN Yields(0) ELSE Gives("poison")]

Coherent(O) ==
    /\ O.consts = ConstResults
    /\ \A k \in Keys : Explained(prog, O, k) /\ FoldKnown(prog, O, k, evaluated[k])
    /\ \A i \in 1 .. Depth_ : Tracked(frames[i]) => Entitled(prog, O, frames[i])
    /\ \A i \in 1 .. Depth_ - 1 : Tracked(frames[i]) => Waiting(prog, O, frames[i], frames[i + 1])
    /\ Depth_ # 0 /\ Tracked(frames[Depth_]) => Rests(prog, O, frames[Depth_], ending)

Acyclic == ~Emitted("comptimeRecursion") /\ ~Emitted("constCycle")
ReplayInv == Acyclic => \E O \in Oracles : Coherent(O)

LEMMA ReplayGrown ==
    ASSUME NEW O, NEW P, Grows(O, P), NEW p
    PROVE  /\ \A f : Underway(p, O, f) => Underway(p, P, f)
           /\ \A f, e : Over(p, O, f, e) => Over(p, P, f, e)
           /\ \A f, e : Rests(p, O, f, e) => Rests(p, P, f, e)
           /\ \A f, g : Waiting(p, O, f, g) => Waiting(p, P, f, g)
           /\ \A f : Entitled(p, O, f) => Entitled(p, P, f)
           /\ \A k, e : FoldKnown(p, O, k, e) => FoldKnown(p, P, k, e)
  <1>1. \A f : Underway(p, O, f) => Underway(p, P, f)
    BY RunsGrown DEF Underway
  <1>2. \A f, e : Over(p, O, f, e) => Over(p, P, f, e)
    BY RunsGrown DEF Over
  <1>3. \A f, e : Rests(p, O, f, e) => Rests(p, P, f, e)
    BY <1>1, <1>2 DEF Rests
  <1>4. \A f, g : Waiting(p, O, f, g) => Waiting(p, P, f, g)
    BY RunsGrown DEF Waiting
  <1>5. ASSUME NEW f, Entitled(p, O, f) PROVE Entitled(p, P, f)
    <2>1. ASSUME NEW u, EndsIn(O, PreOf(p, f.id), u) PROVE EndsIn(P, PreOf(p, f.id), u)
      BY <2>1, EndsInGrown
    <2> QED
      BY <1>5, <2>1 DEF Entitled, Grows
  <1>6. \A k, e : FoldKnown(p, O, k, e) => FoldKnown(p, P, k, e)
    BY DEF FoldKnown, Grows
  <1> QED
    BY <1>1, <1>2, <1>3, <1>4, <1>5, <1>6

(* Frames that are alike replay alike. *)
LEMMA ReplayAlike ==
    ASSUME NEW f, NEW g, Alike(g, f), NEW p, NEW O
    PROVE  /\ Tracked(g) = Tracked(f)
           /\ \A e : Rests(p, O, f, e) => Rests(p, O, g, e)
           /\ \A h : Waiting(p, O, f, h) => Waiting(p, O, g, h)
           /\ \A h : Waiting(p, O, h, f) => Waiting(p, O, h, g)
           /\ Entitled(p, O, f) => Entitled(p, O, g)
           /\ \A s : Awaits(p, s, f) => Awaits(p, s, g)
  <1>1. /\ f.role = g.role /\ f.id = g.id /\ f.folding = g.folding /\ f.code = g.code
        /\ f.acc = g.acc /\ f.bad = g.bad /\ f.existing = g.existing
    BY DEF Alike
  <1>2. Tracked(g) = Tracked(f) /\ CodeOf(p, g) = CodeOf(p, f) /\ \A e : State(g, e) = State(f, e)
    BY <1>1 DEF Tracked, CodeOf, State
  <1>3. \A e : Rests(p, O, f, e) => Rests(p, O, g, e)
    BY <1>1, <1>2 DEF Rests, Underway, Over
  <1>4. \A h : Waiting(p, O, f, h) => Waiting(p, O, g, h)
    BY <1>1, <1>2 DEF Waiting
  <1>5. \A s : Awaits(p, s, f) => Awaits(p, s, g)
    BY <1>1, <1>2 DEF Awaits
  <1>6. \A h : Waiting(p, O, h, f) => Waiting(p, O, h, g)
    BY <1>5 DEF Waiting
  <1>7. Entitled(p, O, f) => Entitled(p, O, g)
    BY <1>1 DEF Entitled
  <1> QED
    BY <1>2, <1>3, <1>4, <1>5, <1>6, <1>7

LEMMA RestOf ==
    ASSUME NEW code \in Seq(Statements), NEW n \in 0 .. Len(code)
    PROVE  /\ Rest(code, n) # <<>> => /\ n + 1 \in 1 .. Len(code) /\ Head(Rest(code, n)) = code[n + 1]
                                      /\ Tail(Rest(code, n)) = Rest(code, n + 1)
           /\ Rest(code, n) = <<>> => n = Len(code)
           /\ Rest(code, 0) = code
  <1>1. Len(code) \in Nat /\ n \in Nat /\ n <= Len(code) /\ \A i \in 1 .. Len(code) : code[i] \in Statements
    BY ElementOfSeq
  <1>2. PICK l \in Nat : l = Len(code)
    BY <1>1
  <1>3. ASSUME NEW m \in 0 .. l
        PROVE  /\ Rest(code, m) \in Seq(Statements) /\ Len(Rest(code, m)) = l - m
               /\ \A i \in 1 .. l - m : Rest(code, m)[i] = code[m + i]
    <2>1. PICK a \in 1 .. l + 1 : a = m + 1
      OBVIOUS
    <2>2. \A i \in a .. l : code[i] \in Statements
      BY <1>1, <1>2, <2>1
    <2>3. /\ SubSeq(code, a, l) \in Seq(Statements)
          /\ Len(SubSeq(code, a, l)) = IF a <= l THEN l - a + 1 ELSE 0
          /\ \A i \in 1 .. l - a + 1 : SubSeq(code, a, l)[i] = code[a + i - 1]
      BY <2>2, SubSeqProperties
    <2>4. (IF a <= l THEN l - a + 1 ELSE 0) = l - m /\ l - a + 1 = l - m
      BY <2>1
    <2>5. \A i \in 1 .. l - m : a + i - 1 = m + i
      BY <2>1
    <2> QED
      BY <1>2, <2>1, <2>3, <2>4, <2>5 DEF Rest
  <1>4. ASSUME Rest(code, n) # <<>>
        PROVE  /\ n + 1 \in 1 .. Len(code) /\ Head(Rest(code, n)) = code[n + 1]
               /\ Tail(Rest(code, n)) = Rest(code, n + 1)
    <2>1. PICK s \in Seq(Statements) : s = Rest(code, n)
      BY <1>2, <1>3
    <2>2. Len(s) = l - n /\ s # <<>> /\ \A i \in 1 .. l - n : s[i] = code[n + i]
      BY <1>2, <1>3, <1>4, <2>1
    <2>3. Len(s) \in Nat \ {0} /\ n < l
      BY <1>1, <1>2, <2>2, EmptySeq
    <2>4. Head(s) = s[1] /\ Tail(s) \in Seq(Statements) /\ Len(Tail(s)) = Len(s) - 1
          /\ \A i \in 1 .. Len(s) - 1 : Tail(s)[i] = s[i + 1]
      BY <2>2, HeadTailProperties
    <2>5. PICK t \in Seq(Statements) : t = Tail(s)
      BY <2>4
    <2>6. PICK m \in 0 .. l : m = n + 1
      BY <1>1, <2>3
    <2>7. PICK u \in Seq(Statements) :
             u = Rest(code, m) /\ Len(u) = l - m /\ \A i \in 1 .. l - m : u[i] = code[m + i]
      BY <1>3
    <2>8. Len(t) = Len(u)
      BY <1>1, <2>2, <2>4, <2>5, <2>6, <2>7
    <2>9. ASSUME NEW i \in 1 .. Len(t) PROVE t[i] = u[i]
      <3>1. i \in 1 .. Len(s) - 1 /\ i + 1 \in 1 .. l - n /\ i \in 1 .. l - m
        BY <1>1, <2>2, <2>4, <2>5, <2>6
      <3>2. t[i] = s[i + 1] /\ s[i + 1] = code[n + (i + 1)] /\ u[i] = code[m + i]
        BY <2>2, <2>4, <2>5, <2>7, <3>1
      <3>3. n + (i + 1) = m + i
        BY <1>1, <2>6
      <3> QED
        BY <3>2, <3>3
    <2>10. t = u
      BY <2>8, <2>9, SeqEqual
    <2>11. 1 \in 1 .. l - n
      BY <1>1, <2>3
    <2>12. Head(Rest(code, n)) = code[n + 1]
      BY <2>1, <2>2, <2>4, <2>11
    <2>13. Tail(Rest(code, n)) = Rest(code, n + 1)
      BY <2>1, <2>5, <2>6, <2>7, <2>10
    <2>14. n + 1 \in 1 .. Len(code)
      BY <1>2, <2>6, <2>3
    <2> QED
      BY <2>12, <2>13, <2>14
  <1>5. ASSUME Rest(code, n) = <<>> PROVE n = Len(code)
    <2>1. Len(Rest(code, n)) = 0
      BY <1>5
    <2> QED
      BY <1>1, <1>2, <1>3, <2>1
  <1>6. Rest(code, 0) = code
    <2>1. PICK s \in Seq(Statements) : s = Rest(code, 0)
      BY <1>2, <1>3
    <2>2. Len(s) = Len(code) /\ \A i \in 1 .. Len(s) : s[i] = code[i]
      BY <1>2, <1>3, <2>1
    <2>3. s = code
      BY <2>2, SeqEqual
    <2> QED
      BY <2>1, <2>3
  <1> QED
    BY <1>4, <1>5, <1>6

(* The statement at hand is done: the frame g is what f becomes. *)
LEMMA StepsOn ==
    ASSUME NEW p, NEW O, NEW f, CodeOf(p, f) \in Seq(Statements), Underway(p, O, f), f.code # <<>>,
           NEW s, s = Head(f.code), Knows(O, s), NEW g, g.role = f.role, g.id = f.id, NEW e,
           e = "none" => g.code = Tail(f.code),
           State(g, e) = After(O, s, State(f, "none")), State(g, e) \in Progress
    PROVE  Rests(p, O, g, e)
  <1>1. PICK code \in Seq(Statements) : code = CodeOf(p, f) /\ code = CodeOf(p, g)
    BY DEF CodeOf
  <1>2. PICK n \in 0 .. Len(code) : f.code = Rest(code, n) /\ Runs(O, code, n, State(f, "none"))
    BY <1>1 DEF Underway
  <1>3. n + 1 \in 1 .. Len(code) /\ s = code[n + 1] /\ Tail(f.code) = Rest(code, n + 1)
    BY <1>2, RestOf
  <1>4. PICK st : st = State(f, "none")
    OBVIOUS
  <1>5. st.end = "none" /\ n \in Nat
    BY <1>4 DEF State
  <1>6. PICK next \in Progress : next = State(g, e) /\ next = After(O, code[n + 1], st)
    BY <1>3, <1>4
  <1>7. Runs(O, code, n + 1, next)
    BY <1>2, <1>3, <1>4, <1>5, <1>6, RunsOn
  <1>8. PICK m \in 0 .. Len(code) : m = n + 1
    BY <1>3
  <1>9. CASE e = "none"
    BY <1>1, <1>3, <1>6, <1>7, <1>8, <1>9 DEF Rests, Underway
  <1>10. CASE e # "none"
    BY <1>1, <1>6, <1>7, <1>8, <1>10 DEF Rests, Over
  <1> QED
    BY <1>9, <1>10

(* The statement at hand waits for a frame. *)
LEMMA WaitsFor ==
    ASSUME NEW p, NEW O, NEW f, CodeOf(p, f) \in Seq(Statements), Underway(p, O, f), f.code # <<>>,
           NEW g, g.role = f.role, g.id = f.id, g.code = Tail(f.code), g.acc = f.acc, g.bad = f.bad,
           NEW h, Awaits(p, Head(f.code), h)
    PROVE  Waiting(p, O, g, h)
  <1>1. PICK code \in Seq(Statements) : code = CodeOf(p, f) /\ code = CodeOf(p, g)
    BY DEF CodeOf
  <1>2. PICK n \in 0 .. Len(code) : f.code = Rest(code, n) /\ Runs(O, code, n, State(f, "none"))
    BY <1>1 DEF Underway
  <1>3. n + 1 \in 1 .. Len(code) /\ Head(f.code) = code[n + 1] /\ Tail(f.code) = Rest(code, n + 1)
    BY <1>2, RestOf
  <1>4. PICK m \in 1 .. Len(code) : m = n + 1
    BY <1>3
  <1>5. m - 1 = n /\ State(g, "none") = State(f, "none")
    BY <1>4 DEF State
  <1> QED
    BY <1>1, <1>2, <1>3, <1>4, <1>5 DEF Waiting

(* What it waited for arrives. *)
LEMMA Resumes ==
    ASSUME NEW p, NEW O, NEW f \in GoodFrames, CodeOf(p, f) \in Seq(Statements),
           NEW h, Waiting(p, O, f, h), NEW r \in Results,
           \A s : Awaits(p, s, h) => Knows(O, s) /\ Given(O, s) = r,
           NEW g, g = Receive(f, r), NEW e, e = IF r.how \in Divergences THEN r.how ELSE "none"
    PROVE  Rests(p, O, g, e)
  <1>1. g \in GoodFrames /\ e \in {"none", "value"} \cup Divergences
    BY ReceiveIsGood
  <1>2. /\ g.role = f.role /\ g.id = f.id /\ g.code = f.code /\ g.acc = (f.acc + r.val) % ValueMod
        /\ g.bad = (f.bad \/ r.how = "poison")
    BY AlikeParts
  <1>3. PICK code \in Seq(Statements) : code = CodeOf(p, f) /\ code = CodeOf(p, g)
    BY <1>2 DEF CodeOf
  <1>4. PICK n \in 1 .. Len(code) :
          f.code = Rest(code, n) /\ Awaits(p, code[n], h) /\ Runs(O, code, n - 1, State(f, "none"))
    BY <1>3 DEF Waiting
  <1>5. PICK m \in Nat : m = n - 1 /\ m + 1 = n
    BY <1>4
  <1>6. PICK st : st = State(f, "none")
    OBVIOUS
  <1>7. st.end = "none" /\ st.acc = f.acc /\ st.bad = f.bad
    BY <1>6 DEF State
  <1>8. PICK s : s = code[n]
    OBVIOUS
  <1>9. s.op \in {"call", "const"} /\ Knows(O, s) /\ Given(O, s) = r
    BY <1>4, <1>8 DEF Awaits
  <1>10. State(g, e) = After(O, s, st)
    BY <1>2, <1>7, <1>9 DEF State, After, Receives
  <1>11. State(g, e) \in Progress
    BY <1>1 DEF State, Progress, GoodFrames, Frames
  <1>12. PICK next \in Progress : next = State(g, e)
    BY <1>11
  <1>13. Runs(O, code, n, next)
    BY <1>4, <1>5, <1>6, <1>7, <1>8, <1>9, <1>10, <1>12, RunsOn
  <1>14. n \in 0 .. Len(code)
    OBVIOUS
  <1>15. CASE e = "none"
    BY <1>2, <1>3, <1>4, <1>12, <1>13, <1>14, <1>15 DEF Rests, Underway
  <1>16. CASE e # "none"
    BY <1>3, <1>12, <1>13, <1>14, <1>16 DEF Rests, Over
  <1> QED
    BY <1>15, <1>16

(* The code of the frame has come to its end. *)
LEMMA CodeEnds ==
    ASSUME NEW p, NEW O, NEW f, CodeOf(p, f) \in Seq(Statements), NEW e, Rests(p, O, f, e),
           e = "none" => f.code = <<>>, e # "quota"
    PROVE  EndsIn(O, CodeOf(p, f), State(f, e))
  <1>1. PICK code \in Seq(Statements) : code = CodeOf(p, f)
    OBVIOUS
  <1>2. CASE e = "none"
    <2>1. PICK n \in 0 .. Len(code) : f.code = Rest(code, n) /\ Runs(O, code, n, State(f, "none"))
      BY <1>1, <1>2 DEF Rests, Underway
    <2>2. n = Len(code)
      BY <1>2, <2>1, RestOf
    <2> QED
      BY <1>1, <1>2, <2>1, <2>2 DEF EndsIn, Complete
  <1>3. CASE e # "none"
    <2>1. PICK n \in 0 .. Len(code) : Runs(O, code, n, State(f, e))
      BY <1>1, <1>3 DEF Rests, Over
    <2>2. State(f, e).end # "none"
      BY <1>3 DEF State
    <2> QED
      BY <1>1, <2>1, <2>2 DEF EndsIn, Complete
  <1> QED
    BY <1>2, <1>3

(* A frame that begins is at the start of its code. *)
LEMMA StartsOff ==
    ASSUME NEW p, NEW O, NEW f, CodeOf(p, f) \in Seq(Statements), f.code = CodeOf(p, f),
           f.acc = 0, f.bad = FALSE
    PROVE  Rests(p, O, f, "none")
  <1>1. PICK code \in Seq(Statements) : code = CodeOf(p, f)
    OBVIOUS
  <1>2. State(f, "none") = Start
    BY DEF State, Start
  <1>3. Runs(O, code, 0, State(f, "none"))
    BY <1>2, RunsNothing
  <1>4. 0 \in 0 .. Len(code) /\ Rest(code, 0) = code
    <2>1. Len(code) \in Nat
      OBVIOUS
    <2>2. 0 \in 0 .. Len(code)
      BY <2>1
    <2> QED
      BY <2>2, RestOf
  <1> QED
    BY <1>1, <1>3, <1>4 DEF Rests, Underway

(* The oracle of the next step. *)
Follows(O, P) ==
    Grows(O, P) /\ P.consts = ConstResults' /\ \A k \in Keys : Explained(prog, P, k)

LEMMA ConstResultsGrow ==
    ASSUME StackInv, MarkInv, Next, Acyclic'
    PROVE  /\ ConstResults' \in [DecidedConsts' -> Results]
           /\ \A c \in DecidedConsts : c \in DecidedConsts' /\ ConstResults'[c] = ConstResults[c]
  <1>1. TypeInv /\ InProgressMatchesStack /\ errors \subseteq errors'
    BY ErrorsGrow DEF StackInv
  <1>2. ConstResults' \in [DecidedConsts' -> Results]
    BY ResultTypes DEF ConstResults
  <1>3. ASSUME NEW c \in DecidedConsts PROVE c \in DecidedConsts' /\ ConstResults'[c] = ConstResults[c]
    <2>1. c \in Consts /\ consts[c] \notin {"vacant", "inProgress"}
      BY DEF DecidedConsts
    <2>2. ~OnStack(c)
      <3> SUFFICES ASSUME OnStack(c) PROVE FALSE
        OBVIOUS
      <3>1. PICK i \in DOMAIN frames : Works(i, "const", c)
        BY DEF OnStack
      <3>2. frames[i].role = "const" /\ frames[i].id = c /\ i \in 1 .. Depth_
        BY <1>1, <3>1, StackShape DEF Works, Depth_
      <3>3. consts[c] = "poison"
        BY <1>1, <2>1, <3>1, <3>2 DEF InProgressMatchesStack, Entries, EntryState
      <3>4. Emitted("constCycle")
        BY <3>2, <3>3 DEF MarkInv, Entries, EntryState, Mark
      <3> QED
        BY <1>1, <3>4 DEF Acyclic, Emitted
    <2>3. consts'[c] = consts[c]
      BY <2>1, <2>2, VerdictsStand DEF DecidedIsFinal
    <2> QED
      BY <2>1, <2>3 DEF DecidedConsts, ConstResults
  <1> QED
    BY <1>2, <1>3

LEMMA KnowledgeGrows ==
    ASSUME StackInv, MarkInv, Next, Acyclic', NEW O \in Oracles, Coherent(O), NEW K \in SUBSET Keys,
           NEW calls \in [K -> Results], \A k \in DOMAIN O.calls : k \in K /\ calls[k] = O.calls[k]
    PROVE  \E P \in Oracles : P.calls = calls /\ P.consts = ConstResults' /\ Grows(O, P)
  <1>1. PICK P : P = [calls |-> calls, consts |-> ConstResults']
    OBVIOUS
  <1>2. P \in Oracles
    <2>1. calls \in UNION {[J -> Results] : J \in SUBSET Keys}
      OBVIOUS
    <2>2. PICK C : C = DecidedConsts'
      OBVIOUS
    <2>3. C \in SUBSET Consts /\ ConstResults' \in [C -> Results]
      BY <2>2, ConstResultsGrow DEF DecidedConsts
    <2>4. ConstResults' \in UNION {[J -> Results] : J \in SUBSET Consts}
      BY <2>3
    <2> QED
      BY <1>1, <2>1, <2>4 DEF Oracles
  <1>3. Grows(O, P)
    <2>1. \A k \in DOMAIN O.calls : k \in DOMAIN P.calls /\ P.calls[k] = O.calls[k]
      BY <1>1
    <2>2. O.consts = ConstResults /\ DOMAIN O.consts = DecidedConsts
      BY DEF Coherent, ConstResults
    <2>3. P.consts = ConstResults' /\ DOMAIN P.consts = DecidedConsts'
      BY <1>1 DEF ConstResults
    <2>4. \A c \in DOMAIN O.consts : c \in DOMAIN P.consts /\ P.consts[c] = O.consts[c]
      BY <2>2, <2>3, ConstResultsGrow
    <2> QED
      BY <2>1, <2>4 DEF Grows
  <1> QED
    BY <1>1, <1>2, <1>3

(* An oracle that knows no more calls, and one that has learnt one. *)
LEMMA FollowsSame ==
    ASSUME StackInv, MarkInv, Next, Acyclic', NEW O \in Oracles, Coherent(O)
    PROVE  \E P \in Oracles : Follows(O, P)
  <1>1. PICK K \in SUBSET Keys : O.calls \in [K -> Results]
    BY DEF Oracles
  <1>2. PICK P \in Oracles : P.calls = O.calls /\ P.consts = ConstResults' /\ Grows(O, P)
    BY <1>1, KnowledgeGrows
  <1>3. ASSUME NEW k \in Keys PROVE Explained(prog, P, k)
    <2>1. Explained(prog, O, k)
      BY DEF Coherent
    <2> QED
      BY <1>2, <2>1, CallGivesGrown DEF Explained
  <1> QED
    BY <1>2, <1>3 DEF Follows

LEMMA GivesOneThing ==
    ASSUME TypeInv, NEW O, Coherent(O), NEW k \in Keys, ~prog.rtArg[k], NEW r,
           CallGives(O, PreOf(prog, k), prog.block[prog.body[k]], prog.never[k], r), k \in DOMAIN O.calls
    PROVE  O.calls[k] = r
  <1>1. CallGives(O, PreOf(prog, k), prog.block[prog.body[k]], prog.never[k], O.calls[k])
    BY DEF Coherent, Explained
  <1>2. PreOf(prog, k) \in Seq(Statements) /\ prog.block[prog.body[k]] \in Seq(Statements)
    BY Program DEF PreOf, Code
  <1>3. Len(PreOf(prog, k)) \in Nat /\ Len(prog.block[prog.body[k]]) \in Nat
    BY <1>2
  <1> QED
    BY <1>1, <1>3, CallGivesOnce

LEMMA FollowsLearning ==
    ASSUME StackInv, MarkInv, Next, Acyclic', NEW O \in Oracles, Coherent(O), NEW k \in Keys,
           ~prog.rtArg[k], NEW r \in Results,
           CallGives(O, PreOf(prog, k), prog.block[prog.body[k]], prog.never[k], r)
    PROVE  \E P \in Oracles : Follows(O, P) /\ k \in DOMAIN P.calls /\ P.calls[k] = r
  <1>1. PICK K \in SUBSET Keys : O.calls \in [K -> Results]
    BY DEF Oracles
  <1>2. PICK calls : calls = [j \in K \cup {k} |-> IF j = k THEN r ELSE O.calls[j]]
    OBVIOUS
  <1>3. K \cup {k} \in SUBSET Keys /\ calls \in [K \cup {k} -> Results]
    BY <1>1, <1>2
  <1>4. k \in DOMAIN O.calls => O.calls[k] = r
    BY GivesOneThing DEF StackInv
  <1>5. \A j \in DOMAIN O.calls : j \in K \cup {k} /\ calls[j] = O.calls[j]
    BY <1>1, <1>2, <1>4
  <1>6. PICK P \in Oracles : P.calls = calls /\ P.consts = ConstResults' /\ Grows(O, P)
    BY <1>3, <1>5, KnowledgeGrows
  <1>7. k \in DOMAIN P.calls /\ P.calls[k] = r
    BY <1>2, <1>6
  <1>8. ASSUME NEW j \in Keys PROVE Explained(prog, P, j)
    <2>1. Explained(prog, O, j)
      BY DEF Coherent
    <2>2. CASE prog.rtArg[j]
      BY <1>6, <2>1, <2>2 DEF Explained, Grows
    <2>3. CASE ~prog.rtArg[j] /\ j \in DOMAIN O.calls
      <3>1. CallGives(P, PreOf(prog, j), prog.block[prog.body[j]], prog.never[j], O.calls[j])
        BY <1>6, <2>1, <2>3, CallGivesGrown DEF Explained
      <3> QED
        BY <1>6, <2>3, <3>1 DEF Explained, Grows
    <2>4. CASE ~prog.rtArg[j] /\ j \notin DOMAIN O.calls
      <3>1. j \in DOMAIN P.calls => j = k
        BY <1>1, <1>2, <1>6, <2>4
      <3>2. CallGives(P, PreOf(prog, k), prog.block[prog.body[k]], prog.never[k], r)
        BY <1>6, CallGivesGrown
      <3> QED
        BY <1>7, <2>4, <3>1, <3>2 DEF Explained
    <2> QED
      BY <2>2, <2>3, <2>4
  <1> QED
    BY <1>6, <1>7, <1>8 DEF Follows

(* The moves of the stack keep the replay. *)
CachesKnown(P) == \A k \in Keys : FoldKnown(prog, P, k, evaluated[k])
Replayed(P, f, e) == Tracked(f) => Entitled(prog, P, f) /\ Rests(prog, P, f, e)

LEMMA CoherentParts ==
    ASSUME NEW O, NEW P, Follows(O, P), prog' = prog, CachesKnown(P)',
           \A i \in 1 .. Depth_' : Tracked(frames'[i]) => Entitled(prog, P, frames'[i]),
           \A i \in 1 .. Depth_' - 1 : Tracked(frames'[i]) => Waiting(prog, P, frames'[i], frames'[i + 1]),
           Depth_' # 0 /\ Tracked(frames'[Depth_']) => Rests(prog, P, frames'[Depth_'], ending')
    PROVE  Coherent(P)'
  <1>1. PICK p : p = prog
    OBVIOUS
  <1>2. \A k \in Keys : Explained(p, P, k)
    BY <1>1 DEF Follows
  <1>3. P.consts = ConstResults'
    BY DEF Follows
  <1>4. \A k \in Keys : FoldKnown(p, P, k, evaluated'[k])
    BY <1>1 DEF CachesKnown
  <1> QED
    BY <1>1, <1>2, <1>3, <1>4 DEF Coherent

LEMMA SuspendedReplay ==
    ASSUME NEW O, Coherent(O), NEW P, Follows(O, P), NEW n \in Nat, n <= Depth_, Depth_ \in Nat, Suspended(n)
    PROVE  /\ \A i \in 1 .. n : Tracked(frames'[i]) => Entitled(prog, P, frames'[i])
           /\ \A i \in 1 .. n - 1 : Tracked(frames'[i]) => Waiting(prog, P, frames'[i], frames'[i + 1])
           /\ n > 0 /\ n < Depth_ /\ Tracked(frames'[n]) => Waiting(prog, P, frames'[n], frames[n + 1])
  <1>1. Grows(O, P)
    BY DEF Follows
  <1>2. ASSUME NEW i \in 1 .. n, Tracked(frames'[i]) PROVE Entitled(prog, P, frames'[i])
    <2>1. Alike(frames'[i], frames[i]) /\ i \in 1 .. Depth_
      BY DEF Suspended
    <2>2. Tracked(frames[i])
      BY <1>2, <2>1, ReplayAlike
    <2>3. Entitled(prog, P, frames[i])
      BY <1>1, <2>1, <2>2, ReplayGrown DEF Coherent
    <2> QED
      BY <2>1, <2>3, ReplayAlike
  <1>3. ASSUME NEW i \in 1 .. n, i < Depth_, Tracked(frames'[i]) PROVE Waiting(prog, P, frames'[i], frames[i + 1])
    <2>1. Alike(frames'[i], frames[i]) /\ i \in 1 .. Depth_ - 1
      BY <1>3 DEF Suspended
    <2>2. Tracked(frames[i])
      BY <1>3, <2>1, ReplayAlike
    <2>3. Waiting(prog, P, frames[i], frames[i + 1])
      BY <1>1, <2>1, <2>2, ReplayGrown DEF Coherent
    <2> QED
      BY <2>1, <2>3, ReplayAlike
  <1>4. ASSUME NEW i \in 1 .. n - 1, Tracked(frames'[i]) PROVE Waiting(prog, P, frames'[i], frames'[i + 1])
    <2>1. i \in 1 .. n /\ i < Depth_ /\ i + 1 \in 1 .. n
      OBVIOUS
    <2>2. Waiting(prog, P, frames'[i], frames[i + 1])
      BY <1>3, <1>4, <2>1
    <2>3. PICK g : g = frames'[i + 1] /\ Alike(g, frames[i + 1])
      BY <2>1 DEF Suspended
    <2>4. Waiting(prog, P, frames'[i], g)
      BY <2>2, <2>3, ReplayAlike
    <2> QED
      BY <2>3, <2>4
  <1>5. ASSUME n > 0, n < Depth_, Tracked(frames'[n]) PROVE Waiting(prog, P, frames'[n], frames[n + 1])
    BY <1>3, <1>5
  <1> QED
    BY <1>2, <1>4, <1>5

LEMMA ReplaceReplays ==
    ASSUME NEW O, Coherent(O), NEW P, Follows(O, P), prog' = prog, CachesKnown(P)',
           NEW f, Replaces(f), \A s : Awaits(prog, s, Top) => Awaits(prog, s, f), Replayed(P, f, ending')
    PROVE  Coherent(P)'
  <1>1. /\ Depth_ \in Nat \ {0} /\ Depth_' = Depth_ /\ Suspended(Depth_ - 1)
    BY DEF Replaces
  <1>2. PICK n \in Nat : n = Depth_ - 1 /\ n + 1 = Depth_ /\ n <= Depth_ /\ n < Depth_
    BY <1>1
  <1>3. PICK g : g = frames'[Depth_] /\ Alike(g, f)
    BY DEF Replaces
  <1>4. Suspended(n)
    BY <1>1, <1>2
  <1>5. /\ \A i \in 1 .. n : Tracked(frames'[i]) => Entitled(prog, P, frames'[i])
        /\ \A i \in 1 .. n - 1 : Tracked(frames'[i]) => Waiting(prog, P, frames'[i], frames'[i + 1])
        /\ n > 0 /\ Tracked(frames'[n]) => Waiting(prog, P, frames'[n], frames[n + 1])
    BY <1>1, <1>2, <1>4, SuspendedReplay
  <1>6. Tracked(g) => Entitled(prog, P, g) /\ Rests(prog, P, g, ending')
    BY <1>3, ReplayAlike DEF Replayed
  <1>7. ASSUME n > 0, Tracked(frames'[n]) PROVE Waiting(prog, P, frames'[n], g)
    <2>1. Waiting(prog, P, frames'[n], Top)
      BY <1>2, <1>5, <1>7 DEF Top, Depth_
    <2>2. \A s : Awaits(prog, s, Top) => Awaits(prog, s, g)
      BY <1>3, ReplayAlike
    <2> QED
      BY <2>1, <2>2 DEF Waiting
  <1>8. \A i \in 1 .. Depth_' : i \in 1 .. n \/ i = n + 1
    BY <1>1, <1>2
  <1>9. \A i \in 1 .. Depth_' - 1 : i \in 1 .. n - 1 \/ (i = n /\ n > 0)
    BY <1>1, <1>2
  <1>10. \A i \in 1 .. Depth_' : Tracked(frames'[i]) => Entitled(prog, P, frames'[i])
    BY <1>2, <1>3, <1>5, <1>6, <1>8
  <1>11. \A i \in 1 .. Depth_' - 1 : Tracked(frames'[i]) => Waiting(prog, P, frames'[i], frames'[i + 1])
    BY <1>2, <1>3, <1>5, <1>7, <1>9
  <1>12. Tracked(frames'[Depth_']) => Rests(prog, P, frames'[Depth_'], ending')
    BY <1>1, <1>3, <1>6
  <1> QED
    BY <1>10, <1>11, <1>12, CoherentParts

LEMMA StackReplays ==
    ASSUME NEW O, Coherent(O), NEW P, Follows(O, P), prog' = prog, CachesKnown(P)',
           NEW f, NEW g, Stacks(f, g), \A s : Awaits(prog, s, Top) => Awaits(prog, s, f),
           Tracked(f) => Entitled(prog, P, f) /\ Waiting(prog, P, f, g),
           Replayed(P, g, "none"), ending' = "none"
    PROVE  Coherent(P)'
  <1>1. /\ Depth_ \in Nat \ {0} /\ Depth_' = Depth_ + 1 /\ Suspended(Depth_ - 1) /\ frames'[Depth_ + 1] = g
    BY DEF Stacks
  <1>2. PICK n \in Nat : n = Depth_ - 1 /\ n + 1 = Depth_ /\ n <= Depth_ /\ n < Depth_
    BY <1>1
  <1>3. PICK h : h = frames'[Depth_] /\ Alike(h, f)
    BY DEF Stacks
  <1>4. Suspended(n)
    BY <1>1, <1>2
  <1>5. /\ \A i \in 1 .. n : Tracked(frames'[i]) => Entitled(prog, P, frames'[i])
        /\ \A i \in 1 .. n - 1 : Tracked(frames'[i]) => Waiting(prog, P, frames'[i], frames'[i + 1])
        /\ n > 0 /\ Tracked(frames'[n]) => Waiting(prog, P, frames'[n], frames[n + 1])
    BY <1>1, <1>2, <1>4, SuspendedReplay
  <1>6. Tracked(h) => Entitled(prog, P, h) /\ Waiting(prog, P, h, g)
    BY <1>3, ReplayAlike
  <1>7. ASSUME n > 0, Tracked(frames'[n]) PROVE Waiting(prog, P, frames'[n], h)
    <2>1. Waiting(prog, P, frames'[n], Top)
      BY <1>2, <1>5, <1>7 DEF Top, Depth_
    <2>2. \A s : Awaits(prog, s, Top) => Awaits(prog, s, h)
      BY <1>3, ReplayAlike
    <2> QED
      BY <2>1, <2>2 DEF Waiting
  <1>8. \A i \in 1 .. Depth_' : i \in 1 .. n \/ i = Depth_ \/ i = Depth_ + 1
    BY <1>1, <1>2
  <1>9. \A i \in 1 .. Depth_' - 1 : i \in 1 .. n - 1 \/ (i = n /\ n > 0) \/ i = Depth_
    BY <1>1, <1>2
  <1>10. \A i \in 1 .. Depth_' : Tracked(frames'[i]) => Entitled(prog, P, frames'[i])
    BY <1>1, <1>3, <1>5, <1>6, <1>8 DEF Replayed
  <1>11. \A i \in 1 .. Depth_' - 1 : Tracked(frames'[i]) => Waiting(prog, P, frames'[i], frames'[i + 1])
    BY <1>1, <1>2, <1>3, <1>5, <1>6, <1>7, <1>9
  <1>12. Tracked(frames'[Depth_']) => Rests(prog, P, frames'[Depth_'], ending')
    BY <1>1 DEF Replayed
  <1> QED
    BY <1>10, <1>11, <1>12, CoherentParts

LEMMA FirstReplays ==
    ASSUME NEW O, NEW P, Follows(O, P), prog' = prog, CachesKnown(P)', NEW f, frames' = <<f>>, ~Tracked(f)
    PROVE  Coherent(P)'
  <1>1. Depth_' = 1 /\ frames'[1] = f
    BY DEF Depth_
  <1> QED
    BY <1>1, CoherentParts

LEMMA PopReplays ==
    ASSUME TypeInv, NEW O, Coherent(O), NEW P, Follows(O, P), prog' = prog, CachesKnown(P)',
           NEW r \in Results, Pops(r),
           \A s : Awaits(prog, s, Top) => r.how = "quota" \/ (Knows(P, s) /\ Given(P, s) = r)
    PROVE  Coherent(P)'
  <1>1. Depth_ \in Nat \ {0} /\ Depth_' = Depth_ - 1 /\ Suspended(Depth_ - 2)
    BY DEF Pops
  <1>2. CASE Depth_ = 1
    <2>1. Depth_' = 0
      BY <1>1, <1>2
    <2> QED
      BY <2>1, CoherentParts
  <1>3. CASE Depth_ # 1
    <2>1. PICK n \in Nat \ {0} : n = Depth_ - 1 /\ n + 1 = Depth_ /\ n - 1 = Depth_ - 2 /\ n < Depth_
      BY <1>1, <1>3
    <2>2. PICK m \in Nat : m = n - 1 /\ m + 1 = n /\ m <= Depth_ /\ m < Depth_
      BY <2>1
    <2>3. PICK f : f = frames[n]
      OBVIOUS
    <2>4. PICK g : g = Receive(f, r)
      OBVIOUS
    <2>5. /\ frames'[n] = g /\ n \in 1 .. Depth_ /\ n \in 1 .. Depth_ - 1
          /\ ending' = IF r.how \in Divergences THEN r.how ELSE "none"
      BY <1>1, <1>3, <2>1, <2>3, <2>4 DEF Pops
    <2>6. f \in GoodFrames
      BY <2>3, <2>5, StackShape DEF Depth_
    <2>7. Suspended(m)
      BY <1>1, <2>1, <2>2
    <2>8. /\ \A i \in 1 .. m : Tracked(frames'[i]) => Entitled(prog, P, frames'[i])
          /\ \A i \in 1 .. m - 1 : Tracked(frames'[i]) => Waiting(prog, P, frames'[i], frames'[i + 1])
          /\ m > 0 /\ Tracked(frames'[m]) => Waiting(prog, P, frames'[m], frames[m + 1])
      BY <1>1, <2>2, <2>7, SuspendedReplay
    <2>9. /\ g.role = f.role /\ g.id = f.id /\ g.folding = f.folding /\ g.existing = f.existing
          /\ Tracked(g) = Tracked(f)
      BY <2>4, <2>6, AlikeParts DEF Tracked
    <2>10. ASSUME Tracked(g) PROVE Entitled(prog, P, g) /\ Rests(prog, P, g, ending')
      <3>1. Tracked(f) /\ Entitled(prog, O, f) /\ Waiting(prog, O, f, Top)
        BY <2>1, <2>3, <2>5, <2>9, <2>10 DEF Coherent, Top, Depth_
      <3>2. Grows(O, P)
        BY DEF Follows
      <3>3. Entitled(prog, P, f) /\ Waiting(prog, P, f, Top)
        BY <3>1, <3>2, ReplayGrown
      <3>4. Entitled(prog, P, g)
        BY <2>9, <3>3 DEF Entitled
      <3>5. CodeOf(prog, f) \in Seq(Statements)
        <4>1. f.id \in Keys
          BY <2>6, <3>1 DEF GoodFrames, Tracked
        <4> QED
          BY <4>1, Program DEF CodeOf, PreOf, Code
      <3>6. CASE r.how = "quota"
        BY <2>5, <3>4, <3>6 DEF Rests, Divergences
      <3>7. CASE r.how # "quota"
        <4>1. \A s : Awaits(prog, s, Top) => Knows(P, s) /\ Given(P, s) = r
          BY <3>7
        <4>2. PICK e : e = ending'
          OBVIOUS
        <4>3. Rests(prog, P, g, e)
          BY <2>4, <2>5, <2>6, <3>3, <3>5, <4>1, <4>2, Resumes
        <4> QED
          BY <3>4, <4>2, <4>3
      <3> QED
        BY <3>6, <3>7
    <2>11. ASSUME m > 0, Tracked(frames'[m]) PROVE Waiting(prog, P, frames'[m], g)
      <3>1. Waiting(prog, P, frames'[m], f)
        BY <2>2, <2>3, <2>8, <2>11
      <3>2. \A s : Awaits(prog, s, f) => Awaits(prog, s, g)
        BY <2>9 DEF Awaits
      <3> QED
        BY <3>1, <3>2 DEF Waiting
    <2>12. \A i \in 1 .. Depth_' : i \in 1 .. m \/ i = n
      BY <1>1, <2>1, <2>2
    <2>13. \A i \in 1 .. Depth_' - 1 : i \in 1 .. m - 1 \/ (i = m /\ m > 0)
      BY <1>1, <2>1, <2>2
    <2>14. \A i \in 1 .. Depth_' : Tracked(frames'[i]) => Entitled(prog, P, frames'[i])
      BY <2>5, <2>8, <2>10, <2>12
    <2>15. \A i \in 1 .. Depth_' - 1 : Tracked(frames'[i]) => Waiting(prog, P, frames'[i], frames'[i + 1])
      BY <2>2, <2>5, <2>8, <2>11, <2>13
    <2>16. Tracked(frames'[Depth_']) => Rests(prog, P, frames'[Depth_'], ending')
      BY <1>1, <2>1, <2>5, <2>10
    <2> QED
      BY <2>14, <2>15, <2>16, CoherentParts
  <1> QED
    BY <1>2, <1>3

LEMMA CachesStayKnown ==
    ASSUME TypeInv, NEW O, Coherent(O), NEW P, Follows(O, P), prog' = prog
    PROVE  /\ evaluated' = evaluated => CachesKnown(P)'
           /\ \A k \in Keys : \A e : evaluated' = [evaluated EXCEPT ![k] = e] /\ FoldKnown(prog, P, k, e)
                                 => CachesKnown(P)'
  <1>1. Grows(O, P) /\ \A k \in Keys : FoldKnown(prog, O, k, evaluated[k])
    BY DEF Follows, Coherent
  <1>2. \A k \in Keys : FoldKnown(prog, P, k, evaluated[k])
    BY <1>1, ReplayGrown
  <1>3. ASSUME \A k \in Keys : FoldKnown(prog, P, k, evaluated'[k]) PROVE CachesKnown(P)'
    <2>1. PICK p : p = prog
      OBVIOUS
    <2> QED
      BY <1>3, <2>1 DEF CachesKnown
  <1>4. ASSUME NEW k \in Keys, NEW e, evaluated' = [evaluated EXCEPT ![k] = e], FoldKnown(prog, P, k, e)
        PROVE  CachesKnown(P)'
    <2>1. \A j \in Keys : evaluated'[j] = IF j = k THEN e ELSE evaluated[j]
      BY <1>4 DEF TypeInv, TypeOK
    <2> QED
      BY <1>2, <1>3, <1>4, <2>1
  <1> QED
    BY <1>2, <1>3, <1>4

(* What the running frame, if a comptime callee, has been replayed to. *)
LEMMA TopReplayed ==
    ASSUME TypeInv, frames # <<>>, Tracked(Top)
    PROVE  /\ Top.id \in Keys /\ Comptime(Top) /\ CodeOf(prog, Top) \in Seq(Statements)
           /\ \A O : Coherent(O) => Entitled(prog, O, Top) /\ Rests(prog, O, Top, ending)
  <1>1. Depth_ \in Nat \ {0} /\ Top = frames[Depth_]
    BY StackShape DEF Depth_
  <1>2. Top.id \in Keys /\ Comptime(Top)
    BY Running DEF Tracked, Comptime
  <1>3. CodeOf(prog, Top) \in Seq(Statements)
    BY <1>2, Program DEF CodeOf, PreOf, Code
  <1>4. ASSUME NEW O, Coherent(O) PROVE Entitled(prog, O, Top) /\ Rests(prog, O, Top, ending)
    <2>1. Depth_ \in 1 .. Depth_
      BY <1>1
    <2> QED
      BY <1>1, <1>4, <2>1 DEF Coherent
  <1> QED
    BY <1>2, <1>3, <1>4

(* A statement that is done within the running frame. *)
LEMMA StatementReplays ==
    ASSUME TypeInv, NEW O, Coherent(O), NEW P, Follows(O, P), prog' = prog, evaluated' = evaluated,
           frames # <<>>, ending = "none", Top.code # <<>>, NEW s, s = Head(Top.code),
           NEW f \in GoodFrames, Replaces(f), SameJob(f, Top), f.folding = Top.folding,
           f.existing = Top.existing, ending' \in {"none", "value"} \cup Divergences,
           Tracked(Top) => \/ ending' = "quota"
                           \/ /\ Knows(P, s) /\ (ending' = "none" => f.code = Tail(Top.code))
                              /\ State(f, ending') = After(P, s, State(Top, "none"))
    PROVE  Coherent(P)'
  <1>1. CachesKnown(P)'
    BY CachesStayKnown
  <1>2. \A x : Awaits(prog, x, Top) => Awaits(prog, x, f)
    BY DEF Awaits, SameJob, Tracked
  <1>3. ASSUME Tracked(f) PROVE Entitled(prog, P, f) /\ Rests(prog, P, f, ending')
    <2>1. Tracked(Top)
      BY <1>3 DEF Tracked, SameJob
    <2>2. Grows(O, P) /\ Entitled(prog, O, Top) /\ Underway(prog, O, Top)
      BY <2>1, TopReplayed DEF Follows, Rests
    <2>3. Entitled(prog, P, Top) /\ Underway(prog, P, Top)
      BY <2>2, ReplayGrown
    <2>4. Entitled(prog, P, f)
      BY <2>3 DEF Entitled, SameJob
    <2>5. PICK e : e = ending'
      OBVIOUS
    <2>6. PICK t : t = Top
      OBVIOUS
    <2>7. CASE e = "quota"
      BY <2>4, <2>5, <2>7 DEF Rests
    <2>8. CASE e # "quota"
      <3>1. State(f, e) \in Progress
        BY <2>5 DEF State, Progress, GoodFrames, Frames
      <3>2. /\ Knows(P, s) /\ (e = "none" => f.code = Tail(t.code))
            /\ State(f, e) = After(P, s, State(t, "none"))
        BY <2>1, <2>5, <2>6, <2>8
      <3>3. CodeOf(prog, t) \in Seq(Statements) /\ f.role = t.role /\ f.id = t.id
        BY <2>1, <2>6, TopReplayed DEF SameJob
      <3>4. Underway(prog, P, t) /\ t.code # <<>> /\ s = Head(t.code)
        BY <2>3, <2>6
      <3>5. Rests(prog, P, f, e)
        BY <3>1, <3>2, <3>3, <3>4, StepsOn
      <3> QED
        BY <2>4, <2>5, <3>5
    <2> QED
      BY <2>7, <2>8
  <1> QED
    BY <1>1, <1>2, <1>3, ReplaceReplays DEF Replayed

LEMMA StatementsReplay ==
    ASSUME TypeInv, TaintInv, NEW O, Coherent(O), NEW P, Follows(O, P),
           ChargeBranch \/ RaiseQuota \/ BindPoison \/ CompileError \/ Stop \/ ReturnStmt
           \/ Match \/ RuntimeWhile
    PROVE  Coherent(P)'
  <1>1. /\ frames # <<>> /\ Top \in GoodFrames /\ ending = "none" /\ Top.code # <<>>
        /\ prog' = prog /\ evaluated' = evaluated
    BY TopIsGood DEF ChargeBranch, RaiseQuota, BindPoison, CompileError, Stop, ReturnStmt, Match,
           RuntimeWhile, At, Ready, caches
  <1>2. PICK s : s = Head(Top.code)
    OBVIOUS
  <1>3. PICK g : g = Advance(Top)
    OBVIOUS
  <1>4. /\ g \in GoodFrames /\ SameJob(g, Top) /\ g.folding = Top.folding /\ g.existing = Top.existing
        /\ g.code = Tail(Top.code) /\ g.acc = Top.acc /\ g.bad = Top.bad
    BY <1>1, <1>3, AdvanceIsGood, AlikeParts DEF SameJob
  <1>5. ASSUME frames' = frames, ending' \in Divergences, Tracked(Top),
               ending' = "quota" \/ (Knows(P, s) /\ State(Top, ending') = After(P, s, State(Top, "none")))
        PROVE  Coherent(P)'
    <2>1. Replaces(Top) /\ SameJob(Top, Top)
      BY <1>1, <1>5, SameReplaces DEF SameJob
    <2>2. ending' \in {"none", "value"} \cup Divergences /\ ending' # "none"
      BY <1>5 DEF Divergences
    <2> QED
      BY <1>1, <1>2, <1>5, <2>1, <2>2, StatementReplays
  <1>6. ASSUME NEW f, Replaces(f), SameJob(f, Top), ~Tracked(Top) PROVE Coherent(P)'
    <2>1. ~Tracked(f) /\ CachesKnown(P)'
      BY <1>1, <1>6, CachesStayKnown DEF Tracked, SameJob
    <2>2. \A x : Awaits(prog, x, Top) => Awaits(prog, x, f)
      BY <1>6 DEF Awaits, SameJob
    <2> QED
      BY <1>1, <1>6, <2>1, <2>2, ReplaceReplays DEF Replayed
  <1>7. CASE ~Tracked(Top)
    BY <1>6, <1>7, StatementsReplace
  <1>8. ASSUME NEW f \in GoodFrames, frames' = WithTop(f), ending' = "none", Alike(f, g), s.op \in {"branch", "raise"}
        PROVE  Coherent(P)'
    <2>1. SameJob(f, Top) /\ f.folding = Top.folding /\ f.existing = Top.existing /\ f.code = Tail(Top.code)
      BY <1>4, <1>8 DEF Alike, SameJob
    <2>2. State(f, "none") = State(Top, "none")
      BY <1>4, <1>8 DEF Alike, State
    <2>3. Knows(P, s) /\ After(P, s, State(Top, "none")) = State(Top, "none")
      BY <1>8 DEF Knows, After
    <2>4. Replaces(f)
      BY <1>1, <1>8, WithTopReplaces
    <2> QED
      BY <1>1, <1>2, <1>8, <2>1, <2>2, <2>3, <2>4, StatementReplays
  <1>9. CASE Tracked(Top) /\ ChargeBranch
    <2>1. CASE CanSpend(Top, 1)
      <3>1. PICK f : f = [g EXCEPT !.spent = g.spent + 1]
        OBVIOUS
      <3>2. frames' = WithTop(f) /\ ending' = "none" /\ s.op = "branch"
        BY <1>1, <1>2, <1>3, <1>9, <2>1, <3>1 DEF ChargeBranch, At
      <3>3. Alike(f, g) /\ f \in GoodFrames
        <4>1. g.spent = Top.spent /\ g.limit = Top.limit
          BY <1>1, <1>3, SameAccountFrames
        <4>2. f \in GoodFrames
          BY <1>4, <2>1, <3>1, <4>1, SpendIsGood DEF CanSpend
        <4> QED
          BY <1>4, <3>1, <4>2, AlikeParts
      <3> QED
        BY <1>8, <3>2, <3>3
    <2>2. CASE ~CanSpend(Top, 1)
      BY <1>5, <1>9, <2>2 DEF ChargeBranch, Divergences
    <2> QED
      BY <2>1, <2>2
  <1>10. CASE Tracked(Top) /\ RaiseQuota
    <2>1. PICK n \in Nat : n = s.limit
      BY <1>1, <1>2, <1>10, StatementAtTop DEF RaiseQuota, At
    <2>2. PICK f : f = SetMaxQuota(g, n)
      OBVIOUS
    <2>3. frames' = WithTop(f) /\ ending' = "none" /\ s.op = "raise"
      BY <1>1, <1>2, <1>3, <1>10, <2>1, <2>2 DEF RaiseQuota, At
    <2>4. Alike(f, g) /\ f \in GoodFrames
      BY <1>4, <2>1, <2>2, AlikeParts, SetMaxQuotaIsGood
    <2> QED
      BY <1>8, <2>3, <2>4
  <1>11. CASE Tracked(Top) /\ BindPoison
    <2>1. PICK f : f = Receive(g, Gives("poison"))
      OBVIOUS
    <2>2. frames' = WithTop(f) /\ ending' = "none" /\ s.op = "oops"
      BY <1>1, <1>2, <1>3, <1>11, <2>1 DEF BindPoison, At
    <2>3. f \in GoodFrames
      BY <1>4, <2>1, ReceiveIsGood, ResultTypes
    <2>4. /\ SameJob(f, Top) /\ f.folding = Top.folding /\ f.existing = Top.existing
          /\ f.code = Tail(Top.code)
      BY <1>4, <2>1, AlikeParts DEF SameJob
    <2>5. Knows(P, s) /\ State(f, "none") = After(P, s, State(Top, "none"))
      <3>1. PICK r : r = Gives("poison")
        OBVIOUS
      <3>2. f.acc = (Top.acc + r.val) % ValueMod /\ f.bad = (Top.bad \/ r.how = "poison") /\ r.how = "poison"
        <4>1. f = Receive(g, r)
          BY <2>1, <3>1
        <4>2. f.acc = (g.acc + r.val) % ValueMod /\ f.bad = (g.bad \/ r.how = "poison")
          BY <1>4, <4>1, AlikeParts
        <4>3. g.acc = Top.acc /\ g.bad = Top.bad
          BY <1>4
        <4>4. r.how = "poison"
          BY <3>1 DEF Gives
        <4> QED
          BY <4>2, <4>3, <4>4
      <3>3. Knows(P, s) /\ Given(P, s) = r
        BY <2>2, <3>1 DEF Knows, Given
      <3> QED
        BY <2>2, <3>1, <3>2, <3>3 DEF State, After, Receives, Divergences
    <2>6. Replaces(f)
      BY <1>1, <2>2, WithTopReplaces
    <2> QED
      BY <1>1, <1>2, <2>2, <2>3, <2>4, <2>5, <2>6, StatementReplays
  <1>12. CASE Tracked(Top) /\ (CompileError \/ Stop \/ Match \/ RuntimeWhile)
    <2>1. Comptime(Top)
      BY <1>1, <1>12, TopReplayed
    <2>2. frames' = frames /\ ending' = "poisoned" /\ s.op \in {"fail", "stop", "match", "while"}
      BY <1>2, <1>12, <2>1 DEF CompileError, Stop, Match, RuntimeWhile, EnterArms, At
    <2>3. Knows(P, s) /\ State(Top, "poisoned") = After(P, s, State(Top, "none"))
      BY <2>2 DEF Knows, State, After
    <2> QED
      BY <1>5, <1>12, <2>2, <2>3 DEF Divergences
  <1>13. CASE Tracked(Top) /\ ReturnStmt
    <2>1. Comptime(Top) /\ s.op = "ret" /\ Knows(P, s)
      BY <1>1, <1>2, <1>13, TopReplayed DEF ReturnStmt, At, Knows
    <2>2. CASE s.dep /\ Top.bad
      <3>1. frames' = frames /\ ending' = "poisoned"
        BY <1>2, <1>13, <2>2 DEF ReturnStmt
      <3>2. State(Top, "poisoned") = After(P, s, State(Top, "none"))
        BY <2>1, <2>2 DEF State, After, Returns
      <3> QED
        BY <1>5, <1>13, <2>1, <3>1, <3>2 DEF Divergences
    <2>3. CASE ~(s.dep /\ Top.bad)
      <3>1. PICK v : v = IF s.dep THEN (Top.acc + s.val) % ValueMod ELSE s.val
        OBVIOUS
      <3>2. PICK f : f = [Top EXCEPT !.acc = v]
        OBVIOUS
      <3>3. frames' = WithTop(f) /\ ending' = "value"
        BY <1>2, <1>13, <2>1, <2>3, <3>1, <3>2 DEF ReturnStmt
      <3>4. v \in Values
        <4>1. s.val \in Values /\ s.dep \in BOOLEAN /\ Top.acc \in Values
          BY <1>1, <1>2, <2>1, StatementAtTop, Running
        <4> QED
          BY <3>1, <4>1, BoundsAssumption DEF Values
      <3>5. /\ f \in GoodFrames /\ SameJob(f, Top) /\ f.folding = Top.folding
            /\ f.existing = Top.existing /\ f.acc = v /\ f.bad = Top.bad
        BY <1>1, <3>2, <3>4 DEF GoodFrames, Frames, SameJob
      <3>6. State(f, "value") = After(P, s, State(Top, "none"))
        BY <2>1, <2>3, <3>1, <3>5 DEF State, After, Returns
      <3>7. Replaces(f)
        BY <1>1, <3>3, WithTopReplaces
      <3> QED
        BY <1>1, <1>2, <2>1, <3>3, <3>5, <3>6, <3>7, StatementReplays
    <2> QED
      BY <2>2, <2>3
  <1> QED
    BY <1>7, <1>9, <1>10, <1>11, <1>12, <1>13

LEMMA ArmsReplay ==
    ASSUME TypeInv, TaintInv, NEW O, Coherent(O), NEW P, Follows(O, P), NextArm
    PROVE  Coherent(P)'
  <1>1. frames # <<>> /\ prog' = prog /\ evaluated' = evaluated /\ Top.arms # <<>>
    BY DEF NextArm, BlockOver, Ready, caches
  <1>2. ~Tracked(Top)
    <2>1. Clean(Top, Excuses)
      BY <1>1, StackShape DEF TaintInv, StackClean, Depth_
    <2> QED
      BY <1>1, <2>1 DEF Clean, Tracked, Comptime
  <1>3. PICK f : Replaces(f) /\ SameJob(f, Top)
    BY StatementsReplace
  <1>4. ~Tracked(f) /\ CachesKnown(P)' /\ \A x : Awaits(prog, x, Top) => Awaits(prog, x, f)
    BY <1>1, <1>2, <1>3, CachesStayKnown DEF Tracked, SameJob, Awaits
  <1> QED
    BY <1>1, <1>3, <1>4, ReplaceReplays DEF Replayed

(* What a known const gives the statement that reads it. *)
LEMMA ConstGives ==
    ASSUME NEW O, NEW P, Follows(O, P), NEW c \in DecidedConsts', NEW s, s.op = "const", s.id = c,
           NEW r, r = (IF consts'[c] = "value" THEN Yields(0) ELSE Gives("poison"))
    PROVE  Knows(P, s) /\ Given(P, s) = r
  <1>1. PICK C : C = DecidedConsts'
    OBVIOUS
  <1>2. P.consts = [d \in C |-> IF consts'[d] = "value" THEN Yields(0) ELSE Gives("poison")]
    BY <1>1 DEF Follows, ConstResults
  <1>3. c \in DOMAIN P.consts /\ P.consts[c] = r
    BY <1>1, <1>2
  <1> QED
    BY <1>3 DEF Knows, Given

LEMMA EvaluateReplays ==
    ASSUME TypeInv, MarkInv, TaintInv, Acyclic', NEW O, Coherent(O), NEW P, Follows(O, P),
           StartEntry \/ StartConst \/ ReadConst \/ FinishConst \/ FinishConstDiverged \/ FinishEntry
    PROVE  Coherent(P)'
  <1>1. prog' = prog /\ evaluated' = evaluated
    BY DEF StartEntry, StartConst, ReadConst, FinishConst, FinishConstDiverged, FinishEntry, caches
  <1>2. CachesKnown(P)'
    BY <1>1, CachesStayKnown
  <1>3. CASE StartEntry
    <2>1. PICK f : frames' = <<f>> /\ f = NewFrame("entry", Head(entriesLeft), NoFn, FALSE, DefaultQuota,
                                                   prog.block[Head(entriesLeft)])
      BY <1>3 DEF StartEntry
    <2>2. ~Tracked(f)
      BY <2>1 DEF Tracked, NewFrame
    <2> QED
      BY <1>1, <1>2, <2>1, <2>2, FirstReplays
  <1>4. CASE StartConst
    <2>1. CASE frames' = frames
      <3>1. Depth_' = 0
        BY <1>4, <2>1 DEF StartConst, Depth_
      <3> QED
        BY <1>1, <1>2, <3>1, CoherentParts
    <2>2. CASE \E c : frames' = <<ConstFrame(c)>>
      <3>1. PICK c : frames' = <<ConstFrame(c)>>
        BY <2>2
      <3>2. PICK f : f = ConstFrame(c)
        OBVIOUS
      <3>3. ~Tracked(f)
        BY <3>2 DEF Tracked, ConstFrame, NewFrame
      <3> QED
        BY <1>1, <1>2, <3>1, <3>2, <3>3, FirstReplays
    <2> QED
      BY <1>4, <2>1, <2>2 DEF StartConst
  <1>5. CASE ReadConst
    <2>1. PICK s : s = Head(Top.code)
      OBVIOUS
    <2>2. PICK c : c = s.id
      OBVIOUS
    <2>3. /\ frames # <<>> /\ Top.code # <<>> /\ c \in Consts /\ Top \in GoodFrames /\ ending = "none"
          /\ s.op = "const" /\ ending' = "none"
      BY <1>5, <2>1, <2>2, StatementAtTop, TopIsGood DEF ReadConst, At, Ready
    <2>4. PICK g : g = Advance(Top)
      OBVIOUS
    <2>5. /\ g \in GoodFrames /\ SameJob(g, Top) /\ g.folding = Top.folding /\ g.existing = Top.existing
          /\ g.code = Tail(Top.code) /\ g.acc = Top.acc /\ g.bad = Top.bad
      BY <2>3, <2>4, AdvanceIsGood, AlikeParts DEF SameJob
    <2>6. CASE consts[c] = "vacant" /\ Stacks(g, ConstFrame(c))
      <3>1. PICK h : h = ConstFrame(c)
        OBVIOUS
      <3>2. h.role = "const" /\ h.id = c
        BY <3>1 DEF ConstFrame, NewFrame
      <3>3. Awaits(prog, s, h) /\ ~Tracked(h)
        BY <2>2, <2>3, <3>2 DEF Awaits, Tracked
      <3>4. \A x : Awaits(prog, x, Top) => Awaits(prog, x, g)
        BY <2>5 DEF Awaits, SameJob, Tracked
      <3>5. ASSUME Tracked(g) PROVE Entitled(prog, P, g) /\ Waiting(prog, P, g, h)
        <4>1. PICK t : t = Top /\ Tracked(t)
          BY <2>5, <3>5 DEF Tracked, SameJob
        <4>2. /\ Entitled(prog, O, t) /\ Rests(prog, O, t, ending) /\ Grows(O, P)
              /\ CodeOf(prog, t) \in Seq(Statements)
          BY <2>3, <4>1, TopReplayed DEF Follows
        <4>3. Entitled(prog, P, t) /\ Underway(prog, P, t)
          BY <2>3, <4>2, ReplayGrown DEF Rests
        <4>4. Waiting(prog, P, g, h)
          BY <2>1, <2>3, <2>5, <3>3, <4>1, <4>2, <4>3, WaitsFor DEF SameJob
        <4> QED
          BY <2>5, <4>1, <4>3, <4>4 DEF Entitled, SameJob
      <3> QED
        BY <1>1, <1>2, <2>3, <2>6, <3>1, <3>3, <3>4, <3>5, StackReplays DEF Replayed
    <2>7. CASE Emit("constCycle")
      BY <2>7, EmitEmitted DEF Acyclic
    <2>8. CASE /\ consts[c] \notin {"vacant", "inProgress"} /\ consts' = consts
               /\ Replaces(Receive(g, IF consts[c] = "value" THEN Yields(0) ELSE Gives("poison")))
      <3>1. PICK r : r = IF consts[c] = "value" THEN Yields(0) ELSE Gives("poison")
        OBVIOUS
      <3>2. r \in Results /\ r.how \notin Divergences
        BY <3>1, ResultTypes DEF Yields, Gives, Divergences
      <3>3. PICK f : f = Receive(g, r)
        OBVIOUS
      <3>4. /\ f \in GoodFrames /\ SameJob(f, Top) /\ f.folding = Top.folding /\ f.existing = Top.existing
            /\ f.code = Tail(Top.code)
        <4>1. f \in GoodFrames
          BY <2>5, <3>2, <3>3, ReceiveIsGood
        <4>2. f.role = g.role /\ f.id = g.id /\ f.folding = g.folding /\ f.existing = g.existing /\ f.code = g.code
          BY <2>5, <3>3, ReceiveParts
        <4> QED
          BY <2>5, <4>1, <4>2 DEF SameJob
      <3>5. Knows(P, s) /\ Given(P, s) = r
        <4>1. c \in DecidedConsts' /\ r = IF consts'[c] = "value" THEN Yields(0) ELSE Gives("poison")
          BY <2>3, <2>8, <3>1 DEF DecidedConsts
        <4> QED
          BY <2>2, <2>3, <4>1, ConstGives
      <3>6. State(f, "none") = After(P, s, State(Top, "none"))
        <4>1. f.acc = (Top.acc + r.val) % ValueMod /\ f.bad = (Top.bad \/ r.how = "poison")
          BY <2>5, <3>3, AlikeParts
        <4> QED
          BY <2>3, <3>2, <3>5, <4>1 DEF State, After, Receives
      <3> QED
        BY <1>1, <2>1, <2>3, <2>8, <3>1, <3>3, <3>4, <3>5, <3>6, StatementReplays
    <2> QED
      BY <1>5, <2>1, <2>2, <2>4, <2>6, <2>7, <2>8, ReadConstMovesStack
  <1>6. ASSUME NEW r \in Results, Return(r), frames # <<>>, Top.role = "const",
               Top.id \in DecidedConsts' /\ r = IF consts'[Top.id] = "value" THEN Yields(0) ELSE Gives("poison")
        PROVE  Coherent(P)'
    <2>1. ASSUME NEW s, Awaits(prog, s, Top) PROVE Knows(P, s) /\ Given(P, s) = r
      <3>1. s.op = "const" /\ s.id = Top.id
        BY <1>6, <2>1 DEF Awaits, Tracked
      <3>2. PICK c \in DecidedConsts' : c = Top.id
        BY <1>6
      <3> QED
        BY <1>6, <3>1, <3>2, ConstGives
    <2> QED
      BY <1>1, <1>2, <1>6, <2>1, ReturnPops, PopReplays
  <1>7. CASE FinishConst
    <2>1. /\ frames # <<>> /\ Top.role = "const" /\ Top.id \in Consts /\ Top.bad \in BOOLEAN
          /\ consts \in [Consts -> ConstStates]
      BY <1>7, Running DEF FinishConst, Ended, BlockOver, Ready, TypeInv, TypeOK
    <2>2. PICK v : v = IF consts[Top.id] = "poison" \/ Top.bad THEN "poison" ELSE "value"
      OBVIOUS
    <2>3. consts'[Top.id] = v /\ errors' = errors
      BY <1>7, <2>1, <2>2 DEF FinishConst
    <2>4. consts[Top.id] # "poison"
      <3>1. Depth_ \in 1 .. Depth_ /\ Top = frames[Depth_]
        BY <2>1, StackShape DEF Depth_
      <3>2. consts[Top.id] = "poison" => Emitted("constCycle")
        BY <2>1, <3>1 DEF MarkInv, Entries, EntryState, Mark
      <3> QED
        BY <2>3, <3>2 DEF Acyclic, Emitted
    <2>5. PICK r : r = IF Top.bad THEN Gives("poison") ELSE Yields(0)
      OBVIOUS
    <2>6. r \in Results /\ Return(r)
      BY <1>7, <2>5, ResultTypes DEF FinishConst
    <2>7. Top.id \in DecidedConsts' /\ r = IF consts'[Top.id] = "value" THEN Yields(0) ELSE Gives("poison")
      BY <2>1, <2>2, <2>3, <2>4, <2>5 DEF DecidedConsts
    <2> QED
      BY <1>6, <2>1, <2>6, <2>7
  <1>8. CASE FinishConstDiverged
    <2>1. /\ frames # <<>> /\ Top.role = "const" /\ Top.id \in Consts /\ consts \in [Consts -> ConstStates]
      BY <1>8, Running DEF FinishConstDiverged, Ended, BlockOver, Ready, TypeInv, TypeOK
    <2>2. consts'[Top.id] \in {"poison", "quotaExhausted"}
      BY <1>8, <2>1 DEF FinishConstDiverged
    <2>3. PICK r : r = Gives("poison")
      OBVIOUS
    <2>4. r \in Results /\ Return(r)
      BY <1>8, <2>3, ResultTypes DEF FinishConstDiverged
    <2>5. Top.id \in DecidedConsts' /\ r = IF consts'[Top.id] = "value" THEN Yields(0) ELSE Gives("poison")
      BY <2>1, <2>2, <2>3 DEF DecidedConsts
    <2> QED
      BY <1>6, <2>1, <2>4, <2>5
  <1>9. CASE FinishEntry
    <2>1. frames # <<>> /\ Top.role = "entry"
      BY <1>9 DEF FinishEntry, Ended, BlockOver, Ready
    <2>2. PICK r : r = Gives("poison")
      OBVIOUS
    <2>3. r \in Results /\ Return(r)
      BY <1>9, <2>2, ResultTypes DEF FinishEntry
    <2>4. \A s : ~Awaits(prog, s, Top)
      BY <2>1 DEF Awaits, Tracked
    <2> QED
      BY <1>1, <1>2, <2>1, <2>3, <2>4, ReturnPops, PopReplays
  <1> QED
    BY <1>3, <1>4, <1>5, <1>7, <1>8, <1>9

(* What a call that passes a runtime argument gives is known. *)
LEMMA RejectedCalls ==
    ASSUME NEW P, NEW s, s.op = "call", s.key \in Keys, prog.rtArg[s.key], Explained(prog, P, s.key)
    PROVE  Knows(P, s) /\ Given(P, s) = Gives("poison")
  BY DEF Explained, Knows, Given

LEMMA CallReplays ==
    ASSUME TypeInv, NEW O, Coherent(O), NEW P, Follows(O, P), Call
    PROVE  Coherent(P)'
  <1>1. /\ frames # <<>> /\ Top \in GoodFrames /\ ending = "none" /\ Top.code # <<>>
        /\ prog' = prog /\ evaluated' = evaluated
    BY TopIsGood DEF Call, At, Ready, caches
  <1>2. PICK s : s = Head(Top.code)
    OBVIOUS
  <1>3. PICK g : g = Advance(Top)
    OBVIOUS
  <1>4. /\ g \in GoodFrames /\ SameJob(g, Top) /\ g.folding = Top.folding /\ g.existing = Top.existing
        /\ g.code = Tail(Top.code) /\ g.acc = Top.acc /\ g.bad = Top.bad
    BY <1>1, <1>3, AdvanceIsGood, AlikeParts DEF SameJob
  <1>5. s.op = "call" /\ s.key \in Keys
    BY <1>1, <1>2, StatementAtTop DEF Call, At
  <1>6. CachesKnown(P)'
    BY <1>1, CachesStayKnown
  <1>7. CASE Rejects(s) /\ Replaces(Receive(g, Gives("poison"))) /\ ending' = ending
    <2>1. PICK r : r = Gives("poison")
      OBVIOUS
    <2>2. PICK f : f = Receive(g, r)
      OBVIOUS
    <2>3. f \in GoodFrames
      BY <1>4, <2>1, <2>2, ReceiveIsGood, ResultTypes
    <2>4. /\ SameJob(f, Top) /\ f.folding = Top.folding /\ f.existing = Top.existing
          /\ f.code = Tail(Top.code)
      BY <1>4, <2>2, AlikeParts DEF SameJob
    <2>5. f.acc = (Top.acc + r.val) % ValueMod /\ f.bad = (Top.bad \/ r.how = "poison")
      BY <1>4, <2>2, AlikeParts
    <2>6. Knows(P, s) /\ Given(P, s) = r
      <3>1. prog.rtArg[s.key] /\ Explained(prog, P, s.key)
        BY <1>5, <1>7 DEF Rejects, Follows
      <3> QED
        BY <1>5, <2>1, <3>1, RejectedCalls
    <2>7. r.how = "poison"
      BY <2>1 DEF Gives
    <2>8. State(f, "none") = After(P, s, State(Top, "none"))
      BY <1>5, <2>5, <2>6, <2>7 DEF State, After, Receives, Divergences
    <2>9. Replaces(f) /\ ending' = "none"
      BY <1>1, <1>7, <2>1, <2>2
    <2> QED
      BY <1>1, <1>2, <2>3, <2>4, <2>6, <2>8, <2>9, StatementReplays
  <1>8. CASE Replaces(Top) /\ ending' = "quota"
    <2>1. SameJob(Top, Top)
      BY DEF SameJob
    <2>2. ending' \in {"none", "value"} \cup Divergences
      BY <1>8 DEF Divergences
    <2> QED
      BY <1>1, <1>2, <1>8, <2>1, <2>2, StatementReplays
  <1>9. CASE ~Rejects(s) /\ Stacks(g, CalleeFrame(s)) /\ ending' = ending
    <2>1. PICK h : h = CalleeFrame(s)
      OBVIOUS
    <2>2. /\ h.role = "preamble" /\ h.id = s.key /\ h.code = PreOf(prog, s.key) /\ h.acc = 0 /\ h.bad = FALSE
          /\ h.folding = (Comptime(Top) \/ s.ct \/ prog.folds[s.key])
      BY <2>1 DEF CalleeFrame, NewFrame, PreOf
    <2>3. Replayed(P, h, "none")
      <3>1. Entitled(prog, P, h)
        BY <2>2 DEF Entitled
      <3>2. CodeOf(prog, h) = PreOf(prog, s.key) /\ CodeOf(prog, h) \in Seq(Statements)
        BY <1>5, <2>2, Program DEF CodeOf, PreOf, Code
      <3> QED
        BY <2>2, <3>1, <3>2, StartsOff DEF Replayed
    <2>4. \A x : Awaits(prog, x, Top) => Awaits(prog, x, g)
      BY <1>4 DEF Awaits, SameJob, Tracked
    <2>5. ASSUME Tracked(g) PROVE Entitled(prog, P, g) /\ Waiting(prog, P, g, h)
      <3>1. PICK t : t = Top /\ Tracked(t)
        BY <1>4, <2>5 DEF Tracked, SameJob
      <3>2. /\ Entitled(prog, O, t) /\ Rests(prog, O, t, ending) /\ Grows(O, P) /\ Comptime(t)
            /\ CodeOf(prog, t) \in Seq(Statements)
        BY <1>1, <3>1, TopReplayed DEF Follows
      <3>3. Entitled(prog, P, t) /\ Underway(prog, P, t)
        BY <1>1, <3>2, ReplayGrown DEF Rests
      <3>4. Awaits(prog, s, h)
        BY <1>5, <1>9, <2>2, <3>1, <3>2 DEF Awaits, Tracked, Rejects
      <3>5. Waiting(prog, P, g, h)
        BY <1>1, <1>2, <1>4, <3>1, <3>2, <3>3, <3>4, WaitsFor DEF SameJob
      <3> QED
        BY <1>4, <3>1, <3>3, <3>5 DEF Entitled, SameJob
    <2>6. Stacks(g, h) /\ ending' = "none"
      BY <1>1, <1>9, <2>1
    <2> QED
      BY <1>1, <1>6, <2>3, <2>4, <2>5, <2>6, StackReplays
  <1> QED
    BY <1>2, <1>3, <1>7, <1>8, <1>9, CallMovesStack

-----------------------------------------------------------------------------
(* What the end of a preamble and of a body says of the call. *)
LEMMA TopEnds ==
    ASSUME TypeInv, TaintInv, NEW O, Coherent(O), BlockOver, Tracked(Top), ending # "quota"
    PROVE  State(Top, ending) \in Progress /\ EndsIn(O, CodeOf(prog, Top), State(Top, ending))
  <1>1. frames # <<>> /\ (ending = "none" => Top.code = <<>>)
    BY DEF BlockOver, Ready
  <1>2. CodeOf(prog, Top) \in Seq(Statements) /\ Rests(prog, O, Top, ending)
    BY <1>1, TopReplayed
  <1>3. Top.acc \in Values /\ Top.bad \in BOOLEAN /\ ending \in {"none", "value"} \cup Divergences
    BY <1>1, Running DEF TypeInv, TypeOK
  <1>4. State(Top, ending) \in Progress
    BY <1>3 DEF State, Progress
  <1>5. PICK p : p = prog
    OBVIOUS
  <1>6. PICK f : f = Top
    OBVIOUS
  <1>7. EndsIn(O, CodeOf(p, f), State(f, ending))
    BY <1>1, <1>2, <1>5, <1>6, CodeEnds
  <1> QED
    BY <1>4, <1>5, <1>6, <1>7

CallOf(O, k, r) == CallGives(O, PreOf(prog, k), prog.block[prog.body[k]], prog.never[k], r)

LEMMA PreambleFailed ==
    ASSUME TypeInv, TaintInv, NEW O, Coherent(O), Ended("preamble"), ending # "quota",
           ending # "none" \/ Top.bad
    PROVE  CallOf(O, Top.id, Gives("poison"))
  <1>1. Top.role = "preamble" /\ BlockOver
    BY DEF Ended
  <1>2. PICK u \in Progress : u = State(Top, ending) /\ EndsIn(O, PreOf(prog, Top.id), u)
    BY <1>1, TopEnds DEF Tracked, CodeOf
  <1>3. Failed(u)
    BY <1>2 DEF Failed, State
  <1> QED
    BY <1>2, <1>3 DEF CallOf, CallGives

LEMMA BodyEnded ==
    ASSUME TypeInv, TaintInv, NEW O, Coherent(O), Ended("fold"), ending \notin {"quota", "none"}
    PROVE  ~prog.rtArg[Top.id] /\ CallOf(O, Top.id, BodyGives(prog.never[Top.id], State(Top, ending)))
  <1>1. Top.role = "fold" /\ BlockOver /\ frames # <<>>
    BY DEF Ended, BlockOver, Ready
  <1>2. PICK b \in Progress : b = State(Top, ending) /\ EndsIn(O, prog.block[prog.body[Top.id]], b)
    BY <1>1, TopEnds DEF Tracked, CodeOf
  <1>3. b.end # "none"
    BY <1>2 DEF State
  <1>4. Entitled(prog, O, Top)
    BY <1>1, TopReplayed DEF Tracked
  <1>5. PICK u \in Progress : EndsIn(O, PreOf(prog, Top.id), u) /\ ~Failed(u)
    BY <1>1, <1>4 DEF Entitled
  <1> QED
    BY <1>1, <1>2, <1>3, <1>4, <1>5 DEF CallOf, CallGives, Entitled

(* The innermost frame pops and what its call gives is learnt. *)
LEMMA Concludes ==
    ASSUME StackInv, MarkInv, Next, Acyclic', NEW O \in Oracles, Coherent(O), prog' = prog,
           frames # <<>>, Tracked(Top), NEW r \in Results, Return(r),
           ~prog.rtArg[Top.id] => CallOf(O, Top.id, r),
           NEW e, evaluated' = evaluated \/ evaluated' = [evaluated EXCEPT ![Top.id] = e],
           evaluated' # evaluated =>
              /\ e.st = "done" => ~prog.rtArg[Top.id] /\ r = OutcomeResult(e.outcome)
              /\ e.st = "poison" /\ ~prog.rtArg[Top.id] => r = Gives("poison") /\ ~prog.never[Top.id]
    PROVE  \E P \in Oracles : Coherent(P)'
  <1>1. PICK k \in Keys : k = Top.id
    BY TopReplayed DEF StackInv
  <1>2. Pops(r)
    BY ReturnPops DEF StackInv
  <1>3. \A s : Awaits(prog, s, Top) => s.op = "call" /\ s.key = k /\ ~prog.rtArg[k]
    BY <1>1 DEF Awaits, Tracked
  <1>4. ASSUME NEW P \in Oracles, Follows(O, P), ~prog.rtArg[k] => k \in DOMAIN P.calls /\ P.calls[k] = r
        PROVE  \E Q \in Oracles : Coherent(Q)'
    <2>1. evaluated' # evaluated => FoldKnown(prog, P, k, e)
      BY <1>1, <1>4 DEF FoldKnown
    <2>2. CachesKnown(P)'
      BY <1>1, <1>4, <2>1, CachesStayKnown DEF StackInv
    <2>3. \A s : Awaits(prog, s, Top) => Knows(P, s) /\ Given(P, s) = r
      BY <1>3, <1>4 DEF Knows, Given
    <2> QED
      BY <1>2, <1>4, <2>2, <2>3, PopReplays DEF StackInv
  <1>5. CASE prog.rtArg[k]
    BY <1>4, <1>5, FollowsSame
  <1>6. CASE ~prog.rtArg[k]
    <2>1. \E P \in Oracles : Follows(O, P) /\ k \in DOMAIN P.calls /\ P.calls[k] = r
      BY <1>1, <1>6, FollowsLearning DEF CallOf
    <2> QED
      BY <1>4, <2>1
  <1> QED
    BY <1>5, <1>6

LEMMA PreambleReplays ==
    ASSUME StackInv, MarkInv, TaintInv, Next, Acyclic', NEW O \in Oracles, Coherent(O), PreambleFails
    PROVE  \E P \in Oracles : Coherent(P)'
  <1>1. /\ TypeInv /\ frames # <<>> /\ Tracked(Top) /\ prog' = prog /\ evaluated' = evaluated
        /\ Ended("preamble") /\ ending # "none"
    BY DEF PreambleFails, Ended, BlockOver, Ready, Tracked, caches, StackInv
  <1>2. CASE ending = "quota"
    <2>1. PICK r \in Results : r = Gives("quota")
      BY ResultTypes DEF Divergences
    <2>2. Pops(r) /\ r.how = "quota"
      BY <1>1, <1>2, <2>1, ReturnPops DEF PreambleFails, Gives
    <2>3. PICK P \in Oracles : Follows(O, P)
      BY FollowsSame
    <2>4. CachesKnown(P)'
      BY <1>1, <2>3, CachesStayKnown
    <2> QED
      BY <1>1, <2>2, <2>3, <2>4, PopReplays
  <1>3. CASE ending # "quota"
    <2>1. PICK r \in Results : r = Gives("poison")
      BY ResultTypes
    <2>2. Return(r)
      BY <1>3, <2>1 DEF PreambleFails
    <2>3. CallOf(O, Top.id, r)
      BY <1>1, <1>3, <2>1, PreambleFailed
    <2> QED
      BY <1>1, <2>2, <2>3, Concludes
  <1> QED
    BY <1>2, <1>3

(* A call whose result is known. *)
LEMMA KnownCall ==
    ASSUME NEW O, NEW k \in Keys, Coherent(O), ~prog.rtArg[k], k \in DOMAIN O.calls
    PROVE  CallOf(O, k, O.calls[k])
  BY DEF Coherent, Explained, CallOf

LEMMA CachedReplays ==
    ASSUME StackInv, MarkInv, TaintInv, Next, Acyclic', NEW O \in Oracles, Coherent(O),
           FoldWithoutBody \/ FoldRejected
    PROVE  \E P \in Oracles : Coherent(P)'
  <1>1. /\ TypeInv /\ frames # <<>> /\ Tracked(Top) /\ prog' = prog
        /\ Ended("preamble") /\ ending = "none"
    BY DEF FoldWithoutBody, FoldRejected, CalleeReady, Ended, BlockOver, Ready, Tracked, StackInv
  <1>2. PICK k \in Keys : k = Top.id
    BY <1>1, TopReplayed
  <1>3. FoldKnown(prog, O, k, evaluated[k])
    BY DEF Coherent
  <1>4. ASSUME Top.bad, Return(Gives("poison")), evaluated' = evaluated
        PROVE  \E P \in Oracles : Coherent(P)'
    <2>1. PICK r \in Results : r = Gives("poison")
      BY ResultTypes
    <2>2. CallOf(O, Top.id, r)
      BY <1>1, <1>4, <2>1, PreambleFailed
    <2> QED
      BY <1>1, <1>4, <2>1, <2>2, Concludes
  <1>5. ASSUME NEW e \in CallResults, e = evaluated[k], Return(OutcomeResult(e.outcome)), evaluated' = evaluated
        PROVE  \E P \in Oracles : Coherent(P)'
    <2>1. PICK r \in Results : r = OutcomeResult(e.outcome)
      <3>1. e.outcome \in Outcomes
        BY DEF CallResults
      <3> QED
        BY <3>1, CallResultTypes
    <2>2. ~prog.rtArg[k] /\ k \in DOMAIN O.calls /\ O.calls[k] = r
      BY <1>3, <1>5, <2>1 DEF FoldKnown, CallResults
    <2>3. CallOf(O, Top.id, r)
      BY <1>2, <2>2, KnownCall
    <2> QED
      BY <1>1, <1>5, <2>1, <2>3, Concludes
  <1>6. ASSUME evaluated[k].st = "poison", Return(Suppressed(k, FALSE)), evaluated' = evaluated
        PROVE  \E P \in Oracles : Coherent(P)'
    <2>1. PICK r \in Results : r = Suppressed(k, FALSE)
      BY ResultTypes DEF Suppressed, Divergences
    <2>2. ASSUME ~prog.rtArg[k] PROVE CallOf(O, Top.id, r)
      <3>1. k \in DOMAIN O.calls /\ O.calls[k] = Gives("poison") /\ ~prog.never[k]
        BY <1>3, <1>6, <2>2 DEF FoldKnown
      <3>2. r = O.calls[k]
        BY <2>1, <3>1 DEF Suppressed, Never
      <3> QED
        BY <1>2, <2>2, <3>1, <3>2, KnownCall
    <2> QED
      BY <1>1, <1>2, <1>6, <2>1, <2>2, Concludes
  <1>7. ASSUME prog.rtArg[k], Return(Gives("poison")), evaluated' = [evaluated EXCEPT ![k] = Poison]
        PROVE  \E P \in Oracles : Coherent(P)'
    <2>1. PICK r \in Results : r = Gives("poison")
      BY ResultTypes
    <2>2. Poison.st = "poison"
      BY DEF Poison
    <2> QED
      BY <1>1, <1>2, <1>7, <2>1, <2>2, Concludes
  <1>8. CASE FoldRejected
    BY <1>2, <1>7, <1>8 DEF FoldRejected
  <1>9. CASE FoldWithoutBody
    <2>1. ~Emit("comptimeRecursion")
      BY EmitEmitted DEF Acyclic
    <2>2. evaluated[k] \in EvaluatedStates
      BY <1>1 DEF TypeInv, TypeOK
    <2>3. evaluated[k].st = "done" => evaluated[k] \in CallResults
      BY <2>2 DEF EvaluatedStates, Empty, InProgress, Poison
    <2>4. CASE Top.bad
      BY <1>4, <1>9, <2>4 DEF FoldWithoutBody
    <2>5. CASE Replayable(evaluated[k], Top) /\ ~Top.bad
      <3>1. evaluated[k].st = "done"
        BY <2>5 DEF Replayable
      <3>2. evaluated[k].st # "poison"
        BY <3>1
      <3>3. Return(OutcomeResult(evaluated[k].outcome)) /\ evaluated' = evaluated
        BY <1>2, <1>9, <2>1, <2>5, <3>2 DEF FoldWithoutBody
      <3> QED
        BY <1>5, <2>3, <3>1, <3>3
    <2>6. CASE evaluated[k].st = "poison" /\ ~Top.bad
      <3>1. ~Replayable(evaluated[k], Top)
        BY <2>6 DEF Replayable
      <3>2. Return(Suppressed(k, FALSE)) /\ evaluated' = evaluated
        BY <1>2, <1>9, <2>1, <2>6, <3>1 DEF FoldWithoutBody
      <3> QED
        BY <1>6, <2>6, <3>2
    <2> QED
      BY <1>2, <1>9, <2>1, <2>4, <2>5, <2>6 DEF FoldWithoutBody
  <1> QED
    BY <1>8, <1>9

LEMMA BeginReplays ==
    ASSUME StackInv, MarkInv, TaintInv, Next, Acyclic', NEW O \in Oracles, Coherent(O), FoldBegin
    PROVE  \E P \in Oracles : Coherent(P)'
  <1>1. /\ TypeInv /\ frames # <<>> /\ Tracked(Top) /\ prog' = prog /\ Top.role = "preamble"
        /\ ending = "none" /\ ending' = "none" /\ ~Top.bad /\ Top.folding /\ BlockOver
    BY DEF FoldBegin, CalleeReady, MustEvaluate, Ended, BlockOver, Ready, Tracked, StackInv
  <1>2. PICK k \in Keys : k = Top.id
    BY <1>1, TopReplayed
  <1>3. PICK x : x = evaluated[k]
    OBVIOUS
  <1>4. FoldKnown(prog, O, k, x) /\ ~prog.rtArg[k]
    BY <1>2, <1>3 DEF Coherent, FoldBegin
  <1>5. PICK f : f = [Top EXCEPT !.role = "fold", !.existing = evaluated[Top.id], !.before = Top.spent,
                                 !.acc = 0, !.code = prog.block[prog.body[Top.id]]]
    OBVIOUS
  <1>6. /\ f.role = "fold" /\ f.id = k /\ f.existing = x /\ f.acc = 0 /\ f.bad = FALSE
        /\ f.code = prog.block[prog.body[k]] /\ f.folding = Top.folding
    <2>1. Top \in Frames /\ Top.bad \in BOOLEAN
      BY <1>1, TopIsGood DEF Frames
    <2> QED
      BY <1>1, <1>2, <1>3, <1>5, <2>1 DEF Frames
  <1>7. frames' = WithTop(f) /\ evaluated' = [evaluated EXCEPT ![k] = InProgress]
    BY <1>2, <1>5 DEF FoldBegin
  <1>8. PICK P \in Oracles : Follows(O, P)
    BY FollowsSame
  <1>9. CachesKnown(P)'
    <2>1. PICK e : e = InProgress
      OBVIOUS
    <2>2. FoldKnown(prog, P, k, e)
      BY <2>1 DEF FoldKnown, InProgress
    <2> QED
      BY <1>1, <1>7, <1>8, <2>1, <2>2, CachesStayKnown
  <1>10. \A s : Awaits(prog, s, Top) => Awaits(prog, s, f)
    BY <1>1, <1>2, <1>6 DEF Awaits, Tracked
  <1>11. Entitled(prog, P, f)
    <2>1. PICK u \in Progress : u = State(Top, ending) /\ EndsIn(O, PreOf(prog, k), u)
      BY <1>1, <1>2, TopEnds DEF CodeOf
    <2>2. ~Failed(u)
      BY <1>1, <2>1 DEF Failed, State
    <2>3. EndsIn(P, PreOf(prog, k), u)
      BY <1>8, <2>1, EndsInGrown DEF Follows
    <2>4. x.st = "done" => k \in DOMAIN P.calls /\ P.calls[k] = OutcomeResult(x.outcome)
      BY <1>4, <1>8 DEF FoldKnown, Follows, Grows
    <2> QED
      BY <1>4, <1>6, <2>2, <2>3, <2>4 DEF Entitled
  <1>12. Rests(prog, P, f, "none")
    <2>1. CodeOf(prog, f) = f.code /\ CodeOf(prog, f) \in Seq(Statements)
      BY <1>1, <1>6, Program DEF CodeOf, Code
    <2> QED
      BY <1>6, <2>1, StartsOff
  <1>13. Replayed(P, f, ending')
    BY <1>1, <1>11, <1>12 DEF Replayed
  <1>14. Replaces(f)
    BY <1>1, <1>7, WithTopReplaces
  <1> QED
    BY <1>1, <1>8, <1>9, <1>10, <1>13, <1>14, ReplaceReplays

(* What a body ends in, as the cache and the caller see it. *)
LEMMA BodyOutcome ==
    ASSUME TypeInv, Ended("fold"), ending \in {"value", "end", "poisoned"}
    PROVE  IF BodyPoisoned THEN BodyGives(prog.never[Top.id], State(Top, ending)) = Gives("poison")
           ELSE /\ FoldOutcome \in Outcomes
                /\ BodyGives(prog.never[Top.id], State(Top, ending)) = OutcomeResult(FoldOutcome)
  <1>1. Top.acc \in Values
    BY Running DEF Ended, BlockOver, Ready
  <1>2. State(Top, ending).end = ending /\ State(Top, ending).acc = Top.acc
    BY DEF State
  <1>3. CASE BodyPoisoned
    BY <1>2, <1>3 DEF BodyPoisoned, BodyGives
  <1>4. CASE ~BodyPoisoned /\ ending = "value"
    BY <1>1, <1>2, <1>4 DEF BodyGives, FoldOutcome, OutcomeResult, Value, Outcomes
  <1>5. CASE ~BodyPoisoned /\ ending # "value"
    BY <1>1, <1>2, <1>5 DEF BodyPoisoned, BodyGives, FoldOutcome, OutcomeResult, DivergedEnd, Outcomes
  <1> QED
    BY <1>3, <1>4, <1>5

LEMMA OutcomesDiffer ==
    /\ \A o \in Outcomes : OutcomeResult(o) # Gives("poison")
    /\ \A o \in Outcomes : \A q \in Outcomes : OutcomeResult(o) = OutcomeResult(q) => o = q
  <1>1. \A o \in Outcomes : IF o.end THEN o = DivergedEnd ELSE o = Value(o.val)
    BY DEF Outcomes, DivergedEnd, Value
  <1>2. ASSUME NEW o \in Outcomes PROVE o.end \in BOOLEAN
    <2>1. CASE o = DivergedEnd
      BY <2>1 DEF DivergedEnd
    <2>2. CASE \E v \in Values : o = Value(v)
      BY <2>2 DEF Value
    <2> QED
      BY <2>1, <2>2 DEF Outcomes
  <1>3. \A o \in Outcomes : OutcomeResult(o).how = IF o.end THEN "end" ELSE "value"
    BY <1>2 DEF OutcomeResult, Yields, Gives
  <1>4. \A o \in Outcomes : ~o.end => OutcomeResult(o).val = o.val
    BY DEF OutcomeResult, Yields
  <1>5. Gives("poison").how = "poison"
    BY DEF Gives
  <1>6. \A o \in Outcomes : OutcomeResult(o) # Gives("poison")
    <2>1. ASSUME NEW o \in Outcomes, OutcomeResult(o) = Gives("poison") PROVE FALSE
      BY <1>3, <1>5, <2>1
    <2> QED
      BY <2>1
  <1>7. ASSUME NEW o \in Outcomes, NEW q \in Outcomes, OutcomeResult(o) = OutcomeResult(q) PROVE o = q
    <2>1. o.end = q.end
      BY <1>2, <1>3, <1>7
    <2>2. CASE o.end
      BY <1>1, <2>1, <2>2
    <2>3. CASE ~o.end
      <3>1. o.val = q.val
        BY <1>4, <1>7, <2>1, <2>3
      <3> QED
        BY <1>1, <2>1, <2>3, <3>1
    <2> QED
      BY <2>2, <2>3
  <1> QED
    BY <1>6, <1>7

(* A body that is evaluated again gives what it gave. *)
LEMMA AgainTheSame ==
    ASSUME StackInv, TaintInv, NEW O, Coherent(O), Ended("fold"), ending \in {"value", "end", "poisoned"},
           Top.existing # Empty
    PROVE  ~BodyPoisoned /\ Top.existing.outcome = FoldOutcome
  <1>1. TypeInv /\ frames # <<>> /\ Top.role = "fold"
    BY DEF StackInv, Ended, BlockOver, Ready
  <1>2. PICK k \in Keys : k = Top.id
    BY <1>1, TopReplayed DEF Tracked
  <1>3. PICK x \in CallResults : x = Top.existing
    BY <1>1, Running
  <1>4. x.st = "done" /\ x.outcome \in Outcomes
    BY DEF CallResults
  <1>5. Entitled(prog, O, Top)
    BY <1>1, TopReplayed DEF Tracked
  <1>6. ~prog.rtArg[k] /\ k \in DOMAIN O.calls /\ O.calls[k] = OutcomeResult(x.outcome)
    BY <1>1, <1>2, <1>3, <1>4, <1>5 DEF Entitled
  <1>7. PICK r : r = BodyGives(prog.never[k], State(Top, ending))
    OBVIOUS
  <1>8. CallOf(O, k, r)
    <2>1. ending \notin {"quota", "none"}
      OBVIOUS
    <2> QED
      BY <1>1, <1>2, <1>7, <2>1, BodyEnded
  <1>9. O.calls[k] = r
    BY <1>1, <1>6, <1>8, GivesOneThing DEF CallOf
  <1>10. IF BodyPoisoned THEN r = Gives("poison") ELSE FoldOutcome \in Outcomes /\ r = OutcomeResult(FoldOutcome)
    BY <1>1, <1>2, <1>7, BodyOutcome
  <1>11. ~BodyPoisoned
    BY <1>4, <1>6, <1>9, <1>10, OutcomesDiffer
  <1>12. x.outcome = FoldOutcome
    BY <1>4, <1>6, <1>9, <1>10, <1>11, OutcomesDiffer
  <1> QED
    BY <1>3, <1>11, <1>12

LEMMA BodyReplays ==
    ASSUME StackInv, MarkInv, TaintInv, Next, Acyclic', NEW O \in Oracles, Coherent(O),
           FoldExhausted \/ FoldPoisons \/ FoldDone
    PROVE  \E P \in Oracles : Coherent(P)'
  <1>1. /\ TypeInv /\ frames # <<>> /\ Top.role = "fold" /\ Tracked(Top) /\ prog' = prog /\ Ended("fold")
    BY DEF FoldExhausted, FoldPoisons, FoldDone, Ended, BlockOver, Ready, Tracked, StackInv
  <1>2. PICK k \in Keys : k = Top.id
    BY <1>1, TopReplayed
  <1>3. CASE FoldExhausted
    <2>1. PICK r \in Results : r = Gives("quota")
      BY ResultTypes DEF Divergences
    <2>2. Pops(r) /\ r.how = "quota"
      BY <1>1, <1>3, <2>1, ReturnPops DEF FoldExhausted, Gives
    <2>3. PICK P \in Oracles : Follows(O, P)
      BY FollowsSame
    <2>4. PICK x : x = Top.existing
      OBVIOUS
    <2>5. x.st # "poison"
      <3>1. x \in {Empty} \cup CallResults
        BY <1>1, <2>4, Running
      <3> QED
        BY <3>1 DEF Empty, CallResults
    <2>6. FoldKnown(prog, P, k, x)
      <3>1. Entitled(prog, O, Top) /\ Grows(O, P)
        BY <1>1, <2>3, TopReplayed DEF Follows
      <3>2. Entitled(prog, P, Top)
        BY <3>1, ReplayGrown
      <3> QED
        BY <1>1, <1>2, <2>4, <2>5, <3>2 DEF Entitled, FoldKnown
    <2>7. evaluated' = [evaluated EXCEPT ![k] = x]
      BY <1>2, <1>3, <2>4 DEF FoldExhausted, AfterExhaustion
    <2>8. CachesKnown(P)'
      BY <1>1, <2>3, <2>6, <2>7, CachesStayKnown
    <2> QED
      BY <1>1, <2>2, <2>3, <2>8, PopReplays
  <1>4. ASSUME ending \in {"value", "end", "poisoned"}
        PROVE  CallOf(O, Top.id, BodyGives(prog.never[k], State(Top, ending))) /\ ~prog.rtArg[k]
    <2>1. ending \notin {"quota", "none"}
      BY <1>4
    <2> QED
      BY <1>1, <1>2, <2>1, BodyEnded
  <1>5. CASE FoldPoisons
    <2>1. PICK r \in Results : r = Gives("poison")
      BY ResultTypes
    <2>2. BodyPoisoned /\ ending = "poisoned" /\ ~prog.never[k]
      BY <1>2, <1>5 DEF FoldPoisons, BodyPoisoned
    <2>3. r = BodyGives(prog.never[k], State(Top, ending))
      BY <1>1, <1>2, <2>1, <2>2, BodyOutcome
    <2>4. CallOf(O, Top.id, r)
      BY <1>4, <2>2, <2>3
    <2>5. PICK e : e = Poison
      OBVIOUS
    <2>6. e.st # "done"
      BY <2>5 DEF Poison
    <2>7. evaluated' = [evaluated EXCEPT ![Top.id] = e] /\ Return(r)
      BY <1>5, <2>1, <2>5 DEF FoldPoisons
    <2> QED
      BY <1>1, <1>2, <2>1, <2>2, <2>4, <2>6, <2>7, Concludes
  <1>6. CASE FoldDone
    <2>1. ending \in {"value", "end", "poisoned"} /\ ~BodyPoisoned
      BY <1>6 DEF FoldDone
    <2>2. PICK o \in Outcomes : o = FoldOutcome /\ BodyGives(prog.never[k], State(Top, ending)) = OutcomeResult(o)
      BY <1>1, <1>2, <2>1, BodyOutcome
    <2>3. PICK r \in Results : r = OutcomeResult(o)
      BY CallResultTypes
    <2>4. CallOf(O, Top.id, r) /\ ~prog.rtArg[k]
      BY <1>4, <2>1, <2>2, <2>3
    <2>5. PICK e : e = CallResult(o, BranchesConsumed, Top.seen)
      OBVIOUS
    <2>6. e.st = "done" /\ e.outcome = o
      BY <2>5 DEF CallResult
    <2>7. evaluated' = [evaluated EXCEPT ![Top.id] = e] /\ Return(r)
      BY <1>6, <2>2, <2>3, <2>5 DEF FoldDone
    <2> QED
      BY <1>1, <1>2, <2>3, <2>4, <2>6, <2>7, Concludes
  <1> QED
    BY <1>3, <1>5, <1>6

LEMMA LowerReplays ==
    ASSUME StackInv, MarkInv, Next, Acyclic', NEW O \in Oracles, Coherent(O),
           LowerWithoutBody \/ LowerBegin \/ LowerExhausted \/ LowerDone
    PROVE  \E P \in Oracles : Coherent(P)'
  <1>1. /\ TypeInv /\ frames # <<>> /\ prog' = prog /\ evaluated' = evaluated
        /\ Top.role = "lower" \/ (Top.role = "preamble" /\ ~Top.folding)
    BY DEF LowerWithoutBody, LowerBegin, LowerExhausted, LowerDone, CalleeReady, Ended, BlockOver, Ready,
           StackInv
  <1>2. \A s : ~Awaits(prog, s, Top)
    BY <1>1 DEF Awaits, Tracked
  <1>3. PICK P \in Oracles : Follows(O, P)
    BY FollowsSame
  <1>4. CachesKnown(P)'
    BY <1>1, <1>3, CachesStayKnown
  <1>5. ASSUME NEW r \in Results, Return(r) PROVE Coherent(P)'
    BY <1>1, <1>2, <1>3, <1>4, <1>5, ReturnPops, PopReplays
  <1>6. CASE LowerBegin
    <2>1. PICK f : f = [Top EXCEPT !.role = "lower", !.code = prog.block[prog.body[Top.id]],
                                   !.acc = 0, !.bad = FALSE, !.badType = Top.bad]
      OBVIOUS
    <2>2. f.role = "lower"
      BY <1>1, <2>1, TopIsGood DEF Frames
    <2>3. ~Tracked(f) /\ Replaces(f)
      BY <1>1, <1>6, <2>1, <2>2, WithTopReplaces DEF Tracked, LowerBegin
    <2> QED
      BY <1>1, <1>2, <1>3, <1>4, <2>3, ReplaceReplays DEF Replayed
  <1>7. CASE LowerWithoutBody \/ LowerExhausted \/ LowerDone
    <2>1. \E r \in Results : Return(r)
      BY <1>7, ResultTypes, CallResultTypes DEF LowerWithoutBody, LowerExhausted, LowerDone, Divergences
    <2> QED
      BY <1>3, <1>5, <2>1
  <1> QED
    BY <1>6, <1>7

(* After every step there is an oracle that explains the state. *)
LEMMA ReplayInvStep ==
    ASSUME StackInv, MarkInv, TaintInv, Next, Acyclic', NEW O \in Oracles, Coherent(O)
    PROVE  \E P \in Oracles : Coherent(P)'
  <1>1. TypeInv
    BY DEF StackInv
  <1>2. ASSUME NEW P \in Oracles, Follows(O, P),
               \/ StartEntry \/ StartConst \/ ReadConst \/ FinishConst \/ FinishConstDiverged \/ FinishEntry
               \/ ChargeBranch \/ RaiseQuota \/ BindPoison \/ CompileError \/ Stop \/ ReturnStmt
               \/ Match \/ RuntimeWhile \/ NextArm \/ Call
        PROVE  Coherent(P)'
    <2>1. CASE StartEntry \/ StartConst \/ ReadConst \/ FinishConst \/ FinishConstDiverged \/ FinishEntry
      BY <1>1, <1>2, <2>1, EvaluateReplays
    <2>2. CASE ChargeBranch \/ RaiseQuota \/ BindPoison \/ CompileError \/ Stop \/ ReturnStmt
               \/ Match \/ RuntimeWhile
      BY <1>1, <1>2, <2>2, StatementsReplay
    <2>3. CASE NextArm
      BY <1>1, <1>2, <2>3, ArmsReplay
    <2>4. CASE Call
      BY <1>1, <1>2, <2>4, CallReplays
    <2> QED
      BY <1>2, <2>1, <2>2, <2>3, <2>4
  <1>3. \E P \in Oracles : Follows(O, P)
    BY FollowsSame
  <1>4. CASE FoldPanics \/ LowerPanics
    <2>1. /\ prog' = prog /\ frames' = frames /\ ending' = ending /\ evaluated' = evaluated
          /\ consts' = consts
      BY <1>4 DEF FoldPanics, LowerPanics, caches
    <2>2. Depth_' = Depth_ /\ ConstResults' = ConstResults
      BY <2>1 DEF Depth_, ConstResults, DecidedConsts
    <2>3. PICK p : p = prog
      OBVIOUS
    <2>4. Coherent(O)'
      BY <2>1, <2>2, <2>3 DEF Coherent
    <2> QED
      BY <2>4
  <1>5. CASE PreambleFails
    BY <1>5, PreambleReplays
  <1>6. CASE FoldWithoutBody \/ FoldRejected
    BY <1>6, CachedReplays
  <1>7. CASE FoldBegin
    BY <1>7, BeginReplays
  <1>8. CASE FoldExhausted \/ FoldPoisons \/ FoldDone
    BY <1>8, BodyReplays
  <1>9. CASE LowerWithoutBody \/ LowerBegin \/ LowerExhausted \/ LowerDone
    BY <1>9, LowerReplays
  <1> QED
    BY <1>2, <1>3, <1>4, <1>5, <1>6, <1>7, <1>8, <1>9 DEF Next

LEMMA ReplayInvStable == StackInv /\ MarkInv /\ TaintInv /\ ReplayInv /\ [Next]_vars => ReplayInv'
  <1> SUFFICES ASSUME StackInv, MarkInv, TaintInv, ReplayInv, [Next]_vars, Acyclic'
               PROVE  \E P \in Oracles : Coherent(P)'
    BY DEF ReplayInv
  <1>1. Acyclic
    BY ErrorsGrow DEF Acyclic, Emitted
  <1>2. PICK O \in Oracles : Coherent(O)
    BY <1>1 DEF ReplayInv
  <1>3. CASE Next
    BY <1>2, <1>3, ReplayInvStep
  <1>4. CASE UNCHANGED vars
    <2>1. /\ prog' = prog /\ frames' = frames /\ ending' = ending /\ evaluated' = evaluated
          /\ consts' = consts
      BY <1>4 DEF vars, caches
    <2>2. Depth_' = Depth_ /\ ConstResults' = ConstResults
      BY <2>1 DEF Depth_, ConstResults, DecidedConsts
    <2>3. PICK p : p = prog
      OBVIOUS
    <2>4. Coherent(O)'
      BY <1>2, <2>1, <2>2, <2>3 DEF Coherent
    <2> QED
      BY <2>4
  <1> QED
    BY <1>3, <1>4

LEMMA InitReplayInv == Init => ReplayInv
  <1> SUFFICES ASSUME Init PROVE \E O \in Oracles : Coherent(O)
    BY DEF ReplayInv
  <1>1. PICK K \in SUBSET Keys : K = {k \in Keys : prog.rtArg[k]}
    OBVIOUS
  <1>2. PICK C \in SUBSET Consts : C = DecidedConsts
    BY DEF DecidedConsts
  <1>3. PICK calls : calls = [k \in K |-> Gives("poison")]
    OBVIOUS
  <1>4. PICK O : O = [calls |-> calls, consts |-> ConstResults]
    OBVIOUS
  <1>5. calls \in [K -> Results] /\ ConstResults \in [C -> Results]
    BY <1>2, <1>3, ResultTypes DEF ConstResults
  <1>6. O \in Oracles
    <2>1. calls \in UNION {[J -> Results] : J \in SUBSET Keys}
      BY <1>5
    <2>2. ConstResults \in UNION {[J -> Results] : J \in SUBSET Consts}
      BY <1>5
    <2> QED
      BY <1>4, <2>1, <2>2 DEF Oracles
  <1>7. ASSUME NEW k \in Keys PROVE Explained(prog, O, k) /\ FoldKnown(prog, O, k, evaluated[k])
    <2>1. evaluated[k].st = "empty"
      BY DEF Init, Empty
    <2>2. k \in DOMAIN O.calls <=> prog.rtArg[k]
      BY <1>1, <1>3, <1>4
    <2>3. prog.rtArg[k] => O.calls[k] = Gives("poison")
      BY <1>1, <1>3, <1>4
    <2> QED
      BY <2>1, <2>2, <2>3 DEF Explained, FoldKnown
  <1>8. Depth_ = 0
    BY DEF Init, Depth_
  <1> QED
    BY <1>4, <1>6, <1>7, <1>8 DEF Coherent

-----------------------------------------------------------------------------
(* The assertions. *)
RecursionFound == \E kind \in {"comptimeRecursion", "runtimeRecursion", "constCycle"} : Emitted(kind)

LEMMA PanicStable ==
    StackInv /\ StackInv' /\ MarkInv /\ TaintInv /\ ReplayInv /\ PanicOnlyAfterRecursion /\ [Next]_vars
    => PanicOnlyAfterRecursion'
  <1> SUFFICES ASSUME StackInv, StackInv', MarkInv, TaintInv, ReplayInv, PanicOnlyAfterRecursion,
                      [Next]_vars, panic' # "none"
               PROVE  RecursionFound'
    BY DEF PanicOnlyAfterRecursion, RecursionFound
  <1>1. RecursionFound => RecursionFound'
    BY ErrorsGrow DEF RecursionFound, Emitted
  <1>2. panic' = panic => RecursionFound'
    BY <1>1 DEF PanicOnlyAfterRecursion, RecursionFound
  <1>3. ~Acyclic => RecursionFound
    BY DEF Acyclic, RecursionFound
  <1>4. CASE FinishConst \/ LowerDone
    <2>1. panic' \notin {"lowering entry reset before result was stored", "cache corrupted",
                         "const state changed while evaluating"}
      BY DEF StackInv, Unreachable
    <2> QED
      BY <1>2, <1>4, <2>1 DEF FinishConst, LowerDone
  <1>5. CASE (FoldDone \/ FoldPanics) /\ Acyclic
    <2>1. PICK O \in Oracles : Coherent(O)
      BY <1>5 DEF ReplayInv
    <2>2. Ended("fold") /\ ending \in {"value", "end", "poisoned"}
      BY <1>5 DEF FoldDone, FoldPanics, BodyPoisoned
    <2>3. Top.existing # Empty => ~BodyPoisoned /\ Top.existing.outcome = FoldOutcome
      BY <2>1, <2>2, AgainTheSame
    <2>4. ~FoldPanics /\ ~Contradicts(Top.existing, FoldOutcome)
      BY <2>3 DEF FoldPanics, Contradicts
    <2> QED
      BY <1>2, <1>5, <2>4 DEF FoldDone
  <1>6. CASE LowerPanics
    <2>1. /\ TypeInv /\ frames # <<>> /\ Top.role = "lower" /\ lowered[Top.id] # "inProgress"
      BY <1>6 DEF LowerPanics, Ended, BlockOver, Ready, StackInv
    <2>2. lowered[Top.id] = "poison"
      BY <2>1, WorkIsUnique DEF Entries, EntryState
    <2>3. Depth_ \in 1 .. Depth_ /\ Top = frames[Depth_]
      BY <2>1, StackShape DEF Depth_
    <2>4. Emitted("runtimeRecursion")
      BY <2>1, <2>2, <2>3 DEF MarkInv, Entries, EntryState, Mark
    <2> QED
      BY <1>1, <2>4 DEF RecursionFound
  <1>7. CASE panic' # panic
    <2>1. FinishConst \/ LowerDone \/ FoldDone \/ FoldPanics \/ LowerPanics
      BY <1>7 DEF Next, vars,
         StartEntry, StartConst, ReadConst, FinishConstDiverged, FinishEntry,
         ChargeBranch, RaiseQuota, BindPoison, CompileError, Stop, ReturnStmt, Match, RuntimeWhile, NextArm,
         Call, PreambleFails, FoldWithoutBody, FoldRejected, FoldBegin, FoldExhausted, FoldPoisons,
         LowerWithoutBody, LowerBegin, LowerExhausted
    <2> QED
      BY <1>1, <1>3, <1>4, <1>5, <1>6, <2>1
  <1> QED
    BY <1>2, <1>7

(* The inductive invariant, and what it implies. *)
FailureInv == StackInv /\ TaintInv /\ MarkInv /\ ReplayInv /\ PanicOnlyAfterRecursion

LEMMA InitFailureInv == Init => FailureInv
  <1> SUFFICES ASSUME Init PROVE FailureInv
    OBVIOUS
  <1>1. StackInv /\ TaintInv /\ ReplayInv
    BY InitStackInv, InitTaintInv, InitReplayInv
  <1>2. Depth_ = 0 /\ panic = "none"
    BY DEF Init, Depth_
  <1>3. MarkInv /\ PanicOnlyAfterRecursion
    BY <1>2 DEF MarkInv, PanicOnlyAfterRecursion
  <1> QED
    BY <1>1, <1>3 DEF FailureInv

LEMMA FailureInvStable == FailureInv /\ [Next]_vars => FailureInv'
  BY StackInvStable, TaintInvStable, MarkInvStable, ReplayInvStable, PanicStable DEF FailureInv

LEMMA UntaintedIsClean ==
    ASSUME StackInv, TaintInv, ~Tainted
    PROVE  \A k \in Keys : evaluated[k] # Poison /\ lowered[k] # "poison"
  <1>1. "poison" \notin Excuses
    BY DEF Excuses
  <1> QED
    BY <1>1 DEF TaintInv, CachesClean, FoldClean, LowerClean

LEMMA FailureInvSuffices == FailureInv => FailuresAreAccounted
  <1> SUFFICES ASSUME FailureInv PROVE FailuresAreAccounted
    OBVIOUS
  <1>1. StackInv /\ TypeInv /\ TaintInv /\ PanicOnlyAfterRecursion
    BY DEF FailureInv, StackInv
  <1>2. ASSUME errors = {}
        PROVE  /\ panic = "none" /\ ending \notin {"poisoned", "quota"}
               /\ \A k \in Keys : evaluated[k] # Poison /\ lowered[k] # "poison"
               /\ \A c \in Consts : consts[c] \notin {"poison", "quotaExhausted"}
               /\ \A i \in DOMAIN frames : ~frames[i].bad
    <2>1. "quota" \notin Excuses
      BY <1>2 DEF Excuses
    <2>2. \A c \in Consts : consts[c] # "quotaExhausted"
      BY <1>1, <2>1 DEF TaintInv, CachesClean, ConstClean
    <2>3. ~Tainted
      BY <1>2, <2>2 DEF Tainted
    <2>4. "poison" \notin Excuses
      BY <2>3 DEF Excuses
    <2>5. panic = "none"
      BY <1>1, <1>2 DEF PanicOnlyAfterRecursion, Emitted
    <2>6. ending \notin {"poisoned", "quota"}
      BY <1>1, <2>1, <2>4 DEF TaintInv, EndingClean, EndClean
    <2>7. \A c \in Consts : consts[c] # "poison"
      BY <1>1, <2>4 DEF TaintInv, CachesClean, ConstClean
    <2>8. \A i \in DOMAIN frames : ~frames[i].bad
      BY <1>1, <2>4, StackShape DEF TaintInv, StackClean, Clean, Depth_
    <2> QED
      BY <1>1, <2>2, <2>3, <2>5, <2>6, <2>7, <2>8, UntaintedIsClean
  <1>3. NoSilentPoison
    BY <1>2 DEF NoSilentPoison
  <1>4. ExhaustionIsRetryable
    <2>1. ASSUME ErrorsOnly({"loopQuota", "callQuota"}), \A c \in Consts : consts[c] # "quotaExhausted"
          PROVE  ~Tainted
      BY <2>1 DEF ErrorsOnly, Tainted
    <2> QED
      BY <1>1, <2>1, UntaintedIsClean DEF ExhaustionIsRetryable
  <1> QED
    BY <1>1, <1>3, <1>4 DEF FailuresAreAccounted

(* Each way to fail stays what it is, for every program and quota: no      *)
(* poison without a diagnostic, no assertion of fold_comptime_call or of   *)
(* the lowering cache fails unless recursion was diagnosed, and a function *)
(* whose evaluation ran out of quota is never cached as poisoned.          *)
THEOREM FailuresStand == Spec => []FailuresAreAccounted
  <1>1. Init => FailureInv
    BY InitFailureInv
  <1>2. FailureInv /\ [Next]_vars => FailureInv'
    BY FailureInvStable
  <1>3. FailureInv => FailuresAreAccounted
    BY FailureInvSuffices
  <1> QED
    BY <1>1, <1>2, <1>3, PTL DEF Spec
=============================================================================

------------------------ MODULE ReleaseContractProofs ------------------------
(***************************************************************************)
(* The sections handed to the assembler are a whole contract, for every    *)
(* program with any number of blocks and data segments.                    *)
(*                                                                         *)
(* Of the sections pushed so far the proof keeps four sets (Texts): the    *)
(* marks placed, those placed behind runcode_start, and the marks that     *)
(* absolute and relative references may name.  While code is emitted, the  *)
(* marks that may be named are those of the blocks seen and of the return  *)
(* places (Promised), those placed leave out the blocks that wait and the  *)
(* calls that are still to come (CodeMarks); when the work list is empty   *)
(* nothing is left out, and the blocks seen are those no jump and no call  *)
(* leaves: the blocks reachable.                                           *)
(***************************************************************************)
EXTENDS ReleaseBackendProofs

(* Sections as the emitter pushes them: no reference has a set size. *)
CodeSections ==
    [kind : {"mark"}, id : Nat] \cup ByteSections
    \cup [kind : {"ref"}, from : Nat \cup {Nowhere}, to : Nat, setSize : {Unsized}, pushed : {TRUE}]
Asms == [sections : Seq(CodeSections), bytes : Nat]

MarksAre(s, I) ==
    /\ \A i \in 1 .. Len(s) : s[i].kind = "mark" => s[i].id \in I
    /\ \A m \in I : \E i \in 1 .. Len(s) : PlacedAt(s, m, i)
    /\ \A i, j \in 1 .. Len(s) :
          s[i].kind = "mark" /\ s[j].kind = "mark" /\ s[i].id = s[j].id => i = j

(* An absolute reference stands before the run code and names a mark of A, *)
(* a relative one names a mark of L.                                       *)
RefersTo(s, i, A, L) ==
    \/ s[i].from = Nowhere /\ s[i].to \in A /\ \A j \in 1 .. i - 1 : ~PlacedAt(s, runcode_start, j)
    \/ s[i].from = runcode_start /\ s[i].to \in L

IsText(s, I, R, A, L) ==
    /\ MarksAre(s, I)
    /\ \A m \in R : Precedes(s, runcode_start, m)
    /\ \A i \in 1 .. Len(s) : s[i].kind = "ref" => RefersTo(s, i, A, L)

Texts(I, R, A, L) == {a \in Asms : IsText(a.sections, I, R, A, L)}

-----------------------------------------------------------------------------
(* The walks over the blocks. *)

ProperLists(S) ==
    {w \in WorkLists(S) : /\ \A i, j \in 1 .. Len(w.todo) : w.todo[i] = w.todo[j] => i = j
                          /\ \A i \in 1 .. Len(w.todo) : w.todo[i] \in w.seen}

OpDone(op) ==
    /\ IsCall(op) => ir.entry[op.fn] \in work.seen
    /\ op.op = "data" => op.id \in initOnly \cup runtimeDatas
Done(b) ==
    /\ \A i \in 1 .. Len(ir.ops[b]) : OpDone(ir.ops[b][i])
    /\ \A k \in 1 .. Len(Successors(ir.control[b])) : Successors(ir.control[b])[k] \in work.seen

WalkInv(f) ==
    /\ work \in ProperLists(Blocks)
    /\ ir.entry[f] \in work.seen
    /\ work.seen \subseteq Reachable(f)
    /\ \A b \in work.seen : Has(work.todo, b) \/ b = at \/ Done(b)

VisitInv ==
    /\ at \in work.seen /\ ~Has(work.todo, at)
    /\ \A i \in 1 .. Len(ir.ops[at]) : OpDone(ir.ops[at][i]) \/ Has(ops, ir.ops[at][i])
    /\ \A j \in 1 .. Len(ops) : Has(ir.ops[at], ops[j])

(* Every return mark pushed is placed by a call that is still to come. *)
AwaitsCall(i, call) ==
    \E j \in i .. Len(ops) :
        IsCallOf(ops[j], call) /\ \A k \in i .. j : ~IsReturnOf(ops[k], call)
AllDiffer(s) ==
    \A r, q \in 1 .. Len(s) : r # q => s[r].call # s[q].call /\ s[r].mark # s[q].mark
ReturnsInv ==
    /\ \A i \in 1 .. Len(ops) : ops[i].op = "ret_push" => AwaitsCall(i + 1, ops[i].call)
    /\ \A r \in 1 .. Len(retMarks) :
          /\ AwaitsCall(1, retMarks[r].call)
          /\ retMarks[r].mark \in bbMarks + NumBlocks .. nextMark - 1
    /\ AllDiffer(retMarks)

UsedByMain == IF ir.main = None THEN {} ELSE DataUsed(ir.main)

-----------------------------------------------------------------------------
(* The marks of the code. *)

DataMarks(D) == {DataMark(d) : d \in D}
Pending == {retMarks[r].mark : r \in 1 .. Len(retMarks)}
ReturnMarks == bbMarks + NumBlocks .. nextMark - 1

CodeMarks ==
    {BbMark(b) : b \in {x \in work.seen : ~Has(work.todo, x)}} \cup (ReturnMarks \ Pending)
Promised ==
    {BbMark(b) : b \in work.seen} \cup ReturnMarks \cup {initcode_end}
    \cup DataMarks(IF target = "init" THEN initOnly \cup runtimeDatas ELSE runtimeDatas)

(* The marks of the init code, when it is complete. *)
InitMarks(B, next) ==
    /\ B \subseteq 2 .. next - 1
    /\ {d \in Datas : DataMark(d) \in B} = initOnly
    /\ {b \in Blocks : FirstBbMark + b \in B} = Reachable(ir.init)
LeftOver(B) == B \cup {runcode_start, initcode_end} \cup DataMarks(runtimeDatas)

InitText == asm \in Texts(CodeMarks, {}, Promised \cup {runcode_start}, {initcode_end})
MainText(B) == asm \in Texts(B \cup {runcode_start} \cup CodeMarks, CodeMarks, LeftOver(B), Promised)

DatasInv ==
    /\ runtimeDatas = UsedByMain
    /\ initOnly \subseteq DataUsed(ir.init) \ runtimeDatas
    /\ target = "main" => initOnly = DataUsed(ir.init) \ runtimeDatas

-----------------------------------------------------------------------------
(* The stages. *)

Untouched == asm = EmptyAsm /\ nextMark = FirstBbMark /\ initOnly = {}

RuntimeWalk ==
    IF ir.main = None THEN work = NoWork /\ runtimeDatas = {}
    ELSE WalkInv(ir.main) /\ runtimeDatas \subseteq DataUsed(ir.main)

MarksInv ==
    /\ bbMarks \in Nat /\ nextMark \in Nat /\ bbMarks + NumBlocks <= nextMark
    /\ IF target = "init" THEN bbMarks = FirstBbMark ELSE FirstBbMark + NumBlocks <= bbMarks

CodeInv ==
    /\ MarksInv
    /\ DatasInv
    /\ WalkInv(EntryPoint)
    /\ IF at = None THEN retMarks = <<>> ELSE VisitInv /\ ReturnsInv
    /\ IF target = "init" THEN InitText
       ELSE \E B \in SUBSET Nat : InitMarks(B, bbMarks) /\ MainText(B)

Between ==
    /\ DatasInv
    /\ nextMark \in Nat /\ FirstBbMark + NumBlocks <= nextMark
    /\ \E B \in SUBSET Nat :
          InitMarks(B, nextMark) /\ asm \in Texts(B, {}, LeftOver(B), {initcode_end})

(* ContractIsWhole, whatever the assembler does. *)
RunCodeIsAlone ==
    \A r \in Position(runcode_start) .. Len_ : asm.sections[r].kind = "ref" =>
        /\ asm.sections[r].from = runcode_start
        /\ Placed(asm.sections[r].to)
        /\ Position(asm.sections[r].to) > Position(runcode_start)
        /\ Position(asm.sections[r].to) <= Position(initcode_end)
NothingIsMissing ==
    /\ MarksOfBlocks(FirstBbMark) = Reachable(ir.init)
    /\ ir.main # None => MarksOfBlocks(bbMarks) = Reachable(ir.main)
    /\ {d \in Datas : Placed(DataMark(d))} = DataUsed(ir.init) \cup UsedByMain
Whole == WellFormed(asm.sections) /\ RunCodeIsAlone /\ NothingIsMissing

ContractInv ==
    /\ stage = "memory" /\ target = "init" => Untouched /\ runtimeDatas = {}
    /\ stage = "runtime_datas" => target = "init" /\ Untouched /\ RuntimeWalk
    /\ stage = "code" => CodeInv
    /\ stage = "memory" /\ target = "main" => Between
    /\ stage = "assemble" => Whole

-----------------------------------------------------------------------------
(* What pushing does to a text. *)

(* A section that is neither a mark nor a reference changes nothing. *)
LEMMA SectionKinds ==
    ASSUME NEW x \in CodeSections
    PROVE  /\ x.kind \in {"mark", "ops", "data", "ref"}
           /\ x.kind = "mark" => x.id \in Nat
           /\ x.kind \in {"ops", "data"} => x \in ByteSections
BY DEF CodeSections, ByteSections

LEMMA AppendText ==
    ASSUME NEW I, NEW R, NEW A, NEW L, NEW s \in Seq(CodeSections), IsText(s, I, R, A, L),
           NEW x \in CodeSections
    PROVE  /\ Append(s, x) \in Seq(CodeSections)
           /\ x.kind \in {"ops", "data"} => IsText(Append(s, x), I, R, A, L)
           /\ x.kind = "ref" /\ x.from = Nowhere /\ x.to \in A /\ runcode_start \notin I
                => IsText(Append(s, x), I, R, A, L)
           /\ x.kind = "ref" /\ x.from = runcode_start /\ x.to \in L
                => IsText(Append(s, x), I, R, A, L)
           /\ x.kind = "mark" /\ x.id \notin I =>
                IsText(Append(s, x), I \cup {x.id},
                       IF runcode_start \in I THEN R \cup {x.id} ELSE R, A, L)
  <1>1. PICK t, n : t = Append(s, x) /\ n = Len(s)
    OBVIOUS
  <1>2. /\ t \in Seq(CodeSections) /\ n \in Nat /\ Len(t) = n + 1
        /\ \A i \in 1 .. n : t[i] = s[i]
        /\ t[n + 1] = x
    BY <1>1, AppendProperties, LenProperties
  <1>3. /\ \A i \in 1 .. n : s[i].kind = "mark" => s[i].id \in I
        /\ \A m \in I : \E i \in 1 .. n : PlacedAt(s, m, i)
        /\ \A i, j \in 1 .. n :
              s[i].kind = "mark" /\ s[j].kind = "mark" /\ s[i].id = s[j].id => i = j
        /\ \A m \in R : Precedes(s, runcode_start, m)
        /\ \A i \in 1 .. n : s[i].kind = "ref" => RefersTo(s, i, A, L)
    BY <1>1 DEF IsText, MarksAre
  <1>4. \A m \in R : Precedes(t, runcode_start, m)
    BY <1>1, <1>2, <1>3 DEF Precedes, PlacedAt
  <1>5. ASSUME NEW i \in 1 .. n, t[i].kind = "ref" PROVE RefersTo(t, i, A, L)
    <2>1. RefersTo(s, i, A, L) /\ t[i] = s[i] /\ \A j \in 1 .. i - 1 : t[j] = s[j]
      BY <1>2, <1>3, <1>5
    <2> QED
      BY <2>1 DEF RefersTo, PlacedAt
  <1>6. ASSUME NEW m, \E i \in 1 .. n : PlacedAt(s, m, i) PROVE \E i \in 1 .. n + 1 : PlacedAt(t, m, i)
    BY <1>2, <1>6 DEF PlacedAt
  <1>7. CASE x.kind # "mark"
    <2>1. MarksAre(t, I)
      <3>1. \A i \in 1 .. n + 1 : t[i].kind = "mark" => i \in 1 .. n /\ t[i] = s[i]
        BY <1>2, <1>7
      <3>2. \A i \in 1 .. n + 1 : t[i].kind = "mark" => t[i].id \in I
        BY <1>3, <3>1
      <3>3. \A m \in I : \E i \in 1 .. n + 1 : PlacedAt(t, m, i)
        BY <1>3, <1>6
      <3>4. \A i, j \in 1 .. n + 1 :
               t[i].kind = "mark" /\ t[j].kind = "mark" /\ t[i].id = t[j].id => i = j
        BY <1>3, <3>1
      <3> QED
        BY <1>2, <3>2, <3>3, <3>4 DEF MarksAre
    <2>2. x.kind = "ref" => (RefersTo(t, n + 1, A, L) => IsText(t, I, R, A, L))
      <3>1. \A i \in 1 .. n + 1 : i \in 1 .. n \/ i = n + 1
        BY <1>2
      <3> QED
        BY <1>2, <1>4, <1>5, <2>1, <3>1 DEF IsText
    <2>3. x.kind \in {"ops", "data"} => IsText(t, I, R, A, L)
      <3>1. \A i \in 1 .. n + 1 : i \in 1 .. n \/ i = n + 1
        BY <1>2
      <3> QED
        BY <1>2, <1>4, <1>5, <2>1, <3>1 DEF IsText
    <2>4. x.kind = "ref" /\ x.from = Nowhere /\ x.to \in A /\ runcode_start \notin I
             => RefersTo(t, n + 1, A, L)
      <3>1. runcode_start \notin I => \A j \in 1 .. n : ~PlacedAt(t, runcode_start, j)
        BY <1>2, <1>3 DEF PlacedAt
      <3>2. (n + 1) - 1 = n
        BY <1>2
      <3> QED
        BY <1>2, <3>1, <3>2 DEF RefersTo
    <2>5. x.kind = "ref" /\ x.from = runcode_start /\ x.to \in L => RefersTo(t, n + 1, A, L)
      BY <1>2 DEF RefersTo
    <2> QED
      BY <1>1, <1>2, <1>7, <2>2, <2>3, <2>4, <2>5
  <1>8. CASE x.kind = "mark"
    <2>1. ASSUME x.id \notin I PROVE MarksAre(t, I \cup {x.id})
      <3>1. \A i \in 1 .. n + 1 : i \in 1 .. n \/ i = n + 1
        BY <1>2
      <3>2. \A i \in 1 .. n + 1 : t[i].kind = "mark" => t[i].id \in I \cup {x.id}
        BY <1>2, <1>3, <3>1
      <3>3. \E i \in 1 .. n + 1 : PlacedAt(t, x.id, i)
        <4>1. n + 1 \in 1 .. n + 1
          BY <1>2
        <4> QED
          BY <1>2, <1>8, <4>1 DEF PlacedAt
      <3>4. \A m \in I : \E i \in 1 .. n + 1 : PlacedAt(t, m, i)
        BY <1>3, <1>6
      <3>5. ASSUME NEW i \in 1 .. n + 1, NEW j \in 1 .. n + 1,
                   t[i].kind = "mark", t[j].kind = "mark", t[i].id = t[j].id
            PROVE  i = j
        BY <1>2, <1>3, <2>1, <3>1, <3>5
      <3> QED
        BY <1>2, <3>2, <3>3, <3>4, <3>5 DEF MarksAre
    <2>2. ASSUME runcode_start \in I PROVE Precedes(t, runcode_start, x.id)
      <3>1. PICK i \in 1 .. n : PlacedAt(s, runcode_start, i)
        BY <1>3, <2>2
      <3>2. i \in 1 .. n + 1 /\ n + 1 \in 1 .. n + 1 /\ i < n + 1
        BY <1>2
      <3>3. PlacedAt(t, runcode_start, i) /\ PlacedAt(t, x.id, n + 1)
        BY <1>2, <1>8, <3>1 DEF PlacedAt
      <3> QED
        BY <1>2, <3>2, <3>3 DEF Precedes
    <2>3. \A i \in 1 .. n + 1 : t[i].kind = "ref" => RefersTo(t, i, A, L)
      <3>1. \A i \in 1 .. n + 1 : i \in 1 .. n \/ i = n + 1
        BY <1>2
      <3> QED
        BY <1>2, <1>5, <1>8, <3>1
    <2>4. x.id \notin I => IsText(t, I \cup {x.id}, IF runcode_start \in I THEN R \cup {x.id} ELSE R, A, L)
      BY <1>2, <1>4, <2>1, <2>2, <2>3 DEF IsText
    <2> QED
      BY <1>1, <1>2, <1>8, <2>4
  <1> QED
    BY <1>7, <1>8

(* Literal bytes that extend the last section leave marks and references   *)
(* where they are.                                                         *)
LEMMA ExtendText ==
    ASSUME NEW I, NEW R, NEW A, NEW L, NEW s \in Seq(CodeSections), IsText(s, I, R, A, L),
           Len(s) > 0, s[Len(s)].kind \in {"ops", "data"}, NEW end \in Nat
    PROVE  /\ [s EXCEPT ![Len(s)].end = end] \in Seq(CodeSections)
           /\ IsText([s EXCEPT ![Len(s)].end = end], I, R, A, L)
  <1>1. PICK n : n = Len(s)
    OBVIOUS
  <1>2. n \in 1 .. Len(s) /\ Len(s) \in Nat /\ s[n] \in CodeSections
    BY <1>1, LenProperties, ElementOfSeq
  <1>3. PICK x : x = [s[n] EXCEPT !.end = end]
    OBVIOUS
  <1>4. x \in ByteSections /\ x.kind = s[n].kind
    <2>1. s[n] \in ByteSections
      BY <1>1, <1>2, SectionKinds
    <2> QED
      BY <1>3, <2>1 DEF ByteSections
  <1>5. x \in CodeSections
    BY <1>4 DEF CodeSections
  <1>6. PICK t : t = [s EXCEPT ![n] = x]
    OBVIOUS
  <1>7. t = [s EXCEPT ![Len(s)].end = end]
    BY <1>1, <1>3, <1>6
  <1>8. t \in Seq(CodeSections) /\ Len(t) = Len(s) /\ \A i \in 1 .. Len(s) : t[i] = IF i = n THEN x ELSE s[i]
    BY <1>2, <1>5, <1>6, ExceptSeq
  <1>9. \A i \in 1 .. Len(s) :
           /\ t[i].kind = s[i].kind
           /\ s[i].kind \in {"mark", "ref"} => t[i] = s[i]
    BY <1>1, <1>4, <1>8
  <1>10. \A m, i : i \in 1 .. Len(s) => (PlacedAt(t, m, i) <=> PlacedAt(s, m, i))
    BY <1>9 DEF PlacedAt
  <1>11. MarksAre(t, I)
    <2>1. MarksAre(s, I)
      BY DEF IsText
    <2>2. \A i \in 1 .. Len(s) : t[i].kind = "mark" => t[i].id \in I
      BY <1>9, <2>1 DEF MarksAre
    <2>3. \A m \in I : \E i \in 1 .. Len(s) : PlacedAt(t, m, i)
      BY <1>10, <2>1 DEF MarksAre
    <2>4. \A i, j \in 1 .. Len(s) :
              t[i].kind = "mark" /\ t[j].kind = "mark" /\ t[i].id = t[j].id => i = j
      BY <1>9, <2>1 DEF MarksAre
    <2> QED
      BY <1>8, <2>2, <2>3, <2>4 DEF MarksAre
  <1>12. \A m \in R : Precedes(t, runcode_start, m)
    BY <1>8, <1>10 DEF IsText, Precedes
  <1>13. ASSUME NEW i \in 1 .. Len(s), t[i].kind = "ref" PROVE RefersTo(t, i, A, L)
    <2>1. RefersTo(s, i, A, L) /\ t[i] = s[i]
      BY <1>9, <1>13 DEF IsText
    <2>2. \A j \in 1 .. i - 1 : j \in 1 .. Len(s)
      BY <1>2
    <2> QED
      BY <1>10, <2>1, <2>2 DEF RefersTo
  <1> QED
    BY <1>7, <1>8, <1>11, <1>12, <1>13 DEF IsText

LEMMA PushSectionAsm ==
    ASSUME NEW a \in Asms, NEW x
    PROVE  PushSection(a, x) = [sections |-> Append(a.sections, x), bytes |-> a.bytes]
BY DEF Asms, PushSection

LEMMA TextOf ==
    ASSUME NEW I, NEW R, NEW A, NEW L, NEW s \in Seq(CodeSections), IsText(s, I, R, A, L), NEW n \in Nat
    PROVE  [sections |-> s, bytes |-> n] \in Texts(I, R, A, L)
BY DEF Texts, Asms

LEMMA PushBytesText ==
    ASSUME NEW I, NEW R, NEW A, NEW L, NEW a \in Texts(I, R, A, L),
           NEW kind \in {"ops", "data"}, NEW n \in Nat
    PROVE  PushBytes(a, kind, n) \in Texts(I, R, A, L)
  <1>1. PICK s : s = a.sections
    OBVIOUS
  <1>2. a \in Asms /\ s \in Seq(CodeSections) /\ a.bytes \in Nat /\ IsText(s, I, R, A, L)
    BY <1>1 DEF Texts, Asms
  <1>3. PICK end : end = a.bytes + n
    OBVIOUS
  <1>4. end \in Nat
    BY <1>2, <1>3
  <1>5. CASE Len(s) > 0 /\ s[Len(s)].kind = kind
    <2>1. PushBytes(a, kind, n) = [sections |-> [s EXCEPT ![Len(s)].end = end], bytes |-> end]
      BY <1>1, <1>3, <1>5 DEF PushBytes
    <2>2. /\ [s EXCEPT ![Len(s)].end = end] \in Seq(CodeSections)
          /\ IsText([s EXCEPT ![Len(s)].end = end], I, R, A, L)
      BY <1>2, <1>4, <1>5, ExtendText
    <2> QED
      BY <1>4, <2>1, <2>2, TextOf
  <1>6. CASE ~(Len(s) > 0 /\ s[Len(s)].kind = kind)
    <2>1. PICK x : x = [kind |-> kind, start |-> a.bytes, end |-> end]
      OBVIOUS
    <2>2. PushBytes(a, kind, n) = [sections |-> Append(s, x), bytes |-> end]
      BY <1>1, <1>3, <1>6, <2>1 DEF PushBytes
    <2>3. x \in CodeSections /\ x.kind \in {"ops", "data"}
      BY <1>2, <1>4, <2>1 DEF CodeSections, ByteSections
    <2>4. Append(s, x) \in Seq(CodeSections) /\ IsText(Append(s, x), I, R, A, L)
      BY <1>2, <2>3, AppendText
    <2> QED
      BY <1>4, <2>2, <2>4, TextOf
  <1> QED
    BY <1>5, <1>6

LEMMA PushOpsText ==
    ASSUME NEW I, NEW R, NEW A, NEW L, NEW a \in Texts(I, R, A, L), NEW n \in Nat
    PROVE  PushOps(a, n) \in Texts(I, R, A, L)
BY PushBytesText DEF PushOps

LEMMA PushMarkText ==
    ASSUME NEW I, NEW R, NEW A, NEW L, NEW a \in Texts(I, R, A, L), NEW m \in Nat, m \notin I
    PROVE  PushMark(a, m) \in Texts(I \cup {m}, IF runcode_start \in I THEN R \cup {m} ELSE R, A, L)
  <1>1. PICK s, x : s = a.sections /\ x = [kind |-> "mark", id |-> m]
    OBVIOUS
  <1>2. a \in Asms /\ s \in Seq(CodeSections) /\ a.bytes \in Nat /\ IsText(s, I, R, A, L)
    BY <1>1 DEF Texts, Asms
  <1>3. x \in CodeSections /\ x.kind = "mark" /\ x.id = m
    BY <1>1 DEF CodeSections
  <1>4. /\ Append(s, x) \in Seq(CodeSections)
        /\ IsText(Append(s, x), I \cup {m}, IF runcode_start \in I THEN R \cup {m} ELSE R, A, L)
    BY <1>2, <1>3, AppendText
  <1>5. PushMark(a, m) = [sections |-> Append(s, x), bytes |-> a.bytes]
    BY <1>1, <1>2, PushSectionAsm DEF PushMark
  <1>6. PICK J, Q : J = I \cup {m} /\ Q = IF runcode_start \in I THEN R \cup {m} ELSE R
    OBVIOUS
  <1>7. [sections |-> Append(s, x), bytes |-> a.bytes] \in Texts(J, Q, A, L)
    BY <1>2, <1>4, <1>6, TextOf
  <1> QED
    BY <1>5, <1>6, <1>7

(* Which marks the code being emitted may name. *)
Nameable(I, A, L, m) ==
    IF target = "init" THEN m \in A /\ runcode_start \notin I ELSE m \in L

LEMMA DirectText ==
    ASSUME NEW I, NEW R, NEW A, NEW L, NEW a \in Texts(I, R, A, L), NEW m \in Nat,
           m \in A, runcode_start \notin I
    PROVE  PushReference(a, Direct(m)) \in Texts(I, R, A, L)
  <1>1. PICK s, x : s = a.sections /\ x = Direct(m)
    OBVIOUS
  <1>2. a \in Asms /\ s \in Seq(CodeSections) /\ a.bytes \in Nat /\ IsText(s, I, R, A, L)
    BY <1>1 DEF Texts, Asms
  <1>3. x \in CodeSections /\ x.kind = "ref" /\ x.from = Nowhere /\ x.to = m
    BY <1>1 DEF CodeSections, Direct
  <1>4. Append(s, x) \in Seq(CodeSections) /\ IsText(Append(s, x), I, R, A, L)
    BY <1>2, <1>3, AppendText
  <1>5. PushReference(a, x) = [sections |-> Append(s, x), bytes |-> a.bytes]
    BY <1>1, <1>2, PushSectionAsm DEF PushReference
  <1> QED
    BY <1>1, <1>2, <1>4, <1>5, TextOf

LEMMA DeltaText ==
    ASSUME NEW I, NEW R, NEW A, NEW L, NEW a \in Texts(I, R, A, L), NEW m \in Nat, m \in L
    PROVE  PushReference(a, Delta(runcode_start, m)) \in Texts(I, R, A, L)
  <1>1. PICK s, x : s = a.sections /\ x = Delta(runcode_start, m)
    OBVIOUS
  <1>2. a \in Asms /\ s \in Seq(CodeSections) /\ a.bytes \in Nat /\ IsText(s, I, R, A, L)
    BY <1>1 DEF Texts, Asms
  <1>3. x = [kind |-> "ref", from |-> runcode_start, to |-> m, setSize |-> Unsized, pushed |-> TRUE]
    BY <1>1 DEF Delta, Direct
  <1>4. x \in CodeSections /\ x.kind = "ref" /\ x.from = runcode_start /\ x.to = m
    BY <1>3 DEF CodeSections, runcode_start
  <1>5. Append(s, x) \in Seq(CodeSections) /\ IsText(Append(s, x), I, R, A, L)
    BY <1>2, <1>4, AppendText
  <1>6. PushReference(a, x) = [sections |-> Append(s, x), bytes |-> a.bytes]
    BY <1>1, <1>2, PushSectionAsm DEF PushReference
  <1> QED
    BY <1>1, <1>2, <1>5, <1>6, TextOf

LEMMA ReferenceText ==
    ASSUME NEW I, NEW R, NEW A, NEW L, NEW a \in Texts(I, R, A, L), NEW m \in Nat,
           Nameable(I, A, L, m)
    PROVE  PushReference(a, MarkToRef(m)) \in Texts(I, R, A, L)
BY DirectText, DeltaText DEF Nameable, MarkToRef

(* Fewer promises made, more marks allowed. *)
LEMMA TextsGrow ==
    ASSUME NEW I, NEW R, NEW A, NEW L, NEW a \in Texts(I, R, A, L),
           NEW Q, NEW B, NEW M, Q \subseteq R, A \subseteq B, L \subseteq M
    PROVE  a \in Texts(I, Q, B, M)
BY DEF Texts, IsText, RefersTo

-----------------------------------------------------------------------------
(* What the emitter pushes. *)

LEMMA PushSizeIsNat ==
    ASSUME NEW value
    PROVE  PushSize(value) \in Nat
  <1>1. BytesToHold(value) \in {1, 2, 3, 4}
    BY DEF BytesToHold
  <1> QED
    BY <1>1 DEF PushSize

LEMMA JumpText ==
    ASSUME NEW I, NEW R, NEW A, NEW L, NEW a \in Texts(I, R, A, L), bbMarks \in Nat,
           NEW b \in Blocks, Nameable(I, A, L, BbMark(b))
    PROVE  Jump(a, b) \in Texts(I, R, A, L)
  <1>1. PICK m : m = BbMark(b)
    OBVIOUS
  <1>2. m \in Nat
    BY <1>1, NumbersAssumption DEF BbMark, Blocks
  <1>3. PICK c : c = PushReference(a, MarkToRef(m))
    OBVIOUS
  <1>4. c \in Texts(I, R, A, L)
    BY <1>1, <1>2, <1>3, ReferenceText
  <1>5. PushOps(c, 1) \in Texts(I, R, A, L)
    BY <1>4, PushOpsText
  <1> QED
    BY <1>1, <1>3, <1>5 DEF Jump

LEMMA SwitchCasesText ==
    ASSUME NEW I, NEW R, NEW A, NEW L, NEW a \in Texts(I, R, A, L), bbMarks \in Nat,
           NEW cases \in Seq([value : Nat, to : Blocks]),
           \A i \in 1 .. Len(cases) : Nameable(I, A, L, BbMark(cases[i].to))
    PROVE  SwitchCases(a, cases) \in Texts(I, R, A, L)
  <1> DEFINE n == Len(cases)
             W == Texts(I, R, A, L)
             step == [i \in 1 .. n |-> [v \in W |-> SwitchCase(v, cases[i])]]
             after[i \in 0 .. Len(cases)] == IF i = 0 THEN a ELSE SwitchCase(after[i - 1], cases[i])
  <1>1. n \in Nat /\ \A i \in 1 .. n : cases[i].to \in Blocks
    <2>1. \A i \in 1 .. n : cases[i] \in [value : Nat, to : Blocks]
      BY ElementOfSeq
    <2> QED
      BY <2>1, LenProperties
  <1>2. step \in [1 .. n -> [W -> W]]
    <2>1. ASSUME NEW i \in 1 .. n, NEW v \in W PROVE SwitchCase(v, cases[i]) \in W
      <3>1. PICK k : k = PushSize(memory.switchStore) + 1 + PushSize(cases[i].value) + 1
        OBVIOUS
      <3>2. k \in Nat
        BY <3>1, PushSizeIsNat
      <3>3. PICK w : w = PushOps(v, k)
        OBVIOUS
      <3>4. w \in Texts(I, R, A, L)
        BY <3>2, <3>3, PushOpsText
      <3>5. Jump(w, cases[i].to) \in Texts(I, R, A, L)
        BY <1>1, <3>4, JumpText
      <3> QED
        BY <3>1, <3>3, <3>5 DEF SwitchCase
    <2> QED
      BY <2>1
  <1>3. PICK f \in [0 .. n -> W] : f[0] = a /\ \A i \in 1 .. n : f[i] = step[i][f[i - 1]]
    <2> HIDE DEF step, n, W
    <2>1. a \in W
      BY DEF W
    <2>2. Recursions(n, W, a, step) # {}
      BY <1>1, <1>2, <2>1, RecursionUpTo
    <2> QED
      BY <2>2 DEF Recursions
  <1>4. ASSUME NEW i \in 1 .. n PROVE f[i - 1] \in W /\ f[i] = SwitchCase(f[i - 1], cases[i])
    <2>1. i - 1 \in 0 .. n
      BY <1>1
    <2>2. f[i - 1] \in W /\ f[i] = step[i][f[i - 1]]
      BY <1>3, <2>1
    <2>3. step[i] = [v \in W |-> SwitchCase(v, cases[i])]
      OBVIOUS
    <2> QED
      BY <2>2, <2>3
  <1>5. f = [i \in 0 .. n |-> IF i = 0 THEN a ELSE SwitchCase(f[i - 1], cases[i])]
    BY <1>1, <1>3, <1>4
  <1>6. after = [i \in 0 .. n |-> IF i = 0 THEN a ELSE SwitchCase(after[i - 1], cases[i])]
    <2>1. after = CHOOSE g : g = [i \in 0 .. n |-> IF i = 0 THEN a ELSE SwitchCase(g[i - 1], cases[i])]
      BY DEF after
    <2> HIDE DEF after
    <2> QED
      BY <1>5, <2>1
  <1> HIDE DEF after
  <1> DEFINE T == {i \in 0 .. n : after[i] \in W}
  <1>7. 0 \in T
    BY <1>1, <1>6
  <1>8. ASSUME NEW i \in 1 .. n, i - 1 \in T PROVE i \in T
    <2>1. after[i] = SwitchCase(after[i - 1], cases[i]) /\ after[i - 1] \in W
      BY <1>1, <1>6, <1>8, SMTT(30)
    <2>2. step[i] \in [W -> W] /\ step[i] = [v \in W |-> SwitchCase(v, cases[i])]
      BY <1>2
    <2>3. step[i][after[i - 1]] \in W /\ step[i][after[i - 1]] = SwitchCase(after[i - 1], cases[i])
      <3> HIDE DEF step, W
      <3> QED
        BY <2>1, <2>2
    <2> QED
      BY <1>1, <2>1, <2>3
  <1>9. after[n] \in W
    <2> HIDE DEF T
    <2>1. 0 .. n \subseteq T
      BY <1>1, <1>7, <1>8, InductionUpTo
    <2> QED
      BY <1>1, <2>1 DEF T
  <1>10. SwitchCases(a, cases) = after[n]
    BY DEF SwitchCases, after
  <1> QED
    BY <1>9, <1>10

LEMMA EmittedControlText ==
    ASSUME NEW I, NEW R, NEW A, NEW L, asm \in Texts(I, R, A, L), bbMarks \in Nat,
           NEW c \in Controls,
           \A k \in 1 .. Len(Successors(c)) : Nameable(I, A, L, BbMark(Successors(c)[k]))
    PROVE  EmittedControl(c) \in Texts(I, R, A, L)
  <1>1. PICK a : a = asm
    OBVIOUS
  <1>2. a \in Texts(I, R, A, L)
    BY <1>1
  <1>3. CASE c.kind = "terminates"
    BY <1>3 DEF EmittedControl
  <1>4. CASE c.kind = "return"
    <2>1. PushOps(a, 1) \in Texts(I, R, A, L)
      BY <1>2, PushOpsText
    <2> QED
      BY <1>1, <1>4, <2>1 DEF EmittedControl
  <1>5. CASE c.kind = "continues"
    <2>1. c.to \in Blocks
      BY <1>5 DEF Controls
    <2>2. Successors(c) = <<c.to>>
      BY <1>5 DEF Successors
    <2>3. Nameable(I, A, L, BbMark(c.to))
      BY <2>2
    <2>4. Jump(a, c.to) \in Texts(I, R, A, L)
      BY <1>2, <2>1, <2>3, JumpText
    <2> QED
      BY <1>1, <1>5, <2>4 DEF EmittedControl
  <1>6. CASE c.kind = "branches"
    <2>1. c.zero \in Blocks /\ c.nonZero \in Blocks
      BY <1>6 DEF Controls
    <2>2. Successors(c) = <<c.zero, c.nonZero>>
      BY <1>6 DEF Successors
    <2>3. Nameable(I, A, L, BbMark(c.zero)) /\ Nameable(I, A, L, BbMark(c.nonZero))
      <3>1. PICK p : p = <<c.zero, c.nonZero>>
        OBVIOUS
      <3>2. Len(p) = 2 /\ p[1] = c.zero /\ p[2] = c.nonZero
        BY <3>1
      <3>3. \A k \in 1 .. 2 : Nameable(I, A, L, BbMark(p[k]))
        BY <2>2, <3>1, <3>2
      <3> QED
        BY <3>2, <3>3
    <2>4. PICK b : b = Jump(a, c.nonZero)
      OBVIOUS
    <2>5. b \in Texts(I, R, A, L)
      BY <1>2, <2>1, <2>3, <2>4, JumpText
    <2>6. Jump(b, c.zero) \in Texts(I, R, A, L)
      BY <2>1, <2>3, <2>5, JumpText
    <2> QED
      BY <1>1, <1>6, <2>4, <2>6 DEF EmittedControl
  <1>7. CASE c.kind = "switch"
    <2>1. c.cases \in Seq([value : Nat, to : Blocks]) /\ c.fallback \in Blocks \cup {None}
      BY <1>7 DEF Controls
    <2>2. PICK cs, fb : cs = c.cases /\ fb = (IF c.fallback = None THEN <<>> ELSE <<c.fallback>>)
      OBVIOUS
    <2>3. Len(cs) \in Nat /\ DOMAIN cs = 1 .. Len(cs) /\ \A i \in 1 .. Len(cs) : cs[i].to \in Blocks
      <3>1. \A i \in 1 .. Len(cs) : cs[i] \in [value : Nat, to : Blocks]
        BY <2>1, <2>2, ElementOfSeq
      <3> QED
        BY <2>1, <2>2, <3>1, LenProperties
    <2>4. PICK ts : ts = Targets(cs)
      OBVIOUS
    <2>5. /\ ts \in Seq(Blocks) /\ Len(ts) = Len(cs) /\ \A i \in 1 .. Len(cs) : ts[i] = cs[i].to
      <3>1. ts \in [1 .. Len(cs) -> Blocks] /\ \A i \in 1 .. Len(cs) : ts[i] = cs[i].to
        BY <2>3, <2>4 DEF Targets
      <3> QED
        BY <2>3, <3>1, SeqDef, LenProperties
    <2>6. fb \in Seq(Blocks) /\ (c.fallback # None => Len(fb) = 1 /\ fb[1] = c.fallback)
      BY <2>1, <2>2
    <2>7. Successors(c) = ts \o fb
      BY <1>7, <2>2, <2>4 DEF Successors
    <2>8. /\ Len(ts \o fb) = Len(ts) + Len(fb)
          /\ \A i \in 1 .. Len(ts) + Len(fb) : (ts \o fb)[i] = IF i <= Len(ts) THEN ts[i] ELSE fb[i - Len(ts)]
      <3>1. Len(ts \o fb) = Len(ts) + Len(fb)
        BY <2>5, <2>6, ConcatProperties
      <3>2. \A i \in 1 .. Len(ts) + Len(fb) : (ts \o fb)[i] = IF i <= Len(ts) THEN ts[i] ELSE fb[i - Len(ts)]
        BY <2>5, <2>6, ConcatProperties
      <3> QED
        BY <3>1, <3>2
    <2>9. Len(fb) \in Nat
      BY <2>6, LenProperties
    <2>10. ASSUME NEW i \in 1 .. Len(cs) PROVE Nameable(I, A, L, BbMark(cs[i].to))
      <3>1. i \in 1 .. Len(ts) + Len(fb) /\ i <= Len(ts)
        BY <2>3, <2>5, <2>9
      <3>2. (ts \o fb)[i] = cs[i].to
        BY <2>5, <2>8, <3>1
      <3>3. Nameable(I, A, L, BbMark((ts \o fb)[i]))
        BY <2>7, <2>8, <3>1
      <3> QED
        BY <3>2, <3>3
    <2>11. PICK k : k = PushSize(memory.switchStore) + 1
      OBVIOUS
    <2>12. k \in Nat
      BY <2>11, PushSizeIsNat
    <2>13. PICK b : b = PushOps(a, k)
      OBVIOUS
    <2>14. b \in Texts(I, R, A, L)
      BY <1>2, <2>12, <2>13, PushOpsText
    <2>15. PICK d : d = SwitchCases(b, cs)
      OBVIOUS
    <2>16. d \in Texts(I, R, A, L)
      BY <2>1, <2>2, <2>10, <2>14, <2>15, SwitchCasesText
    <2>17. EmittedControl(c) = IF c.fallback = None THEN d ELSE Jump(d, c.fallback)
      BY <1>1, <1>7, <2>2, <2>11, <2>13, <2>15 DEF EmittedControl
    <2>18. ASSUME c.fallback # None PROVE Jump(d, c.fallback) \in Texts(I, R, A, L)
      <3>1. Len(ts) + 1 \in 1 .. Len(ts) + Len(fb) /\ ~(Len(ts) + 1 <= Len(ts)) /\ (Len(ts) + 1) - Len(ts) = 1
        BY <2>3, <2>5, <2>6, <2>18
      <3>2. (ts \o fb)[Len(ts) + 1] = c.fallback
        BY <2>6, <2>8, <2>18, <3>1
      <3>3. Nameable(I, A, L, BbMark((ts \o fb)[Len(ts) + 1]))
        BY <2>7, <2>8, <3>1
      <3>4. Nameable(I, A, L, BbMark(c.fallback)) /\ c.fallback \in Blocks
        BY <2>1, <2>18, <3>2, <3>3
      <3> QED
        BY <2>16, <3>4, JumpText
    <2> QED
      BY <2>16, <2>17, <2>18
  <1> QED
    BY <1>3, <1>4, <1>5, <1>6, <1>7 DEF Controls

LEMMA PrologueText ==
    ASSUME NEW I, NEW R, NEW A, NEW L, NEW a \in Texts(I, R, A, L)
    PROVE  Prologue(a) \in Texts(I, R, A, L)
  <1>1. PICK n : n = PushSize(memory.next) + PushSize(memory.freePointer) + 1
    OBVIOUS
  <1>2. n \in Nat
    BY <1>1, PushSizeIsNat
  <1>3. PushOps(a, n) \in Texts(I, R, A, L)
    BY <1>2, PushOpsText
  <1> QED
    BY <1>1, <1>3 DEF Prologue

LEMMA LiteralSizeIsNat ==
    ASSUME NEW op \in StackOps, op.op \in {"bytes", "store", "load", "alloc", "dyn_alloc"}
    PROVE  LiteralSize(op) \in Nat
  <1>1. PICK n, m, k : n = PushSize(memory.start[op.alloc]) /\ m = PushSize(op.size)
                       /\ k = PushSize(memory.freePointer)
    OBVIOUS
  <1>2. n \in Nat /\ m \in Nat /\ k \in Nat
    BY <1>1, PushSizeIsNat
  <1>3. CASE op.op = "bytes"
    <2>1. op.n \in Nat
      BY <1>3 DEF StackOps
    <2> QED
      BY <1>3, <2>1 DEF LiteralSize
  <1>4. CASE op.op \in {"store", "load"}
    <2>1. LiteralSize(op) = n + 1
      BY <1>1, <1>4 DEF LiteralSize
    <2> QED
      BY <1>2, <2>1
  <1>5. CASE op.op = "alloc"
    <2>1. LiteralSize(op) = n + IF op.alloc \in memory.zeroing THEN m + 3 ELSE 0
      BY <1>1, <1>5 DEF LiteralSize
    <2> QED
      BY <1>2, <2>1
  <1>6. CASE op.op = "dyn_alloc"
    <2>1. op.uses \in {1, 2} /\ op.n \in Nat
      BY <1>6 DEF StackOps
    <2>2. LiteralSize(op) = op.uses * k + op.n
      BY <1>1, <1>6 DEF LiteralSize
    <2>3. CASE op.uses = 1
      BY <1>2, <2>1, <2>2, <2>3
    <2>4. CASE op.uses = 2
      BY <1>2, <2>1, <2>2, <2>4
    <2> QED
      BY <2>1, <2>3, <2>4
  <1> QED
    BY <1>3, <1>4, <1>5, <1>6

LEMMA EmitText ==
    ASSUME NEW I, NEW R, NEW A, NEW L, asm \in Texts(I, R, A, L), ir \in Programs,
           bbMarks \in Nat, nextMark \in Nat, NEW op \in StackOps,
           IsCall(op) => Nameable(I, A, L, BbMark(ir.entry[op.fn])),
           op.op = "ret_push" => Nameable(I, A, L, nextMark),
           op.op = "data" => Nameable(I, A, L, DataMark(op.id)),
           Introspects(op) => runcode_start \in A /\ initcode_end \in A /\ runcode_start \notin I,
           initcode_end \in L,
           op.op = "icall" => ReturnMark(op.call) \in Nat \ I
    PROVE  /\ op.op # "icall" => Emit(op) \in Texts(I, R, A, L)
           /\ op.op = "icall" =>
                Emit(op) \in Texts(I \cup {ReturnMark(op.call)},
                                   IF runcode_start \in I THEN R \cup {ReturnMark(op.call)} ELSE R, A, L)
  <1>1. PICK a : a = asm
    OBVIOUS
  <1>2. a \in Texts(I, R, A, L)
    BY <1>1
  <1>3. CASE op.op \in {"bytes", "store", "load", "alloc", "dyn_alloc"}
    <2>1. PICK n : n = LiteralSize(op)
      OBVIOUS
    <2>2. n \in Nat
      BY <1>3, <2>1, LiteralSizeIsNat
    <2>3. PushOps(a, n) \in Texts(I, R, A, L)
      BY <1>2, <2>2, PushOpsText
    <2> QED
      BY <1>1, <1>3, <2>1, <2>3 DEF Emit
  <1>4. CASE op.op = "ret_push"
    <2>1. PICK m : m = nextMark
      OBVIOUS
    <2>2. m \in Nat /\ Nameable(I, A, L, m)
      BY <1>4, <2>1
    <2>3. PushReference(a, MarkToRef(m)) \in Texts(I, R, A, L)
      BY <1>2, <2>2, ReferenceText
    <2> QED
      BY <1>1, <1>4, <2>1, <2>3 DEF Emit
  <1>5. ASSUME IsCall(op)
        PROVE  PushOps(PushReference(a, CallTarget(op.fn)), 1) \in Texts(I, R, A, L)
    <2>1. PICK m : m = BbMark(ir.entry[op.fn])
      OBVIOUS
    <2>2. m \in Nat
      <3>1. ir.entry[op.fn] \in Blocks
        BY <1>5, OpFields, Program
      <3> QED
        BY <2>1, <3>1, NumbersAssumption DEF BbMark, Blocks
    <2>3. PICK b : b = PushReference(a, MarkToRef(m))
      OBVIOUS
    <2>4. b \in Texts(I, R, A, L)
      BY <1>2, <1>5, <2>1, <2>2, <2>3, ReferenceText
    <2>5. PushOps(b, 1) \in Texts(I, R, A, L)
      BY <2>4, PushOpsText
    <2> QED
      BY <2>1, <2>3, <2>5 DEF CallTarget
  <1>6. CASE op.op = "icall"
    <2>1. PICK m, b : m = ReturnMark(op.call) /\ b = PushOps(PushReference(a, CallTarget(op.fn)), 1)
      OBVIOUS
    <2>2. b \in Texts(I, R, A, L) /\ m \in Nat /\ m \notin I
      BY <1>5, <1>6, <2>1 DEF IsCall
    <2>3. PICK J, Q : J = I \cup {m} /\ Q = IF runcode_start \in I THEN R \cup {m} ELSE R
      OBVIOUS
    <2>4. PICK d : d = PushMark(b, m)
      OBVIOUS
    <2>5. d \in Texts(J, Q, A, L)
      BY <2>2, <2>3, <2>4, PushMarkText
    <2>6. PushOps(d, 1) \in Texts(J, Q, A, L)
      BY <2>5, PushOpsText
    <2>7. Emit(op) = PushOps(d, 1)
      BY <1>1, <1>6, <2>1, <2>4 DEF Emit
    <2> QED
      BY <1>6, <2>1, <2>3, <2>6, <2>7
  <1>7. CASE op.op = "icall_never"
    <2>1. Emit(op) = PushOps(PushReference(a, CallTarget(op.fn)), 1)
      BY <1>1, <1>7 DEF Emit
    <2> QED
      BY <1>5, <1>7, <2>1 DEF IsCall
  <1>8. CASE op.op = "data"
    <2>1. PICK m : m = DataMark(op.id)
      OBVIOUS
    <2>2. m \in Nat /\ Nameable(I, A, L, m)
      <3>1. op.id \in Datas
        BY <1>8 DEF StackOps
      <3> QED
        BY <1>8, <2>1, <3>1, NumbersAssumption DEF Datas, DataMark
    <2>3. PushReference(a, MarkToRef(m)) \in Texts(I, R, A, L)
      BY <1>2, <2>2, ReferenceText
    <2> QED
      BY <1>1, <1>8, <2>1, <2>3 DEF Emit
  <1>9. runcode_start \in Nat /\ initcode_end \in Nat
    BY DEF runcode_start, initcode_end
  <1>10. CASE op.op = "runtime_start"
    <2>1. PushReference(a, Direct(runcode_start)) \in Texts(I, R, A, L)
      BY <1>2, <1>9, <1>10, DirectText DEF Introspects
    <2> QED
      BY <1>1, <1>10, <2>1 DEF Emit
  <1>11. CASE op.op = "init_end"
    <2>1. PushReference(a, Direct(initcode_end)) \in Texts(I, R, A, L)
      BY <1>2, <1>9, <1>11, DirectText DEF Introspects
    <2> QED
      BY <1>1, <1>11, <2>1 DEF Emit
  <1>12. CASE op.op = "runtime_length"
    <2>1. PushReference(a, Delta(runcode_start, initcode_end)) \in Texts(I, R, A, L)
      BY <1>2, <1>9, DeltaText
    <2> QED
      BY <1>1, <1>12, <2>1 DEF Emit
  <1> QED
    BY <1>3, <1>4, <1>6, <1>7, <1>8, <1>10, <1>11, <1>12 DEF StackOps

LEMMA SegmentText ==
    ASSUME NEW I, NEW R, NEW A, NEW L, NEW a \in Texts(I, R, A, L), ir \in Programs,
           NEW d \in Datas, DataMark(d) \notin I
    PROVE  PushSegment(a, d) \in
             Texts(I \cup {DataMark(d)}, IF runcode_start \in I THEN R \cup {DataMark(d)} ELSE R, A, L)
  <1>1. PICK m, n : m = DataMark(d) /\ n = ir.data[d]
    OBVIOUS
  <1>2. m \in Nat /\ n \in Nat
    <2>1. IsProgram(ir)
      BY ProgramsAssumption
    <2> QED
      BY <1>1, <2>1, NumbersAssumption DEF IsProgram, DataMark, Datas
  <1>3. PICK J, Q : J = I \cup {m} /\ Q = IF runcode_start \in I THEN R \cup {m} ELSE R
    OBVIOUS
  <1>4. PICK b : b = PushMark(a, m)
    OBVIOUS
  <1>5. b \in Texts(J, Q, A, L)
    BY <1>1, <1>2, <1>3, <1>4, PushMarkText
  <1>6. PushData(b, n) \in Texts(J, Q, A, L)
    BY <1>2, <1>5, PushBytesText DEF PushData
  <1> QED
    BY <1>1, <1>3, <1>4, <1>6 DEF PushSegment

LEMMA SegmentsText ==
    ASSUME NEW I, NEW R, NEW A, NEW L, NEW a \in Texts(I, R, A, L), ir \in Programs,
           NEW ds \in SUBSET Datas, \A d \in ds : DataMark(d) \notin I
    PROVE  PushSegments(a, ds) \in
             Texts(I \cup DataMarks(ds), IF runcode_start \in I THEN R \cup DataMarks(ds) ELSE R, A, L)
  <1> DEFINE n == NumDatas
             Next_(v, i) == IF i - 1 \in ds THEN PushSegment(v, i - 1) ELSE v
             Upto(i) == {d \in ds : d < i}
             J(i) == I \cup DataMarks(Upto(i))
             Q(i) == IF runcode_start \in I THEN R \cup DataMarks(Upto(i)) ELSE R
             W(i) == Texts(J(i), Q(i), A, L)
             All == UNION {W(i) : i \in 0 .. n}
             step == [i \in 1 .. n |-> [v \in All |-> IF v \in W(i - 1) THEN Next_(v, i) ELSE v]]
             after[i \in 0 .. NumDatas] ==
                 IF i = 0 THEN a
                 ELSE IF i - 1 \in ds THEN PushSegment(after[i - 1], i - 1) ELSE after[i - 1]
  <1>0. n \in Nat /\ \A d \in ds : d \in Nat /\ d < n
    BY NumbersAssumption DEF Datas
  <1>1. n \in Nat /\ Upto(0) = {} /\ Upto(n) = ds
    BY <1>0
  <1>2. ASSUME NEW i \in 1 .. n, NEW v \in W(i - 1) PROVE Next_(v, i) \in W(i)
    <2>1. CASE i - 1 \in ds
      <3>1. PICK d, I1, R1 : d = i - 1 /\ I1 = J(i - 1) /\ R1 = Q(i - 1)
        OBVIOUS
      <3>2. d \in Datas /\ DataMark(d) \notin I1 /\ (runcode_start \in I1 <=> runcode_start \in I)
        BY <1>1, <2>1, <3>1 DEF Datas, DataMarks, DataMark, runcode_start
      <3>3. Upto(i) = Upto(i - 1) \cup {d}
        BY <1>0, <2>1, <3>1
      <3>4. J(i) = I1 \cup {DataMark(d)} /\ Q(i) = IF runcode_start \in I THEN R1 \cup {DataMark(d)} ELSE R1
        BY <3>1, <3>3 DEF DataMarks
      <3>5. v \in Texts(I1, R1, A, L)
        BY <3>1
      <3> HIDE DEF J, Q
      <3>6. PushSegment(v, d) \in
              Texts(I1 \cup {DataMark(d)}, IF runcode_start \in I1 THEN R1 \cup {DataMark(d)} ELSE R1, A, L)
        BY <3>2, <3>5, SegmentText
      <3>7. PushSegment(v, d) \in Texts(J(i), Q(i), A, L)
        BY <3>2, <3>4, <3>6
      <3> QED
        BY <2>1, <3>1, <3>7
    <2>2. CASE i - 1 \notin ds
      <3>1. Upto(i) = Upto(i - 1)
        BY <1>0, <2>2
      <3> QED
        BY <2>2, <3>1
    <2> QED
      BY <2>1, <2>2
  <1>3. a \in W(0)
    <2>1. J(0) = I /\ Q(0) = R
      BY <1>1 DEF DataMarks
    <2> QED
      BY <2>1
  <1> HIDE DEF W, Upto
  <1>4. step \in [1 .. n -> [All -> All]]
    <2>1. ASSUME NEW i \in 1 .. n, NEW v \in All PROVE (IF v \in W(i - 1) THEN Next_(v, i) ELSE v) \in All
      <3>1. i \in 0 .. n
        BY <1>1
      <3> HIDE DEF Next_
      <3> QED
        BY <1>2, <2>1, <3>1
    <2> HIDE DEF All, Next_
    <2> QED
      BY <2>1
  <1>5. PICK f \in [0 .. n -> All] : f[0] = a /\ \A i \in 1 .. n : f[i] = step[i][f[i - 1]]
    <2>1. a \in All
      BY <1>1, <1>3
    <2> HIDE DEF step, n, All
    <2>2. Recursions(n, All, a, step) # {}
      BY <1>1, <1>4, <2>1, RecursionUpTo
    <2> QED
      BY <2>2 DEF Recursions
  <1>6. ASSUME NEW g, g[0] = a, \A i \in 1 .. n : g[i - 1] \in W(i - 1) => g[i] = Next_(g[i - 1], i)
        PROVE  \A i \in 0 .. n : g[i] \in W(i)
    <2> DEFINE T == {i \in 0 .. n : g[i] \in W(i)}
    <2>1. 0 \in T
      BY <1>1, <1>3, <1>6
    <2>2. ASSUME NEW i \in 1 .. n, i - 1 \in T PROVE i \in T
      <3> HIDE DEF W
      <3>5. g[i - 1] \in W(i - 1)
        BY <2>2
      <3>6. i \in 0 .. n
        BY <1>1
      <3> USE DEF W
      <3>1. g[i - 1] \in W(i - 1) /\ i \in 0 .. n
        BY <3>5, <3>6
      <3>2. g[i] = Next_(g[i - 1], i)
        BY <1>6, <3>1
      <3>3. PICK v : v = g[i - 1]
        OBVIOUS
      <3> HIDE DEF Next_
      <3>4. Next_(v, i) \in W(i)
        BY <1>2, <3>1, <3>3
      <3> QED
        BY <3>1, <3>2, <3>3, <3>4
    <2> HIDE DEF T
    <2>3. 0 .. n \subseteq T
      BY <1>1, <2>1, <2>2, InductionUpTo
    <2> QED
      BY <2>3 DEF T
  <1>7. \A i \in 1 .. n : f[i - 1] \in W(i - 1) => f[i] = Next_(f[i - 1], i)
    <2>1. ASSUME NEW i \in 1 .. n, f[i - 1] \in W(i - 1) PROVE f[i] = Next_(f[i - 1], i)
      <3>1. i - 1 \in 0 .. n
        BY <1>1
      <3>2. f[i - 1] \in All /\ f[i] = step[i][f[i - 1]]
        BY <1>5, <3>1
      <3>3. step[i] = [v \in All |-> IF v \in W(i - 1) THEN Next_(v, i) ELSE v]
        OBVIOUS
      <3> HIDE DEF step, All, Next_
      <3> QED
        BY <2>1, <3>2, <3>3
    <2> QED
      BY <2>1
  <1>8. \A i \in 0 .. n : f[i] \in W(i)
    <2> HIDE DEF Next_, step
    <2> QED
      BY <1>5, <1>6, <1>7
  <1>9. f = [i \in 0 .. n |-> IF i = 0 THEN a ELSE Next_(f[i - 1], i)]
    <2>1. \A i \in 0 .. n : f[i] = IF i = 0 THEN a ELSE Next_(f[i - 1], i)
      <3>1. \A i \in 0 .. n : i # 0 => i \in 1 .. n /\ i - 1 \in 0 .. n
        BY <1>1
      <3> HIDE DEF Next_, step
      <3> QED
        BY <1>5, <1>7, <1>8, <3>1
    <2> HIDE DEF Next_, step, All
    <2> QED
      BY <1>5, <2>1
  <1>10. after = [i \in 0 .. n |-> IF i = 0 THEN a ELSE Next_(after[i - 1], i)]
    <2>1. after = CHOOSE g : g = [i \in 0 .. n |-> IF i = 0 THEN a ELSE Next_(g[i - 1], i)]
      BY DEF after
    <2> HIDE DEF after, Next_
    <2> QED
      BY <1>9, <2>1
  <1> HIDE DEF after
  <1>11. after[n] \in W(n)
    <2> HIDE DEF Next_
    <2>1. after[0] = a
      BY <1>1, <1>10
    <2>2. ASSUME NEW i \in 1 .. n PROVE after[i] = Next_(after[i - 1], i)
      <3>1. i \in 0 .. n /\ i # 0
        BY <1>1
      <3> QED
        BY <1>10, <3>1
    <2>3. \A i \in 0 .. n : after[i] \in W(i)
      BY <1>6, <2>1, <2>2
    <2> QED
      BY <1>1, <2>3
  <1>12. J(n) = I \cup DataMarks(ds) /\ Q(n) = IF runcode_start \in I THEN R \cup DataMarks(ds) ELSE R
    BY <1>1
  <1>13. PushSegments(a, ds) = after[n]
    BY DEF PushSegments, after
  <1> QED
    BY <1>11, <1>12, <1>13 DEF W

-----------------------------------------------------------------------------
(* Work lists in which nothing waits twice. *)

(* What v has and w has not is X, and what is new in it waits. *)
Extends(S, w, v, X) ==
    /\ v \in ProperLists(S)
    /\ v.seen = w.seen \cup X
    /\ \A y : Has(v.todo, y) <=> Has(w.todo, y) \/ (y \in X /\ y \notin w.seen)

LEMMA ExtendsNothing ==
    ASSUME NEW S, NEW w \in ProperLists(S)
    PROVE  Extends(S, w, w, {})
BY DEF Extends

LEMMA ExtendsTwice ==
    ASSUME NEW S, NEW w, NEW v, NEW u, NEW X, NEW Y, Extends(S, w, v, X), Extends(S, v, u, Y)
    PROVE  Extends(S, w, u, X \cup Y)
BY DEF Extends

LEMMA EnqueueExtends ==
    ASSUME NEW S, NEW w \in ProperLists(S), NEW x \in S
    PROVE  Extends(S, w, Enqueue(w, x), {x})
  <1>1. /\ w \in WorkLists(S) /\ w.todo \in Seq(S)
        /\ \A i, j \in 1 .. Len(w.todo) : w.todo[i] = w.todo[j] => i = j
        /\ \A i \in 1 .. Len(w.todo) : w.todo[i] \in w.seen
    BY DEF ProperLists, WorkLists
  <1>2. /\ Enqueue(w, x) \in WorkLists(S)
        /\ Enqueue(w, x).seen = w.seen \cup {x}
        /\ \A y : Has(Enqueue(w, x).todo, y) <=> Has(w.todo, y) \/ (y = x /\ x \notin w.seen)
    BY <1>1, EnqueueOne
  <1>3. Enqueue(w, x) \in ProperLists(S)
    <2>1. CASE x \in w.seen
      BY <2>1 DEF Enqueue
    <2>2. CASE x \notin w.seen
      <3>1. PICK t, n : t = Append(w.todo, x) /\ n = Len(w.todo)
        OBVIOUS
      <3>2. n \in Nat /\ Len(t) = n + 1 /\ t[n + 1] = x /\ \A i \in 1 .. n : t[i] = w.todo[i]
        BY <1>1, <3>1, AppendProperties, LenProperties
      <3>3. Enqueue(w, x).todo = t
        BY <2>2, <3>1 DEF Enqueue
      <3>4. \A i \in 1 .. n + 1 : i \in 1 .. n \/ i = n + 1
        BY <3>2
      <3>5. \A i, j \in 1 .. n + 1 : t[i] = t[j] => i = j
        BY <1>1, <2>2, <3>1, <3>2, <3>4
      <3>6. \A i \in 1 .. n + 1 : t[i] \in w.seen \cup {x}
        BY <1>1, <3>1, <3>2, <3>4
      <3> QED
        BY <1>2, <3>2, <3>3, <3>5, <3>6 DEF ProperLists
    <2> QED
      BY <2>1, <2>2
  <1> QED
    BY <1>2, <1>3 DEF Extends

(* A list to which X[1], X[2] .. are added, one after the other. *)
AddsInTurn(S, n, w, X, after) ==
    /\ after[0] = w
    /\ \A i \in 1 .. n : after[i - 1] \in ProperLists(S) => Extends(S, after[i - 1], after[i], X[i])

LEMMA FoldExtends ==
    ASSUME NEW S, NEW n \in Nat, NEW w \in ProperLists(S), NEW X, NEW after,
           AddsInTurn(S, n, w, X, after)
    PROVE  /\ Extends(S, w, after[n], UNION {X[i] : i \in 1 .. n})
           /\ \A i \in 0 .. n : after[i] \in ProperLists(S)
  <1>1. PICK U : U = [i \in 0 .. n |-> UNION {X[k] : k \in 1 .. i}]
    OBVIOUS
  <1>2. U[0] = {} /\ \A i \in 1 .. n : U[i] = U[i - 1] \cup X[i]
    <2>1. U[0] = {}
      BY <1>1
    <2>2. ASSUME NEW i \in 1 .. n PROVE U[i] = U[i - 1] \cup X[i]
      <3>1. U[i] = UNION {X[k] : k \in 1 .. i} /\ U[i - 1] = UNION {X[k] : k \in 1 .. i - 1}
        BY <1>1
      <3>2. 1 .. i = (1 .. i - 1) \cup {i}
        OBVIOUS
      <3> QED
        BY <3>1, <3>2
    <2> QED
      BY <2>1, <2>2
  <1> DEFINE T == {i \in 0 .. n : Extends(S, w, after[i], U[i])}
  <1>3. 0 \in T
    <2>1. Extends(S, w, after[0], U[0])
      BY <1>2, ExtendsNothing DEF AddsInTurn
    <2> QED
      BY <2>1
  <1>4. ASSUME NEW i \in 1 .. n, i - 1 \in T PROVE i \in T
    <2>1. PICK v, u, A : v = after[i - 1] /\ u = after[i] /\ A = U[i - 1]
      OBVIOUS
    <2>2. Extends(S, w, v, A)
      BY <1>4, <2>1
    <2>3. v \in ProperLists(S)
      BY <2>2 DEF Extends
    <2>4. Extends(S, v, u, X[i])
      BY <2>1, <2>3 DEF AddsInTurn
    <2>5. Extends(S, w, u, A \cup X[i])
      BY <2>2, <2>4, ExtendsTwice
    <2>6. Extends(S, w, after[i], U[i])
      BY <1>2, <2>1, <2>5
    <2> QED
      BY <2>6
  <1> HIDE DEF T
  <1>5. 0 .. n \subseteq T
    BY <1>3, <1>4, InductionUpTo
  <1>6. n \in T
    BY <1>5
  <1>7. \A i \in 0 .. n : after[i] \in ProperLists(S)
    BY <1>5 DEF T, Extends
  <1> QED
    BY <1>1, <1>6, <1>7 DEF T

LEMMA EnqueueAllExtends ==
    ASSUME NEW S, NEW w \in ProperLists(S), NEW xs \in Seq(S)
    PROVE  Extends(S, w, EnqueueAll(w, xs), {xs[i] : i \in 1 .. Len(xs)})
  <1> DEFINE n == Len(xs)
             W == ProperLists(S)
             X == [i \in 1 .. n |-> {xs[i]}]
             step == [i \in 1 .. n |-> [v \in W |-> Enqueue(v, xs[i])]]
             after[i \in 0 .. Len(xs)] == IF i = 0 THEN w ELSE Enqueue(after[i - 1], xs[i])
  <1>1. n \in Nat /\ \A i \in 1 .. n : xs[i] \in S
    BY LenProperties, ElementOfSeq
  <1>2. \A i \in 1 .. n : \A v \in W : Enqueue(v, xs[i]) \in W /\ Extends(S, v, Enqueue(v, xs[i]), X[i])
    BY <1>1, EnqueueExtends DEF Extends
  <1>3. step \in [1 .. n -> [W -> W]] /\ \A i \in 1 .. n : \A v \in W : step[i][v] = Enqueue(v, xs[i])
    BY <1>2
  <1> HIDE DEF step, W
  <1>4. PICK f \in [0 .. n -> W] : f[0] = w /\ \A i \in 1 .. n : f[i] = step[i][f[i - 1]]
    <2> HIDE DEF n
    <2>1. w \in W
      BY DEF W
    <2>2. Recursions(n, W, w, step) # {}
      BY <1>1, <1>3, <2>1, RecursionUpTo
    <2> QED
      BY <2>2 DEF Recursions
  <1>5. ASSUME NEW i \in 1 .. n PROVE f[i] = Enqueue(f[i - 1], xs[i])
    <2>1. f[i - 1] \in W
      BY <1>1, <1>4
    <2> QED
      BY <1>3, <1>4, <2>1
  <1>6. f = [i \in 0 .. n |-> IF i = 0 THEN w ELSE Enqueue(f[i - 1], xs[i])]
    BY <1>1, <1>4, <1>5
  <1>7. after = [i \in 0 .. n |-> IF i = 0 THEN w ELSE Enqueue(after[i - 1], xs[i])]
    <2>1. after = CHOOSE g : g = [i \in 0 .. n |-> IF i = 0 THEN w ELSE Enqueue(g[i - 1], xs[i])]
      BY DEF after
    <2> HIDE DEF after
    <2> QED
      BY <1>6, <2>1
  <1> HIDE DEF after, X
  <1>8. AddsInTurn(S, n, w, X, after)
    <2>1. after[0] = w /\ \A i \in 1 .. n : after[i] = Enqueue(after[i - 1], xs[i])
      BY <1>1, <1>7
    <2>2. ASSUME NEW i \in 1 .. n, after[i - 1] \in ProperLists(S)
          PROVE  Extends(S, after[i - 1], after[i], X[i])
      BY <1>2, <2>1, <2>2 DEF W
    <2> QED
      BY <2>1, <2>2 DEF AddsInTurn
  <1>9. Extends(S, w, after[n], UNION {X[i] : i \in 1 .. n})
    BY <1>1, <1>8, FoldExtends, SMTT(30)
  <1>10. UNION {X[i] : i \in 1 .. n} = {xs[i] : i \in 1 .. n}
    BY DEF X
  <1>11. EnqueueAll(w, xs) = after[n]
    BY DEF EnqueueAll, after
  <1> QED
    BY <1>9, <1>10, <1>11

(* The entries of the functions that a block calls. *)
Callees(s) == {ir.entry[s[i].fn] : i \in {k \in 1 .. Len(s) : IsCall(s[k])}}

LEMMA EnqueueCalleesExtends ==
    ASSUME ir \in Programs, NEW w \in ProperLists(Blocks), NEW s \in Seq(StackOps)
    PROVE  Extends(Blocks, w, EnqueueCallees(w, s), Callees(s))
  <1> DEFINE n == Len(s)
             W == ProperLists(Blocks)
             Add(v, i) == IF IsCall(s[i]) THEN Enqueue(v, ir.entry[s[i].fn]) ELSE v
             X == [i \in 1 .. n |-> IF IsCall(s[i]) THEN {ir.entry[s[i].fn]} ELSE {}]
             step == [i \in 1 .. n |-> [v \in W |-> Add(v, i)]]
             after[i \in 0 .. Len(s)] ==
                 IF i = 0 THEN w
                 ELSE IF IsCall(s[i]) THEN Enqueue(after[i - 1], ir.entry[s[i].fn]) ELSE after[i - 1]
  <1>1. n \in Nat /\ \A i \in 1 .. n : IsCall(s[i]) => ir.entry[s[i].fn] \in Blocks
    <2>1. \A i \in 1 .. n : s[i] \in StackOps
      BY ElementOfSeq
    <2> QED
      BY <2>1, LenProperties, OpFields, Program
  <1>2. \A i \in 1 .. n : \A v \in W : Add(v, i) \in W /\ Extends(Blocks, v, Add(v, i), X[i])
    <2>1. ASSUME NEW i \in 1 .. n, NEW v \in W PROVE Extends(Blocks, v, Add(v, i), X[i])
      <3>1. CASE IsCall(s[i])
        BY <1>1, <3>1, EnqueueExtends
      <3>2. CASE ~IsCall(s[i])
        BY <3>2, ExtendsNothing
      <3> QED
        BY <3>1, <3>2
    <2> HIDE DEF Add, X
    <2> QED
      BY <2>1 DEF Extends
  <1>3. step \in [1 .. n -> [W -> W]] /\ \A i \in 1 .. n : \A v \in W : step[i][v] = Add(v, i)
    <2> HIDE DEF Add, W
    <2> QED
      BY <1>2
  <1> HIDE DEF step, W
  <1>4. PICK f \in [0 .. n -> W] : f[0] = w /\ \A i \in 1 .. n : f[i] = step[i][f[i - 1]]
    <2> HIDE DEF n
    <2>1. w \in W
      BY DEF W
    <2>2. Recursions(n, W, w, step) # {}
      BY <1>1, <1>3, <2>1, RecursionUpTo
    <2> QED
      BY <2>2 DEF Recursions
  <1>5. ASSUME NEW i \in 1 .. n PROVE f[i] = Add(f[i - 1], i)
    <2>1. f[i - 1] \in W
      BY <1>1, <1>4
    <2> HIDE DEF Add
    <2> QED
      BY <1>3, <1>4, <2>1
  <1>6. f = [i \in 0 .. n |-> IF i = 0 THEN w ELSE Add(f[i - 1], i)]
    <2> HIDE DEF Add
    <2> QED
      BY <1>1, <1>4, <1>5
  <1>7. after = [i \in 0 .. n |-> IF i = 0 THEN w ELSE Add(after[i - 1], i)]
    <2>1. after = CHOOSE g : g = [i \in 0 .. n |-> IF i = 0 THEN w ELSE Add(g[i - 1], i)]
      BY DEF after
    <2> HIDE DEF after, Add
    <2> QED
      BY <1>6, <2>1
  <1> HIDE DEF after, X, Add
  <1>8. AddsInTurn(Blocks, n, w, X, after)
    <2>1. after[0] = w /\ \A i \in 1 .. n : after[i] = Add(after[i - 1], i)
      BY <1>1, <1>7
    <2>2. ASSUME NEW i \in 1 .. n, after[i - 1] \in ProperLists(Blocks)
          PROVE  Extends(Blocks, after[i - 1], after[i], X[i])
      BY <1>2, <2>1, <2>2 DEF W
    <2> QED
      BY <2>1, <2>2 DEF AddsInTurn
  <1>9. Extends(Blocks, w, after[n], UNION {X[i] : i \in 1 .. n})
    BY <1>1, <1>8, FoldExtends, SMTT(30)
  <1>10. UNION {X[i] : i \in 1 .. n} = Callees(s)
    BY DEF X, Callees
  <1>11. EnqueueCallees(w, s) = after[n]
    BY DEF EnqueueCallees, after
  <1> QED
    BY <1>9, <1>10, <1>11

LEMMA PopProper ==
    ASSUME NEW S, NEW w \in ProperLists(S), w.todo # <<>>
    PROVE  /\ Pop(w) \in ProperLists(S) /\ Pop(w).seen = w.seen
           /\ Last(w.todo) \in S /\ Last(w.todo) \in w.seen /\ ~Has(Pop(w).todo, Last(w.todo))
           /\ \A y : Has(w.todo, y) <=> Has(Pop(w).todo, y) \/ y = Last(w.todo)
  <1>1. /\ w \in WorkLists(S) /\ w.todo \in Seq(S)
        /\ \A i, j \in 1 .. Len(w.todo) : w.todo[i] = w.todo[j] => i = j
        /\ \A i \in 1 .. Len(w.todo) : w.todo[i] \in w.seen
    BY DEF ProperLists, WorkLists
  <1>2. /\ Pop(w) \in WorkLists(S) /\ Pop(w).seen = w.seen
        /\ Last(w.todo) \in S
        /\ \A y : Has(w.todo, y) <=> Has(Pop(w).todo, y) \/ y = Last(w.todo)
    BY <1>1, PopOne
  <1>3. PICK s, n, t : s = w.todo /\ n = Len(w.todo) /\ t = Pop(w).todo
    OBVIOUS
  <1>4. t = Front(s)
    <2>1. Pop(w) = [todo |-> Front(w.todo), seen |-> w.seen]
      BY <1>1 DEF Pop, WorkLists
    <2> QED
      BY <1>3, <2>1
  <1>5. /\ n \in Nat \ {0} /\ Len(t) = n - 1 /\ \A i \in 1 .. n - 1 : t[i] = s[i]
        /\ Last(s) = s[n]
    BY <1>1, <1>3, <1>4, FrontProperties
  <1>6. \A i \in 1 .. n - 1 : i \in 1 .. n /\ i # n
    BY <1>5
  <1>7. \A i, j \in 1 .. n - 1 : t[i] = t[j] => i = j
    BY <1>1, <1>3, <1>5, <1>6
  <1>8. \A i \in 1 .. n - 1 : t[i] \in w.seen
    BY <1>1, <1>3, <1>5, <1>6
  <1>9. n \in 1 .. n
    BY <1>5
  <1>10. ~Has(t, Last(s))
    BY <1>1, <1>3, <1>5, <1>6, <1>9 DEF Has
  <1>11. Last(s) \in w.seen
    BY <1>1, <1>3, <1>5, <1>9
  <1> QED
    BY <1>2, <1>3, <1>5, <1>7, <1>8, <1>10, <1>11 DEF ProperLists

-----------------------------------------------------------------------------
(* The blocks reachable are a set that no jump and no call leaves, and the *)
(* least such set.                                                         *)

LEMMA OpsOfBlock ==
    ASSUME ir \in Programs, NEW b \in Blocks
    PROVE  /\ \A o : o \in Range(ir.ops[b]) <=> \E i \in 1 .. Len(ir.ops[b]) : o = ir.ops[b][i]
           /\ \A c : c \in Range(Successors(ir.control[b]))
                  <=> \E k \in 1 .. Len(Successors(ir.control[b])) : c = Successors(ir.control[b])[k]
           /\ \A k \in 1 .. Len(Successors(ir.control[b])) : Successors(ir.control[b])[k] \in Blocks
  <1>1. PICK s, t : s = ir.ops[b] /\ t = Successors(ir.control[b])
    OBVIOUS
  <1>2. s \in Seq(StackOps) /\ t \in Seq(Blocks)
    BY <1>1, Program, SuccessorsAreBlocks
  <1>3. DOMAIN s = 1 .. Len(s) /\ DOMAIN t = 1 .. Len(t) /\ \A k \in 1 .. Len(t) : t[k] \in Blocks
    BY <1>2, LenProperties, ElementOfSeq
  <1> QED
    BY <1>1, <1>3 DEF Range

LEMMA ClosedByIndex ==
    ASSUME ir \in Programs, NEW B \in SUBSET Blocks
    PROVE  IsClosed(B) <=>
             \A b \in B : /\ \A i \in 1 .. Len(ir.ops[b]) :
                                IsCall(ir.ops[b][i]) => ir.entry[ir.ops[b][i].fn] \in B
                          /\ \A k \in 1 .. Len(Successors(ir.control[b])) : Successors(ir.control[b])[k] \in B
  <1>1. ASSUME NEW b \in B
        PROVE  /\ (\A o \in Range(ir.ops[b]) : IsCall(o) => ir.entry[o.fn] \in B)
                    <=> \A i \in 1 .. Len(ir.ops[b]) :
                           IsCall(ir.ops[b][i]) => ir.entry[ir.ops[b][i].fn] \in B
               /\ Range(Successors(ir.control[b])) \subseteq B
                    <=> \A k \in 1 .. Len(Successors(ir.control[b])) : Successors(ir.control[b])[k] \in B
    <2>1. PICK s, t : s = ir.ops[b] /\ t = Successors(ir.control[b])
      OBVIOUS
    <2>2. /\ \A o : o \in Range(s) <=> \E i \in 1 .. Len(s) : o = s[i]
          /\ \A c : c \in Range(t) <=> \E k \in 1 .. Len(t) : c = t[k]
      <3>1. b \in Blocks
        OBVIOUS
      <3>2. /\ \A o : o \in Range(ir.ops[b]) <=> \E i \in 1 .. Len(ir.ops[b]) : o = ir.ops[b][i]
            /\ \A c : c \in Range(Successors(ir.control[b]))
                  <=> \E k \in 1 .. Len(Successors(ir.control[b])) : c = Successors(ir.control[b])[k]
        BY <3>1, OpsOfBlock
      <3> QED
        BY <2>1, <3>2, Zenon
    <2>3. (\A o \in Range(s) : IsCall(o) => ir.entry[o.fn] \in B)
             <=> \A i \in 1 .. Len(s) : IsCall(s[i]) => ir.entry[s[i].fn] \in B
      BY <2>2
    <2>4. Range(t) \subseteq B <=> \A k \in 1 .. Len(t) : t[k] \in B
      BY <2>2
    <2> QED
      BY <2>1, <2>3, <2>4
  <1> QED
    BY <1>1 DEF IsClosed

LEMMA ReachableIsClosed ==
    ASSUME ir \in Programs, NEW f \in Functions
    PROVE  /\ Reachable(f) \in SUBSET Blocks
           /\ ir.entry[f] \in Reachable(f)
           /\ \A b \in Reachable(f) :
                 /\ \A i \in 1 .. Len(ir.ops[b]) :
                       IsCall(ir.ops[b][i]) => ir.entry[ir.ops[b][i].fn] \in Reachable(f)
                 /\ \A k \in 1 .. Len(Successors(ir.control[b])) :
                       Successors(ir.control[b])[k] \in Reachable(f)
  <1>1. Reachable(f) \in SUBSET Blocks
    BY DEF Reachable
  <1>2. ir.entry[f] \in Reachable(f)
    BY Program DEF Reachable
  <1>3. ASSUME NEW b \in Reachable(f), NEW i \in 1 .. Len(ir.ops[b]), IsCall(ir.ops[b][i])
        PROVE  ir.entry[ir.ops[b][i].fn] \in Reachable(f)
    <2>1. b \in Blocks /\ ir.ops[b][i] \in StackOps
      BY <1>1, Program
    <2>2. ir.entry[ir.ops[b][i].fn] \in Blocks
      BY <1>3, <2>1, OpFields, Program
    <2>3. ASSUME NEW B \in SUBSET Blocks, ir.entry[f] \in B, IsClosed(B)
          PROVE  ir.entry[ir.ops[b][i].fn] \in B
      <3>1. b \in B
        BY <2>3 DEF Reachable
      <3> QED
        BY <1>3, <2>3, <3>1, ClosedByIndex
    <2> QED
      BY <2>2, <2>3 DEF Reachable
  <1>4. ASSUME NEW b \in Reachable(f), NEW k \in 1 .. Len(Successors(ir.control[b]))
        PROVE  Successors(ir.control[b])[k] \in Reachable(f)
    <2>1. b \in Blocks
      BY <1>1
    <2>2. Successors(ir.control[b])[k] \in Blocks
      BY <2>1, OpsOfBlock
    <2>3. ASSUME NEW B \in SUBSET Blocks, ir.entry[f] \in B, IsClosed(B)
          PROVE  Successors(ir.control[b])[k] \in B
      <3>1. b \in B
        BY <2>3 DEF Reachable
      <3> QED
        BY <2>3, <3>1, ClosedByIndex
    <2> QED
      BY <2>2, <2>3 DEF Reachable
  <1> QED
    BY <1>1, <1>2, <1>3, <1>4

LEMMA DataUsedByIndex ==
    ASSUME ir \in Programs, NEW f \in Functions
    PROVE  /\ DataUsed(f) \in SUBSET Datas
           /\ \A d : d \in DataUsed(f) <=>
                \E b \in Reachable(f) : \E i \in 1 .. Len(ir.ops[b]) :
                    ir.ops[b][i].op = "data" /\ ir.ops[b][i].id = d
  <1>1. Reachable(f) \in SUBSET Blocks
    BY ReachableIsClosed
  <1>2. ASSUME NEW b \in Reachable(f), NEW i \in 1 .. Len(ir.ops[b]), ir.ops[b][i].op = "data"
        PROVE  ir.ops[b][i].id \in Datas
    <2>1. PICK op : op = ir.ops[b][i]
      OBVIOUS
    <2>2. op \in StackOps
      BY <1>1, <2>1, Program
    <2>3. op.id \in Datas
      BY <1>2, <2>1, <2>2 DEF StackOps
    <2> QED
      BY <2>1, <2>3
  <1>3. ASSUME NEW b \in Reachable(f)
        PROVE  \A o : o \in Range(ir.ops[b]) <=> \E i \in 1 .. Len(ir.ops[b]) : o = ir.ops[b][i]
    BY <1>1, OpsOfBlock
  <1>4. ASSUME NEW b \in Reachable(f), NEW d
        PROVE  (\E o \in Range(ir.ops[b]) : o.op = "data" /\ o.id = d)
                  <=> \E i \in 1 .. Len(ir.ops[b]) : ir.ops[b][i].op = "data" /\ ir.ops[b][i].id = d
    <2>1. PICK s : s = ir.ops[b]
      OBVIOUS
    <2>2. \A o : o \in Range(s) <=> \E i \in 1 .. Len(s) : o = s[i]
      BY <1>3, <2>1
    <2> QED
      BY <2>1, <2>2
  <1>5. DataUsed(f) \in SUBSET Datas
    BY DEF DataUsed
  <1>6. ASSUME NEW d
        PROVE  d \in DataUsed(f) <=>
                 d \in Datas /\ \E b \in Reachable(f) : \E i \in 1 .. Len(ir.ops[b]) :
                    ir.ops[b][i].op = "data" /\ ir.ops[b][i].id = d
    BY <1>4 DEF DataUsed
  <1> QED
    BY <1>2, <1>5, <1>6

LEMMA ReachableStays ==
    ASSUME ir' = ir
    PROVE  /\ \A f : Reachable(f)' = Reachable(f)
           /\ \A f : DataUsed(f)' = DataUsed(f)
           /\ UsedByMain' = UsedByMain
           /\ Reachable(ir.init)' = Reachable(ir.init) /\ DataUsed(ir.init)' = DataUsed(ir.init)
           /\ Reachable(ir.main)' = Reachable(ir.main) /\ DataUsed(ir.main)' = DataUsed(ir.main)
  <1>1. \A f : Reachable(f)' = Reachable(f)
    BY DEF Reachable, IsClosed, IsCall, Blocks
  <1>2. \A f : DataUsed(f)' = DataUsed(f)
    BY <1>1 DEF DataUsed, Datas
  <1>3. Reachable(ir.init)' = Reachable(ir.init) /\ Reachable(ir.main)' = Reachable(ir.main)
    BY DEF Reachable, IsClosed, IsCall, Blocks
  <1>4. DataUsed(ir.init)' = DataUsed(ir.init) /\ DataUsed(ir.main)' = DataUsed(ir.main)
    BY <1>3 DEF DataUsed, Datas
  <1> QED
    BY <1>1, <1>2, <1>3, <1>4 DEF UsedByMain

LEMMA InitMarksStay ==
    ASSUME ir' = ir, initOnly' = initOnly, NEW B, NEW n, InitMarks(B, n)
    PROVE  InitMarks(B, n)'
BY ReachableStays DEF InitMarks, Datas, Blocks, DataMark, FirstBbMark

-----------------------------------------------------------------------------
(* The allocator's steps, and the last ones. *)

LEMMA CollectKeepsContract ==
    ASSUME BackendInv, ContractInv, stage = "memory", stage' \in {"memory", "panic"},
           ir' = ir, target' = target, asm' = asm, nextMark' = nextMark, initOnly' = initOnly,
           runtimeDatas' = runtimeDatas
    PROVE  ContractInv'
  <1>1. CASE target = "init"
    <2>1. Untouched /\ runtimeDatas = {}
      BY <1>1 DEF ContractInv
    <2> QED
      BY <1>1, <2>1 DEF ContractInv, Untouched, FirstBbMark
  <1>2. CASE target = "main"
    <2>1. Between
      BY <1>2 DEF ContractInv
    <2>2. DatasInv'
      BY <2>1, ReachableStays DEF Between, DatasInv
    <2>3. PICK B \in SUBSET Nat : InitMarks(B, nextMark) /\ asm \in Texts(B, {}, LeftOver(B), {initcode_end})
      BY <2>1 DEF Between
    <2>4. InitMarks(B, nextMark)'
      <3>1. PICK n : n = nextMark
        OBVIOUS
      <3>2. InitMarks(B, n)
        BY <2>3, <3>1
      <3>3. InitMarks(B, n)'
        BY <3>2, InitMarksStay
      <3> QED
        BY <3>1, <3>3 DEF InitMarks
    <2>5. LeftOver(B)' = LeftOver(B)
      BY DEF LeftOver, DataMarks, DataMark
    <2>6. asm' \in Texts(B, {}, LeftOver(B)', {initcode_end})
      BY <2>3, <2>5
    <2>7. Between'
      BY <2>1, <2>2, <2>4, <2>6 DEF Between, FirstBbMark
    <2> QED
      BY <1>2, <2>7 DEF ContractInv
  <1> QED
    BY <1>1, <1>2 DEF BackendInv, TypeInv

LEMMA WholeStays ==
    ASSUME ContractInv, stage = "assemble", stage' = stage, ir' = ir, target' = target,
           asm' = asm, bbMarks' = bbMarks
    PROVE  ContractInv'
  <1>1. Whole
    BY DEF ContractInv
  <1>2. \A id : Position(id)' = Position(id) /\ (Placed(id)' <=> Placed(id))
    BY DEF Position, Placed, Len_
  <1>3. \A first : MarksOfBlocks(first)' = MarksOfBlocks(first)
    BY <1>2 DEF MarksOfBlocks
  <1>4. PICK first : first = bbMarks
    OBVIOUS
  <1>5. MarksOfBlocks(bbMarks)' = MarksOfBlocks(bbMarks)
    BY <1>2 DEF MarksOfBlocks
  <1>6. NothingIsMissing'
    BY <1>1, <1>2, <1>3, <1>5, ReachableStays DEF Whole, NothingIsMissing, FirstBbMark, Datas, DataMark
  <1>7. RunCodeIsAlone'
    BY <1>1, <1>2 DEF Whole, RunCodeIsAlone, runcode_start, initcode_end, Len_
  <1>8. WellFormed(asm.sections)'
    BY <1>1 DEF Whole, WellFormed, PlacedAt, Precedes
  <1> QED
    BY <1>6, <1>7, <1>8 DEF ContractInv, Whole

-----------------------------------------------------------------------------
(* The walks. *)

LEMMA EntryWaits ==
    ASSUME NEW S, NEW x \in S
    PROVE  /\ Enqueue(NoWork, x) \in ProperLists(S)
           /\ Enqueue(NoWork, x).seen = {x} /\ Has(Enqueue(NoWork, x).todo, x)
  <1>1. PICK w : w = NoWork
    OBVIOUS
  <1>2. w \in WorkLists(S) /\ w.seen = {} /\ \A y : ~Has(w.todo, y)
    BY <1>1, NoWorkIsEmpty
  <1>3. w \in ProperLists(S)
    <2>1. Len(w.todo) = 0
      BY <1>1 DEF NoWork
    <2> QED
      BY <1>2, <2>1 DEF ProperLists
  <1>4. Extends(S, w, Enqueue(w, x), {x})
    BY <1>3, EnqueueExtends
  <1> QED
    BY <1>1, <1>2, <1>4 DEF Extends

LEMMA DoneStays ==
    ASSUME ir \in Programs, ir' = ir, work.seen \subseteq work'.seen,
           initOnly \cup runtimeDatas \subseteq initOnly' \cup runtimeDatas',
           NEW b \in Blocks, Done(b)
    PROVE  Done(b)'
  <1>1. ASSUME NEW op, OpDone(op) PROVE OpDone(op)'
    BY <1>1 DEF OpDone, IsCall
  <1>2. ASSUME NEW i \in 1 .. Len(ir.ops[b]) PROVE OpDone(ir.ops[b][i])'
    <2>1. PICK op : op = ir.ops[b][i]
      OBVIOUS
    <2>2. OpDone(op)'
      BY <1>1, <2>1 DEF Done
    <2> QED
      BY <2>1, <2>2 DEF OpDone, IsCall
  <1>3. Successors(ir.control[b])' = Successors(ir.control[b])
    OBVIOUS
  <1> QED
    BY <1>2, <1>3 DEF Done

(* A walk without work left has seen the blocks reachable, and their data. *)
LEMMA WalkDone ==
    ASSUME ir \in Programs, NEW f \in Functions, WalkInv(f), at = None, work.todo = <<>>
    PROVE  /\ work.seen = Reachable(f)
           /\ DataUsed(f) \subseteq initOnly \cup runtimeDatas
  <1>1. work.seen \in SUBSET Blocks /\ work.seen \subseteq Reachable(f) /\ ir.entry[f] \in work.seen
    BY DEF WalkInv, ProperLists, WorkLists
  <1>2. ASSUME NEW b \in work.seen PROVE Done(b)
    <2>1. b # at
      BY <1>1, NoneAssumption, NumbersAssumption DEF Blocks
    <2>2. ~Has(work.todo, b)
      BY DEF Has
    <2> QED
      BY <2>1, <2>2 DEF WalkInv
  <1>3. PICK B : B = work.seen
    OBVIOUS
  <1>4. IsClosed(B)
    <2>1. \A b \in B : /\ \A i \in 1 .. Len(ir.ops[b]) :
                             IsCall(ir.ops[b][i]) => ir.entry[ir.ops[b][i].fn] \in B
                       /\ \A k \in 1 .. Len(Successors(ir.control[b])) : Successors(ir.control[b])[k] \in B
      BY <1>2, <1>3 DEF Done, OpDone
    <2>2. B \in SUBSET Blocks
      BY <1>1, <1>3
    <2> QED
      BY <2>1, <2>2, ClosedByIndex
  <1>5. Reachable(f) \subseteq B
    BY <1>1, <1>3, <1>4 DEF Reachable
  <1>6. ASSUME NEW d \in DataUsed(f) PROVE d \in initOnly \cup runtimeDatas
    <2>1. PICK b \in Reachable(f) : \E i \in 1 .. Len(ir.ops[b]) :
              ir.ops[b][i].op = "data" /\ ir.ops[b][i].id = d
      BY DataUsedByIndex
    <2>2. PICK i \in 1 .. Len(ir.ops[b]) : ir.ops[b][i].op = "data" /\ ir.ops[b][i].id = d
      BY <2>1
    <2>3. Done(b)
      BY <1>2, <1>3, <1>5
    <2> QED
      BY <2>2, <2>3 DEF Done, OpDone
  <1> QED
    BY <1>1, <1>3, <1>5, <1>6

LEMMA StartRuntimeDatasContract ==
    ASSUME BackendInv, ContractInv, StartRuntimeDatas
    PROVE  ContractInv'
  <1>1. /\ stage = "memory" /\ target = "init" /\ stage' = "runtime_datas" /\ target' = target
        /\ ir' = ir /\ asm' = asm /\ nextMark' = nextMark /\ initOnly' = initOnly
        /\ runtimeDatas' = runtimeDatas /\ at' = None /\ ir \in Programs
    BY DEF StartRuntimeDatas, MemoryDone, BackendInv, TypeInv, asmVars
  <1>2. Untouched /\ runtimeDatas = {}
    BY <1>1 DEF ContractInv
  <1>3. Untouched'
    BY <1>1, <1>2 DEF Untouched, FirstBbMark
  <1>4. CASE ir.main = None
    <2>1. work' = NoWork
      BY <1>4 DEF StartRuntimeDatas
    <2> QED
      BY <1>1, <1>2, <1>3, <1>4, <2>1 DEF ContractInv, RuntimeWalk, NoWork
  <1>5. CASE ir.main # None
    <2>1. PICK f, x : f = ir.main /\ x = ir.entry[ir.main]
      OBVIOUS
    <2>2. f \in Functions /\ x \in Blocks
      BY <1>1, <1>5, <2>1, Program
    <2>3. work' = Enqueue(NoWork, x)
      BY <1>5, <2>1 DEF StartRuntimeDatas
    <2>4. work' \in ProperLists(Blocks) /\ work'.seen = {x} /\ Has(work'.todo, x)
      BY <2>2, <2>3, EntryWaits
    <2>5. x \in Reachable(f)
      BY <1>1, <2>1, <2>2, ReachableIsClosed
    <2>6. WalkInv(ir.main)'
      BY <1>1, <2>1, <2>4, <2>5, ReachableStays DEF WalkInv, Blocks, ProperLists, WorkLists
    <2> QED
      BY <1>1, <1>2, <1>3, <1>5, <2>6 DEF ContractInv, RuntimeWalk
  <1> QED
    BY <1>4, <1>5

LEMMA CollectRuntimeDatasContract ==
    ASSUME BackendInv, ContractInv, CollectRuntimeDatas
    PROVE  ContractInv'
  <1>1. /\ stage = "runtime_datas" /\ stage' = "runtime_datas" /\ target' = target /\ work.todo # <<>>
        /\ ir' = ir /\ asm' = asm /\ nextMark' = nextMark /\ initOnly' = initOnly
        /\ at = None /\ at' = None /\ ir \in Programs
    BY DEF CollectRuntimeDatas, BackendInv, TypeInv, asmVars
  <1>2. target = "init" /\ Untouched /\ RuntimeWalk
    BY <1>1 DEF ContractInv
  <1>3. ir.main # None /\ WalkInv(ir.main) /\ runtimeDatas \subseteq DataUsed(ir.main)
    BY <1>1, <1>2 DEF RuntimeWalk, NoWork
  <1>4. PICK f, b, s, t : f = ir.main /\ b = Last(work.todo) /\ s = ir.ops[b]
                          /\ t = Successors(ir.control[b])
    OBVIOUS
  <1>5. PICK w, w1 : w = work /\ w1 = Pop(work)
    OBVIOUS
  <1>6. f \in Functions /\ w \in ProperLists(Blocks) /\ w.seen \subseteq Reachable(f)
    BY <1>1, <1>3, <1>4, <1>5, Program DEF WalkInv
  <1>7. /\ w1 \in ProperLists(Blocks) /\ w1.seen = w.seen /\ b \in Blocks /\ b \in w.seen
        /\ \A y : Has(w.todo, y) <=> Has(w1.todo, y) \/ y = b
    <2>1. w.todo # <<>>
      BY <1>1, <1>5
    <2>2. /\ Pop(w) \in ProperLists(Blocks) /\ Pop(w).seen = w.seen
          /\ Last(w.todo) \in Blocks /\ Last(w.todo) \in w.seen
          /\ \A y : Has(w.todo, y) <=> Has(Pop(w).todo, y) \/ y = Last(w.todo)
      BY <1>6, <2>1, PopProper
    <2> QED
      BY <1>4, <1>5, <2>2
  <1>8. s \in Seq(StackOps) /\ t \in Seq(Blocks)
    BY <1>1, <1>4, <1>7, Program, SuccessorsAreBlocks
  <1>9. PICK X : X = Callees(s) \cup {t[k] : k \in 1 .. Len(t)}
    OBVIOUS
  <1>10. Extends(Blocks, w1, work', X)
    <2>1. PICK w2 : w2 = EnqueueCallees(w1, s)
      OBVIOUS
    <2>2. Extends(Blocks, w1, w2, Callees(s))
      BY <1>1, <1>7, <1>8, <2>1, EnqueueCalleesExtends
    <2>3. w2 \in ProperLists(Blocks)
      BY <2>2 DEF Extends
    <2>4. Extends(Blocks, w2, EnqueueAll(w2, t), {t[k] : k \in 1 .. Len(t)})
      BY <1>8, <2>3, EnqueueAllExtends
    <2>5. work' = EnqueueAll(w2, t)
      BY <1>4, <1>5, <2>1 DEF CollectRuntimeDatas
    <2>6. PICK A, C : A = Callees(s) /\ C = {t[k] : k \in 1 .. Len(t)}
      OBVIOUS
    <2>7. Extends(Blocks, w1, work', A \cup C)
      BY <2>2, <2>4, <2>5, <2>6, ExtendsTwice
    <2> QED
      BY <1>9, <2>6, <2>7
  <1>11. /\ work' \in ProperLists(Blocks) /\ work'.seen = work.seen \cup X
         /\ \A y : Has(work.todo, y) => Has(work'.todo, y) \/ y = b
         /\ \A y \in X : y \in work.seen \/ Has(work'.todo, y)
    BY <1>5, <1>7, <1>10 DEF Extends
  <1>12. /\ \A i \in 1 .. Len(s) : IsCall(s[i]) => ir.entry[s[i].fn] \in X
         /\ \A k \in 1 .. Len(t) : t[k] \in X
    BY <1>9 DEF Callees
  <1>13. b \in Reachable(f) /\ X \subseteq Reachable(f)
    <2>1. b \in Reachable(f)
      BY <1>6, <1>7
    <2>2. /\ \A i \in 1 .. Len(s) : IsCall(s[i]) => ir.entry[s[i].fn] \in Reachable(f)
          /\ \A k \in 1 .. Len(t) : t[k] \in Reachable(f)
      BY <1>1, <1>4, <1>6, <2>1, ReachableIsClosed
    <2> QED
      BY <1>9, <2>1, <2>2 DEF Callees
  <1>14. PICK D : D = {d \in Datas : \E i \in 1 .. Len(s) : s[i].op = "data" /\ s[i].id = d}
    OBVIOUS
  <1>15. runtimeDatas' = runtimeDatas \cup D
    <2>1. \A o : o \in Range(s) <=> \E i \in 1 .. Len(s) : o = s[i]
      <3>1. \A o : o \in Range(ir.ops[b]) <=> \E i \in 1 .. Len(ir.ops[b]) : o = ir.ops[b][i]
        BY <1>1, <1>7, OpsOfBlock
      <3> QED
        BY <1>4, <3>1
    <2>2. \A i \in 1 .. Len(s) : s[i].op = "data" => s[i].id \in Datas
      <3>1. \A i \in 1 .. Len(s) : s[i] \in StackOps
        BY <1>8, ElementOfSeq
      <3> QED
        BY <3>1 DEF StackOps
    <2>3. {o.id : o \in {x \in Range(s) : x.op = "data"}} = D
      BY <1>14, <2>1, <2>2
    <2> QED
      BY <1>4, <2>3 DEF CollectRuntimeDatas
  <1>16. runtimeDatas' \subseteq DataUsed(f)
    <2>1. D \subseteq DataUsed(f)
      BY <1>1, <1>4, <1>6, <1>13, <1>14, DataUsedByIndex
    <2> QED
      BY <1>3, <1>4, <1>15, <2>1
  <1>17. Done(b)'
    <2>1. ASSUME NEW i \in 1 .. Len(s) PROVE OpDone(s[i])'
      <3>1. s[i] \in StackOps
        BY <1>8, ElementOfSeq
      <3>2. s[i].op = "data" => s[i].id \in runtimeDatas'
        <4>1. s[i].op = "data" => s[i].id \in Datas
          BY <3>1 DEF StackOps
        <4> QED
          BY <1>14, <1>15, <4>1
      <3>3. IsCall(s[i]) => ir.entry[s[i].fn] \in work'.seen
        BY <1>11, <1>12
      <3> QED
        BY <1>1, <3>2, <3>3 DEF OpDone, IsCall
    <2>2. \A k \in 1 .. Len(t) : t[k] \in work'.seen
      BY <1>11, <1>12
    <2>3. s = ir'.ops[b] /\ t = Successors(ir'.control[b])
      BY <1>1, <1>4
    <2> QED
      BY <2>1, <2>2, <2>3 DEF Done, OpDone, IsCall
  <1>18. ASSUME NEW y \in work'.seen PROVE Has(work'.todo, y) \/ Done(y)'
    <2>1. CASE y \in work.seen /\ ~Has(work.todo, y)
      <3>1. y # at /\ y \in Blocks
        BY <1>1, <1>5, <1>6, <2>1, ReachableIsClosed, NoneAssumption, NumbersAssumption DEF Blocks
      <3>2. Done(y)
        BY <1>3, <2>1, <3>1 DEF WalkInv
      <3>3. initOnly \cup runtimeDatas \subseteq initOnly' \cup runtimeDatas'
        BY <1>1, <1>15
      <3>4. work.seen \subseteq work'.seen
        BY <1>11
      <3> QED
        BY <1>1, <3>1, <3>2, <3>3, <3>4, DoneStays
    <2>2. CASE Has(work.todo, y)
      BY <1>11, <1>17, <2>2
    <2>3. CASE y \in X /\ y \notin work.seen
      BY <1>11, <2>3
    <2> QED
      BY <1>11, <2>1, <2>2, <2>3
  <1>19. WalkInv(ir.main)'
    <2>1. work'.seen \subseteq Reachable(f)
      BY <1>5, <1>6, <1>11, <1>13
    <2>2. ir.entry[f] \in work'.seen
      BY <1>3, <1>4, <1>11 DEF WalkInv
    <2>3. Reachable(ir.main)' = Reachable(f)
      BY <1>1, <1>4, ReachableStays
    <2> QED
      BY <1>1, <1>4, <1>11, <1>18, <2>1, <2>2, <2>3 DEF WalkInv, Blocks, ProperLists, WorkLists
  <1>20. DataUsed(ir.main)' = DataUsed(f)
    BY <1>1, <1>4, ReachableStays
  <1>21. RuntimeWalk'
    BY <1>1, <1>3, <1>16, <1>19, <1>20 DEF RuntimeWalk
  <1>22. Untouched'
    BY <1>1, <1>2 DEF Untouched, FirstBbMark
  <1> QED
    BY <1>1, <1>2, <1>21, <1>22 DEF ContractInv

-----------------------------------------------------------------------------
(* The emitter starts. *)

LEMMA EmptyText ==
    ASSUME NEW A, NEW L
    PROVE  EmptyAsm \in Texts({}, {}, A, L)
  <1>1. EmptyAsm \in Asms /\ Len(EmptyAsm.sections) = 0
    BY DEF EmptyAsm, Asms
  <1>2. IsText(EmptyAsm.sections, {}, {}, A, L)
    BY <1>1 DEF IsText, MarksAre
  <1> QED
    BY <1>1, <1>2 DEF Texts

LEMMA StartCodeContract ==
    ASSUME BackendInv, NEW a, StartCode(a), at = None, DatasInv, nextMark \in Nat,
           target = "init" => nextMark = FirstBbMark /\ a = EmptyAsm,
           target = "main" =>
              /\ FirstBbMark + NumBlocks <= nextMark
              /\ \E B \in SUBSET Nat :
                    InitMarks(B, nextMark)
                    /\ a \in Texts(B \cup {runcode_start}, {}, LeftOver(B), {initcode_end})
    PROVE  ContractInv'
  <1>1. /\ stage' = "code" /\ bbMarks' = nextMark /\ nextMark' = nextMark + NumBlocks
        /\ retMarks' = <<>> /\ asm' = Prologue(a) /\ at' = None /\ NumBlocks \in Nat
        /\ ir' = ir /\ target' = target /\ initOnly' = initOnly /\ runtimeDatas' = runtimeDatas
        /\ ir \in Programs /\ target \in {"init", "main"}
    BY NumbersAssumption DEF StartCode, BackendInv, TypeInv
  <1>2. PICK f, x : f = EntryPoint /\ x = ir.entry[f]
    OBVIOUS
  <1>3. f \in Functions /\ x \in Blocks
    BY <1>2, EntryIsBlock DEF BackendInv
  <1>4. work' \in ProperLists(Blocks) /\ work'.seen = {x} /\ Has(work'.todo, x)
    <2>1. work' = Enqueue(NoWork, x)
      BY <1>2 DEF StartCode
    <2> QED
      BY <1>3, <2>1, EntryWaits
  <1>5. EntryPoint' = f
    BY <1>1, <1>2 DEF EntryPoint
  <1>6. WalkInv(EntryPoint)'
    <2>1. Reachable(EntryPoint)' = Reachable(f)
      BY <1>1, <1>5, ReachableStays DEF Reachable, IsClosed, IsCall, Blocks
    <2>2. x \in Reachable(f)
      BY <1>1, <1>2, <1>3, ReachableIsClosed
    <2> QED
      BY <1>1, <1>2, <1>4, <1>5, <2>1, <2>2 DEF WalkInv, Blocks, ProperLists, WorkLists
  <1>7. DatasInv'
    BY <1>1, ReachableStays DEF DatasInv
  <1>8. CodeMarks' = {}
    <2>1. ReturnMarks' = {}
      BY <1>1 DEF ReturnMarks
    <2>2. {y \in work'.seen : ~Has(work'.todo, y)} = {}
      BY <1>4
    <2> QED
      BY <2>1, <2>2 DEF CodeMarks
  <1>9. PICK P : P = Promised'
    OBVIOUS
  <1>10. initcode_end \in P
    BY <1>9 DEF Promised, initcode_end
  <1>11. CASE target = "init"
    <2>1. MarksInv'
      BY <1>1, <1>11, NumbersAssumption DEF MarksInv, FirstBbMark
    <2>2. asm' \in Texts({}, {}, P \cup {runcode_start}, {initcode_end})
      BY <1>1, <1>11, EmptyText, PrologueText
    <2>3. InitText'
      BY <1>8, <1>9, <2>2 DEF InitText, runcode_start, initcode_end
    <2> QED
      BY <1>1, <1>6, <1>7, <1>11, <2>1, <2>3 DEF ContractInv, CodeInv
  <1>12. CASE target = "main"
    <2>1. MarksInv'
      BY <1>1, <1>12, NumbersAssumption DEF MarksInv, FirstBbMark
    <2>2. PICK B \in SUBSET Nat :
             InitMarks(B, nextMark)
             /\ a \in Texts(B \cup {runcode_start}, {}, LeftOver(B), {initcode_end})
      BY <1>12
    <2>3. PICK n, C : n = nextMark /\ C = LeftOver(B)
      OBVIOUS
    <2>4. InitMarks(B, bbMarks)'
      <3>1. InitMarks(B, n)'
        BY <1>1, <2>2, <2>3, InitMarksStay
      <3> QED
        BY <1>1, <2>3, <3>1 DEF InitMarks
    <2>5. LeftOver(B)' = C
      BY <1>1, <2>3 DEF LeftOver, DataMarks, DataMark, runcode_start, initcode_end
    <2>6. asm' \in Texts(B \cup {runcode_start}, {}, C, {initcode_end})
      BY <1>1, <2>2, <2>3, PrologueText
    <2>7. asm' \in Texts(B \cup {runcode_start}, {}, C, P)
      <3>1. {initcode_end} \subseteq P
        BY <1>10
      <3> QED
        BY <2>6, <3>1, TextsGrow
    <2>8. MainText(B)'
      <3>1. B \cup {runcode_start} \cup {} = B \cup {runcode_start}
        OBVIOUS
      <3> QED
        BY <1>8, <1>9, <2>5, <2>7, <3>1 DEF MainText, runcode_start
    <2> QED
      BY <1>1, <1>6, <1>7, <1>12, <2>1, <2>4, <2>8 DEF ContractInv, CodeInv
  <1> QED
    BY <1>1, <1>11, <1>12

LEMMA StartInitCodeContract ==
    ASSUME BackendInv, ContractInv, StartInitCode
    PROVE  ContractInv'
  <1>1. stage = "runtime_datas" /\ work.todo = <<>> /\ at = None /\ StartCode(asm) /\ ir \in Programs
    BY DEF StartInitCode, BackendInv, TypeInv
  <1>2. target = "init" /\ Untouched /\ RuntimeWalk
    BY <1>1 DEF ContractInv
  <1>3. runtimeDatas = UsedByMain
    <2>1. CASE ir.main = None
      BY <1>2, <2>1 DEF RuntimeWalk, UsedByMain
    <2>2. CASE ir.main # None
      <3>1. PICK f : f = ir.main
        OBVIOUS
      <3>2. f \in Functions /\ WalkInv(f) /\ runtimeDatas \subseteq DataUsed(f)
        BY <1>1, <1>2, <2>2, <3>1, Program DEF RuntimeWalk
      <3>3. DataUsed(f) \subseteq initOnly \cup runtimeDatas
        BY <1>1, <3>2, WalkDone
      <3> QED
        BY <1>2, <2>2, <3>1, <3>2, <3>3 DEF UsedByMain, Untouched
    <2> QED
      BY <2>1, <2>2
  <1>4. DatasInv
    BY <1>2, <1>3 DEF DatasInv, Untouched
  <1>5. nextMark = FirstBbMark /\ asm = EmptyAsm /\ nextMark \in Nat
    BY <1>2, NumbersAssumption DEF Untouched, FirstBbMark
  <1>6. target # "main"
    BY <1>2
  <1> QED
    BY <1>1, <1>4, <1>5, <1>6, StartCodeContract

LEMMA StartRunCodeContract ==
    ASSUME BackendInv, ContractInv, StartRunCode
    PROVE  ContractInv'
  <1>1. /\ stage = "memory" /\ at = None /\ target = "main" /\ ir \in Programs
        /\ StartCode(PushMark(asm, runcode_start))
    BY DEF StartRunCode, MemoryDone, BackendInv, TypeInv
  <1>2. Between
    BY <1>1 DEF ContractInv
  <1>3. PICK B \in SUBSET Nat :
           InitMarks(B, nextMark) /\ asm \in Texts(B, {}, LeftOver(B), {initcode_end})
    BY <1>2 DEF Between
  <1>4. runcode_start \notin B /\ runcode_start \in Nat
    BY <1>3 DEF InitMarks, runcode_start
  <1>5. PICK a : a = PushMark(asm, runcode_start)
    OBVIOUS
  <1>6. a \in Texts(B \cup {runcode_start}, {}, LeftOver(B), {initcode_end})
    <2>1. PICK J, Q : J = B \cup {runcode_start} /\ Q = IF runcode_start \in B THEN {} \cup {runcode_start} ELSE {}
      OBVIOUS
    <2>2. a \in Texts(J, Q, LeftOver(B), {initcode_end})
      BY <1>3, <1>4, <1>5, <2>1, PushMarkText
    <2>3. Q = {}
      BY <1>4, <2>1
    <2> QED
      BY <2>1, <2>2, <2>3
  <1>7. DatasInv /\ nextMark \in Nat /\ FirstBbMark + NumBlocks <= nextMark
    BY <1>2 DEF Between
  <1>8. StartCode(a)
    BY <1>1, <1>5
  <1>9. \E C \in SUBSET Nat :
           InitMarks(C, nextMark)
           /\ a \in Texts(C \cup {runcode_start}, {}, LeftOver(C), {initcode_end})
    BY <1>3, <1>6
  <1>10. target # "init"
    BY <1>1
  <1> QED
    BY <1>1, <1>7, <1>8, <1>9, <1>10, StartCodeContract

-----------------------------------------------------------------------------
(* A block is begun: its mark is placed. *)

LEMMA BbMarkIsNew ==
    ASSUME MarksInv, work.seen \subseteq Blocks, NEW b \in Blocks, Has(work.todo, b)
    PROVE  BbMark(b) \in Nat /\ BbMark(b) \notin CodeMarks /\ BbMark(b) >= bbMarks /\ bbMarks >= 2
  <1>1. bbMarks \in Nat /\ NumBlocks \in Nat /\ NumDatas \in Nat /\ nextMark \in Nat
    BY NumbersAssumption DEF MarksInv
  <1>2. b \in Nat /\ b < NumBlocks /\ \A x \in work.seen : x \in Nat
    BY <1>1 DEF Blocks
  <1>3. bbMarks >= 2
    BY <1>1 DEF MarksInv, FirstBbMark
  <1>4. \A x \in work.seen : BbMark(x) = BbMark(b) => x = b
    BY <1>1, <1>2 DEF BbMark
  <1>5. BbMark(b) \notin ReturnMarks
    BY <1>1, <1>2 DEF BbMark, ReturnMarks
  <1>6. BbMark(b) \notin {BbMark(x) : x \in {y \in work.seen : ~Has(work.todo, y)}}
    BY <1>4
  <1> QED
    BY <1>1, <1>2, <1>3, <1>5, <1>6 DEF CodeMarks, BbMark

LEMMA RunStartIsApart ==
    ASSUME MarksInv, work.seen \subseteq Blocks
    PROVE  runcode_start \notin CodeMarks
  <1>1. /\ bbMarks \in Nat /\ nextMark \in Nat /\ NumBlocks \in Nat /\ bbMarks >= 2
        /\ \A x \in work.seen : x \in Nat
    BY NumbersAssumption DEF MarksInv, FirstBbMark, Blocks
  <1>2. \A x \in work.seen : BbMark(x) # runcode_start
    BY <1>1 DEF BbMark, runcode_start
  <1>3. runcode_start \notin ReturnMarks
    BY <1>1 DEF ReturnMarks, runcode_start
  <1> QED
    BY <1>2, <1>3 DEF CodeMarks

LEMMA EmitBlockContract ==
    ASSUME BackendInv, ContractInv, EmitBlock
    PROVE  ContractInv'
  <1>1. /\ stage = "code" /\ stage' = "code" /\ at = None /\ work.todo # <<>>
        /\ ir' = ir /\ target' = target /\ retMarks' = retMarks /\ nextMark' = nextMark
        /\ bbMarks' = bbMarks /\ initOnly' = initOnly /\ runtimeDatas' = runtimeDatas
        /\ ir \in Programs /\ target \in {"init", "main"}
    BY DEF EmitBlock, BackendInv, TypeInv
  <1>2. CodeInv
    BY <1>1 DEF ContractInv
  <1>3. PICK b, w, f : b = Last(work.todo) /\ w = work /\ f = EntryPoint
    OBVIOUS
  <1>4. /\ at' = b /\ ops' = ir.ops[b] /\ work' = Pop(w)
        /\ asm' = PushOps(PushMark(asm, BbMark(b)), 1)
    BY <1>3 DEF EmitBlock
  <1>5. w \in ProperLists(Blocks) /\ w.todo # <<>> /\ w.seen \subseteq Blocks
    BY <1>1, <1>2, <1>3 DEF CodeInv, WalkInv, ProperLists, WorkLists
  <1>6. /\ work' \in ProperLists(Blocks) /\ work'.seen = work.seen /\ b \in Blocks /\ b \in work.seen
        /\ ~Has(work'.todo, b)
        /\ \A y : Has(work.todo, y) <=> Has(work'.todo, y) \/ y = b
    BY <1>3, <1>4, <1>5, PopProper
  <1>7. b # None /\ \A x \in work.seen : x # None
    BY <1>3, <1>5, <1>6, NoneAssumption, NumbersAssumption DEF Blocks
  <1>8. MarksInv /\ MarksInv' /\ DatasInv'
    <2>1. DatasInv'
      BY <1>1, <1>2, ReachableStays DEF CodeInv, DatasInv
    <2> QED
      BY <1>1, <1>2, <2>1 DEF CodeInv, MarksInv, FirstBbMark
  <1>9. f \in Functions /\ EntryPoint' = f
    BY <1>1, <1>3, EntryIsBlock DEF EntryPoint, BackendInv
  <1>10. WalkInv(EntryPoint)'
    <2>1. Reachable(EntryPoint)' = Reachable(f)
      BY <1>1, <1>9, ReachableStays DEF Reachable, IsClosed, IsCall, Blocks
    <2>2. ASSUME NEW y \in work.seen PROVE Has(work'.todo, y) \/ y = b \/ Done(y)'
      <3>1. Has(work.todo, y) \/ Done(y)
        BY <1>1, <1>2, <1>7 DEF CodeInv, WalkInv
      <3>2. Done(y) => Done(y)'
        <4>1. y \in Blocks
          BY <1>3, <1>5
        <4> QED
          BY <1>1, <1>6, <4>1, DoneStays
      <3> QED
        BY <1>6, <3>1, <3>2
    <2>3. ir.entry[f] \in work.seen /\ work.seen \subseteq Reachable(f)
      BY <1>2, <1>3 DEF CodeInv, WalkInv
    <2> QED
      BY <1>1, <1>4, <1>6, <1>9, <2>1, <2>2, <2>3 DEF WalkInv, Blocks, ProperLists, WorkLists
  <1>11. PICK s : s = ir.ops[b]
    OBVIOUS
  <1>12. VisitInv'
    <2>1. \A i \in 1 .. Len(s) : Has(s, s[i])
      BY DEF Has
    <2>2. ir'.ops[at'] = s /\ ops' = s /\ at' = b
      BY <1>1, <1>4, <1>11
    <2> QED
      BY <1>6, <2>1, <2>2 DEF VisitInv
  <1>13. retMarks = <<>> /\ retMarks' = <<>>
    BY <1>1, <1>2 DEF CodeInv
  <1>14. ReturnsInv'
    <2>1. IsScheduled(s)
      BY <1>1, <1>6, <1>11, Program
    <2>2. ops' = s /\ Len(retMarks') = 0
      BY <1>4, <1>11, <1>13
    <2>3. ASSUME NEW i \in 1 .. Len(s), s[i].op = "ret_push"
          PROVE  \E j \in i + 1 .. Len(s) :
                    IsCallOf(s[j], s[i].call) /\ \A k \in i + 1 .. j : ~IsReturnOf(s[k], s[i].call)
      BY <2>1, <2>3 DEF IsScheduled
    <2> QED
      BY <2>2, <2>3 DEF ReturnsInv, AllDiffer, AwaitsCall, IsCallOf, IsReturnOf
  <1>15. PICK m, C : m = BbMark(b) /\ C = CodeMarks
    OBVIOUS
  <1>16. m \in Nat /\ m \notin C /\ m >= bbMarks /\ bbMarks >= 2
    BY <1>3, <1>5, <1>6, <1>8, <1>15, BbMarkIsNew
  <1>17. CodeMarks' = C \cup {m}
    <2>1. Pending' = Pending /\ ReturnMarks' = ReturnMarks
      BY <1>1 DEF Pending, ReturnMarks
    <2>2. {x \in work'.seen : ~Has(work'.todo, x)} = {x \in work.seen : ~Has(work.todo, x)} \cup {b}
      BY <1>6
    <2> QED
      BY <1>1, <1>15, <2>1, <2>2 DEF CodeMarks, BbMark
  <1>18. PICK P : P = Promised
    OBVIOUS
  <1>19. Promised' = P
    BY <1>1, <1>6, <1>18 DEF Promised, ReturnMarks, BbMark, DataMarks, DataMark, initcode_end
  <1>20. CASE target = "init"
    <2>1. asm \in Texts(C, {}, P \cup {runcode_start}, {initcode_end})
      BY <1>2, <1>15, <1>18, <1>20 DEF CodeInv, InitText
    <2>2. runcode_start \notin C
      BY <1>3, <1>5, <1>8, <1>15, RunStartIsApart
    <2>3. PICK J, Q, a : J = C \cup {m} /\ Q = (IF runcode_start \in C THEN {} \cup {m} ELSE {})
                         /\ a = PushMark(asm, m)
      OBVIOUS
    <2>4. a \in Texts(J, Q, P \cup {runcode_start}, {initcode_end})
      BY <1>16, <2>1, <2>3, PushMarkText
    <2>5. PushOps(a, 1) \in Texts(J, Q, P \cup {runcode_start}, {initcode_end})
      BY <2>4, PushOpsText
    <2>6. InitText'
      <3>1. Q = {} /\ asm' = PushOps(a, 1)
        BY <1>4, <1>15, <2>2, <2>3
      <3> QED
        BY <1>17, <1>19, <2>3, <2>5, <3>1 DEF InitText, runcode_start, initcode_end
    <2> QED
      BY <1>1, <1>4, <1>7, <1>8, <1>10, <1>12, <1>14, <1>20, <2>6 DEF ContractInv, CodeInv
  <1>21. CASE target = "main"
    <2>1. PICK B \in SUBSET Nat : InitMarks(B, bbMarks) /\ MainText(B)
      BY <1>2, <1>21 DEF CodeInv
    <2>2. PICK n, I, D : n = bbMarks /\ I = B \cup {runcode_start} \cup C /\ D = LeftOver(B)
      OBVIOUS
    <2>3. asm \in Texts(I, C, D, P)
      BY <1>15, <1>18, <2>1, <2>2 DEF MainText
    <2>4. m \notin I
      <3>1. m \notin B
        BY <1>16, <2>1, <2>2, <1>8 DEF InitMarks, MarksInv
      <3> QED
        BY <1>8, <1>16, <2>2, <3>1 DEF runcode_start, MarksInv
    <2>5. PICK J, Q, a : J = I \cup {m} /\ Q = (IF runcode_start \in I THEN C \cup {m} ELSE C)
                         /\ a = PushMark(asm, m)
      OBVIOUS
    <2>6. a \in Texts(J, Q, D, P)
      BY <1>16, <2>3, <2>4, <2>5, PushMarkText
    <2>7. PushOps(a, 1) \in Texts(J, Q, D, P)
      BY <2>6, PushOpsText
    <2>8. /\ Q = C \cup {m} /\ asm' = PushOps(a, 1)
          /\ J = B \cup {runcode_start} \cup (C \cup {m})
      BY <1>4, <1>15, <2>2, <2>5
    <2>9. LeftOver(B)' = D
      BY <1>1, <2>2 DEF LeftOver, DataMarks, DataMark, runcode_start, initcode_end
    <2>10. MainText(B)'
      BY <1>17, <1>19, <2>7, <2>8, <2>9 DEF MainText, runcode_start
    <2>11. InitMarks(B, bbMarks)'
      <3>1. InitMarks(B, n)'
        BY <1>1, <2>1, <2>2, InitMarksStay
      <3> QED
        BY <1>1, <2>2, <3>1 DEF InitMarks
    <2> QED
      BY <1>1, <1>4, <1>7, <1>8, <1>10, <1>12, <1>14, <1>21, <2>10, <2>11 DEF ContractInv, CodeInv
  <1> QED
    BY <1>1, <1>20, <1>21

-----------------------------------------------------------------------------
(* The walk while a block is visited. *)

LEMMA WalkExtends ==
    ASSUME ir \in Programs, ir' = ir, NEW f \in Functions, WalkInv(f),
           NEW X, Extends(Blocks, work, work', X), X \subseteq Reachable(f),
           initOnly \cup runtimeDatas \subseteq initOnly' \cup runtimeDatas',
           \A b \in work.seen : b = at => b = at' \/ Done(b)'
    PROVE  /\ WalkInv(f)'
           /\ {y \in work'.seen : ~Has(work'.todo, y)} = {y \in work.seen : ~Has(work.todo, y)}
  <1>1. /\ work' \in ProperLists(Blocks) /\ work'.seen = work.seen \cup X
        /\ \A y : Has(work'.todo, y) <=> Has(work.todo, y) \/ (y \in X /\ y \notin work.seen)
    BY DEF Extends
  <1>2. work.seen \subseteq Blocks /\ ir.entry[f] \in work.seen /\ work.seen \subseteq Reachable(f)
    BY DEF WalkInv, ProperLists, WorkLists
  <1>3. ASSUME NEW y \in work'.seen PROVE Has(work'.todo, y) \/ y = at' \/ Done(y)'
    <2>1. CASE y \notin work.seen
      BY <1>1, <1>3, <2>1
    <2>2. CASE y \in work.seen
      <3>1. Has(work.todo, y) \/ y = at \/ Done(y)
        BY <2>2 DEF WalkInv
      <3>2. Done(y) => Done(y)'
        <4>1. y \in Blocks /\ work.seen \subseteq work'.seen
          BY <1>1, <1>2, <2>2
        <4> QED
          BY <4>1, DoneStays
      <3> QED
        BY <1>1, <2>2, <3>1, <3>2
    <2> QED
      BY <2>1, <2>2
  <1>4. Reachable(f)' = Reachable(f)
    BY ReachableStays
  <1> QED
    BY <1>1, <1>2, <1>3, <1>4 DEF WalkInv, Blocks, ProperLists, WorkLists

-----------------------------------------------------------------------------
(* The return marks. *)

LEMMA AwaitsLater ==
    ASSUME ops \in Seq(StackOps), ops # <<>>, ops' = Tail(ops), NEW call
    PROVE  /\ \A i \in 1 .. Len(ops) - 1 : AwaitsCall(i + 2, call) => AwaitsCall(i + 1, call)'
           /\ AwaitsCall(2, call) => AwaitsCall(1, call)'
           /\ AwaitsCall(1, call) => ~IsReturnOf(Head(ops), call)
           /\ AwaitsCall(1, call) /\ ~IsCallOf(Head(ops), call) => AwaitsCall(1, call)'
  <1>1. PICK s, t : s = ops /\ t = ops'
    OBVIOUS
  <1>2. /\ Head(s) = s[1] /\ Len(s) \in Nat \ {0} /\ Len(t) = Len(s) - 1
        /\ \A i \in 1 .. Len(s) - 1 : t[i] = s[i + 1]
    BY <1>1, TailHas
  <1>3. ASSUME NEW i \in Nat \ {0}, AwaitsCall(i + 1, call) PROVE AwaitsCall(i, call)'
    <2>1. PICK j \in i + 1 .. Len(s) : IsCallOf(s[j], call) /\ \A k \in i + 1 .. j : ~IsReturnOf(s[k], call)
      BY <1>1, <1>3 DEF AwaitsCall
    <2>2. j - 1 \in i .. Len(t) /\ t[j - 1] = s[j]
      BY <1>2
    <2>3. ASSUME NEW k \in i .. j - 1 PROVE ~IsReturnOf(t[k], call)
      <3>1. k + 1 \in i + 1 .. j /\ t[k] = s[k + 1]
        BY <1>2
      <3> QED
        BY <2>1, <3>1
    <2> QED
      BY <1>1, <2>1, <2>2, <2>3 DEF AwaitsCall, IsCallOf, IsReturnOf
  <1>4. ASSUME AwaitsCall(1, call)
        PROVE  ~IsReturnOf(s[1], call) /\ (~IsCallOf(s[1], call) => AwaitsCall(1 + 1, call))
    <2>1. PICK j \in 1 .. Len(s) : IsCallOf(s[j], call) /\ \A k \in 1 .. j : ~IsReturnOf(s[k], call)
      BY <1>1, <1>4 DEF AwaitsCall
    <2>2. ~IsReturnOf(s[1], call)
      BY <2>1
    <2>3. ASSUME ~IsCallOf(s[1], call) PROVE AwaitsCall(1 + 1, call)
      <3>1. j \in 1 + 1 .. Len(s) /\ \A k \in 1 + 1 .. j : k \in 1 .. j
        BY <1>2, <2>1, <2>3
      <3> QED
        BY <1>1, <2>1, <3>1 DEF AwaitsCall
    <2> QED
      BY <2>2, <2>3
  <1>5. ASSUME NEW i \in 1 .. Len(ops) - 1, AwaitsCall(i + 2, call) PROVE AwaitsCall(i + 1, call)'
    <2>1. i + 1 \in Nat \ {0} /\ (i + 1) + 1 = i + 2
      BY <1>1, <1>2
    <2> QED
      BY <1>3, <1>5, <2>1
  <1>6. 1 \in Nat \ {0} /\ 1 + 1 = 2
    OBVIOUS
  <1> QED
    BY <1>1, <1>2, <1>3, <1>4, <1>5, <1>6

LEMMA ReturnsAhead ==
    ASSUME ops \in Seq(StackOps), ops # <<>>, ops' = Tail(ops), ReturnsInv
    PROVE  \A i \in 1 .. Len(ops') : ops'[i].op = "ret_push" => AwaitsCall(i + 1, ops[i].call)'
  <1>1. PICK s, t : s = ops /\ t = ops'
    OBVIOUS
  <1>2. Len(s) \in Nat \ {0} /\ Len(t) = Len(s) - 1 /\ \A i \in 1 .. Len(s) - 1 : t[i] = s[i + 1]
    BY <1>1, TailHas
  <1>3. ASSUME NEW i \in 1 .. Len(t), t[i].op = "ret_push" PROVE AwaitsCall(i + 1, t[i].call)'
    <2>1. i + 1 \in 1 .. Len(s) /\ t[i] = s[i + 1] /\ (i + 1) + 1 = i + 2 /\ i \in 1 .. Len(s) - 1
      BY <1>2
    <2>2. AwaitsCall(i + 2, t[i].call)
      BY <1>1, <1>3, <2>1 DEF ReturnsInv
    <2> QED
      BY <1>1, <2>1, <2>2, AwaitsLater
  <1> QED
    BY <1>1, <1>3

LEMMA ReturnsAfterPush ==
    ASSUME ops \in Seq(StackOps), ops # <<>>, ops' = Tail(ops), ReturnsInv,
           retMarks \in Seq([call : Nat, mark : Nat]), bbMarks \in Nat, nextMark \in Nat,
           bbMarks + NumBlocks <= nextMark, bbMarks' = bbMarks, nextMark' = nextMark + 1,
           Head(ops).op = "ret_push",
           retMarks' = Append(retMarks, [call |-> Head(ops).call, mark |-> nextMark])
    PROVE  /\ ReturnsInv'
           /\ ReturnMarks' \ Pending' = ReturnMarks \ Pending
           /\ ReturnMarks' = ReturnMarks \cup {nextMark}
  <1>1. PICK s, t, e, c, Q : s = retMarks /\ t = retMarks' /\ e = [call |-> Head(ops).call, mark |-> nextMark]
                             /\ c = Head(ops).call /\ Q = [call : Nat, mark : Nat]
    OBVIOUS
  <1>2. Head(ops) \in StackOps /\ Head(ops) = ops[1] /\ Len(ops) \in Nat \ {0}
    BY TailHas
  <1>3. e \in Q /\ e.call = c /\ e.mark = nextMark
    BY <1>1, <1>2, OpFields
  <1>4. /\ t \in Seq(Q) /\ Len(s) \in Nat /\ Len(t) = Len(s) + 1
        /\ \A i \in 1 .. Len(s) : t[i] = s[i]
        /\ t[Len(s) + 1] = e
    BY <1>1, <1>3, AppendProperties, LenProperties
  <1>5. \A i \in 1 .. Len(s) + 1 : i \in 1 .. Len(s) \/ i = Len(s) + 1
    BY <1>4
  <1>6. NumBlocks \in Nat
    BY NumbersAssumption
  <1>7. /\ ReturnMarks = bbMarks + NumBlocks .. nextMark - 1
        /\ ReturnMarks' = ReturnMarks \cup {nextMark}
    BY <1>6 DEF ReturnMarks
  <1>8. Pending' = Pending \cup {nextMark}
    <2>1. \A m : (\E r \in 1 .. Len(t) : m = t[r].mark) <=> (\E r \in 1 .. Len(s) : m = s[r].mark) \/ m = nextMark
      <3>1. Len(s) + 1 \in 1 .. Len(t) /\ \A i \in 1 .. Len(s) : i \in 1 .. Len(t)
        BY <1>4
      <3> QED
        BY <1>3, <1>4, <1>5, <3>1
    <2>2. Pending = {s[r].mark : r \in 1 .. Len(s)} /\ Pending' = {t[r].mark : r \in 1 .. Len(t)}
      BY <1>1 DEF Pending
    <2> QED
      BY <2>1, <2>2
  <1>9. nextMark \notin ReturnMarks
    BY <1>6, <1>7
  <1>10. AwaitsCall(1, c)'
    <2>1. 1 \in 1 .. Len(ops) /\ ops[1].op = "ret_push" /\ ops[1].call = c /\ 1 + 1 = 2
      BY <1>1, <1>2
    <2>2. AwaitsCall(1 + 1, ops[1].call)
      BY <2>1 DEF ReturnsInv
    <2>3. AwaitsCall(2, c)
      BY <2>1, <2>2
    <2> QED
      BY <2>3, AwaitsLater
  <1>11. ASSUME NEW i \in 1 .. Len(s)
         PROVE  AwaitsCall(1, s[i].call)' /\ s[i].call # c /\ s[i].mark \in ReturnMarks
    <2>1. AwaitsCall(1, s[i].call) /\ s[i].mark \in ReturnMarks
      BY <1>1, <1>7 DEF ReturnsInv
    <2>2. ~IsReturnOf(Head(ops), s[i].call) /\ ~IsCallOf(Head(ops), s[i].call)
      BY <2>1, AwaitsLater DEF IsCallOf
    <2> QED
      BY <1>1, <2>1, <2>2, AwaitsLater DEF IsReturnOf
  <1>12. ASSUME NEW i \in 1 .. Len(t)
         PROVE  AwaitsCall(1, t[i].call)' /\ t[i].mark \in bbMarks' + NumBlocks .. nextMark' - 1
    <2>1. t[i].mark \in ReturnMarks'
      BY <1>3, <1>4, <1>5, <1>7, <1>11
    <2>2. AwaitsCall(1, t[i].call)'
      <3>1. CASE i \in 1 .. Len(s)
        <4>1. t[i].call = s[i].call
          BY <1>4, <3>1
        <4> QED
          BY <1>11, <3>1, <4>1
      <3>2. CASE i = Len(s) + 1
        <4>1. t[i].call = c
          BY <1>3, <1>4, <3>2
        <4> QED
          BY <1>10, <4>1
      <3> QED
        BY <1>4, <1>5, <3>1, <3>2
    <2> QED
      BY <2>1, <2>2 DEF ReturnMarks
  <1>13. AllDiffer(t)
    <2>1. AllDiffer(s)
      BY <1>1 DEF ReturnsInv
    <2>2. ASSUME NEW r \in 1 .. Len(s)
          PROVE  /\ s[r].call # e.call /\ s[r].mark # e.mark
                 /\ \A q \in 1 .. Len(s) : r # q => s[r].call # s[q].call /\ s[r].mark # s[q].mark
      BY <1>3, <1>9, <1>11, <2>1 DEF AllDiffer
    <2>3. SUFFICES ASSUME NEW r \in 1 .. Len(t), NEW q \in 1 .. Len(t), r # q
                   PROVE  t[r].call # t[q].call /\ t[r].mark # t[q].mark
      BY DEF AllDiffer
    <2>4. \A j \in 1 .. Len(t) : (j \in 1 .. Len(s) /\ t[j] = s[j]) \/ (j = Len(s) + 1 /\ t[j] = e)
      <3>1. ASSUME NEW j \in 1 .. Len(s) + 1 PROVE (j \in 1 .. Len(s) /\ t[j] = s[j]) \/ (j = Len(s) + 1 /\ t[j] = e)
        <4>1. CASE j \in 1 .. Len(s)
          BY <1>4, <4>1
        <4>2. CASE j = Len(s) + 1
          BY <1>4, <4>2
        <4> QED
          BY <1>5, <4>1, <4>2
      <3>2. Len(t) = Len(s) + 1
        BY <1>4
      <3> QED
        BY <3>1, <3>2
    <2>5. CASE r \in 1 .. Len(s) /\ t[r] = s[r]
      <3>1. CASE q \in 1 .. Len(s) /\ t[q] = s[q]
        BY <2>2, <2>3, <2>5, <3>1
      <3>2. CASE q = Len(s) + 1 /\ t[q] = e
        BY <2>2, <2>5, <3>2
      <3> QED
        BY <2>4, <3>1, <3>2
    <2>6. CASE r = Len(s) + 1 /\ t[r] = e
      <3>1. q \in 1 .. Len(s) /\ t[q] = s[q]
        BY <2>3, <2>4, <2>6
      <3> QED
        BY <2>2, <2>6, <3>1
    <2> QED
      BY <2>4, <2>5, <2>6
  <1>14. ReturnsInv'
    <2>1. \A i \in 1 .. Len(ops') : ops'[i].op = "ret_push" => AwaitsCall(i + 1, ops[i].call)'
      BY ReturnsAhead
    <2>2. AllDiffer(retMarks)'
      <3>1. \A r, q \in 1 .. Len(t) : r # q => t[r].call # t[q].call /\ t[r].mark # t[q].mark
        BY <1>13 DEF AllDiffer
      <3>2. t = retMarks'
        BY <1>1
      <3> QED
        BY <3>1, <3>2, SMTT(30) DEF AllDiffer
    <2>3. \A i \in 1 .. Len(t) : AwaitsCall(1, t[i].call)' /\ t[i].mark \in bbMarks' + NumBlocks .. nextMark' - 1
      BY <1>12
    <2>4. \A i \in 1 .. Len(retMarks') :
             AwaitsCall(1, retMarks[i].call)' /\ retMarks'[i].mark \in bbMarks' + NumBlocks .. nextMark' - 1
      BY <1>1, <2>3
    <2> QED
      BY <2>1, <2>2, <2>4 DEF ReturnsInv
  <1> QED
    BY <1>7, <1>8, <1>9, <1>14

LEMMA WithoutReturnIs ==
    ASSUME retMarks \in Seq([call : Nat, mark : Nat]), AllDiffer(retMarks), NEW call,
           \E r \in 1 .. Len(retMarks) : retMarks[r].call = call
    PROVE  /\ \E r \in 1 .. Len(retMarks) : retMarks[r].mark = ReturnMark(call)
           /\ \A q \in 1 .. Len(WithoutReturn(call)) :
                 \E r \in 1 .. Len(retMarks) :
                    /\ WithoutReturn(call)[q] = retMarks[r]
                    /\ retMarks[r].call # call /\ retMarks[r].mark # ReturnMark(call)
           /\ \A r \in 1 .. Len(retMarks) :
                 retMarks[r].mark = ReturnMark(call)
                 \/ \E q \in 1 .. Len(WithoutReturn(call)) : WithoutReturn(call)[q] = retMarks[r]
           /\ AllDiffer(WithoutReturn(call))
  <1>1. PICK s, R : s = retMarks /\ R = [call : Nat, mark : Nat]
    OBVIOUS
  <1>2. s \in Seq(R) /\ Len(s) \in Nat /\ \A i \in 1 .. Len(s) : s[i] \in R
    <2>1. s \in Seq(R)
      BY <1>1
    <2>2. Len(s) \in Nat
      BY <2>1, LenProperties
    <2> QED
      BY <2>1, <2>2, ElementOfSeq
  <1>3. PICK k : k = ReturnIndex(call)
    OBVIOUS
  <1>4. k \in 1 .. Len(s) /\ s[k].call = call
    <2> DEFINE T == {i \in 1 .. Len(s) : s[i].call = call}
    <2>1. T \subseteq Nat /\ T # {}
      <3>1. \E i \in 1 .. Len(s) : s[i].call = call
        BY <1>1
      <3>2. T \subseteq Nat
        OBVIOUS
      <3>3. T # {}
        BY <3>1
      <3> QED
        BY <3>2, <3>3
    <2>2. PICK i \in T : \A j \in T : i <= j
      BY <2>1, LeastElement
    <2>3. i \in 1 .. Len(s) /\ s[i].call = call /\ \A j \in 1 .. i - 1 : s[j].call # call
      BY <1>2, <2>2
    <2> QED
      BY <1>1, <1>3, <2>3 DEF ReturnIndex
  <1>5. PICK t, v : t = [s EXCEPT ![k] = Last(s)] /\ v = Front(t)
    OBVIOUS
  <1>6. s # <<>> /\ Last(s) = s[Len(s)] /\ Len(s) \in 1 .. Len(s)
    BY <1>2, <1>4 DEF Last
  <1>7. t \in Seq(R) /\ Len(t) = Len(s) /\ \A i \in 1 .. Len(s) : t[i] = IF i = k THEN s[Len(s)] ELSE s[i]
    <2>1. s[Len(s)] \in R
      BY <1>2, <1>6
    <2> QED
      BY <1>2, <1>4, <1>5, <1>6, <2>1, ExceptSeq
  <1>8. t # <<>>
    BY <1>6, <1>7, EmptySeq
  <1>9. /\ WithoutReturn(call) = v /\ ReturnMark(call) = s[k].mark
    BY <1>1, <1>3, <1>5 DEF WithoutReturn, ReturnMark
  <1>10. /\ Len(v) = Len(s) - 1
         /\ \A q \in 1 .. Len(s) - 1 : v[q] = IF q = k THEN s[Len(s)] ELSE s[q]
    <2>1. Len(Front(t)) = Len(s) - 1 /\ \A m \in 1 .. Len(s) - 1 : Front(t)[m] = t[m]
      BY <1>7, <1>8, FrontProperties
    <2>2. \A m \in 1 .. Len(s) - 1 : m \in 1 .. Len(s)
      BY <1>2
    <2> QED
      BY <1>5, <1>7, <2>1, <2>2
  <1>11. \A r, q \in 1 .. Len(s) : r # q => s[r].call # s[q].call /\ s[r].mark # s[q].mark
    <2>1. AllDiffer(s)
      BY <1>1
    <2> QED
      BY <2>1 DEF AllDiffer
  <1>12. ASSUME NEW q \in 1 .. Len(v)
         PROVE  \E r \in 1 .. Len(s) : v[q] = s[r] /\ r # k /\ r = IF q = k THEN Len(s) ELSE q
    <2>1. q \in 1 .. Len(s) - 1 /\ q \in 1 .. Len(s) /\ q # Len(s)
      BY <1>2, <1>10
    <2> QED
      BY <1>6, <1>10, <2>1
  <1>13. \A q \in 1 .. Len(v) : \E r \in 1 .. Len(s) :
            v[q] = s[r] /\ s[r].call # call /\ s[r].mark # s[k].mark
    BY <1>4, <1>11, <1>12
  <1>14. ASSUME NEW r \in 1 .. Len(s), s[r].mark # s[k].mark PROVE \E q \in 1 .. Len(v) : v[q] = s[r]
    <2>1. r # k
      BY <1>14
    <2>2. CASE r = Len(s)
      <3>1. k \in 1 .. Len(s) - 1
        BY <1>2, <1>4, <2>1, <2>2
      <3> QED
        BY <1>10, <2>2, <3>1
    <2>3. CASE r # Len(s)
      <3>1. r \in 1 .. Len(s) - 1
        BY <1>2, <2>3
      <3> QED
        BY <1>10, <2>1, <3>1
    <2> QED
      BY <2>2, <2>3
  <1>15. AllDiffer(v)
    <2>1. SUFFICES ASSUME NEW p \in 1 .. Len(v), NEW q \in 1 .. Len(v), p # q
                   PROVE  v[p].call # v[q].call /\ v[p].mark # v[q].mark
      BY DEF AllDiffer
    <2>2. p \in 1 .. Len(s) - 1 /\ q \in 1 .. Len(s) - 1 /\ p # Len(s) /\ q # Len(s)
      BY <1>2, <1>10
    <2>3. PICK i \in 1 .. Len(s) : v[p] = s[i] /\ i = IF p = k THEN Len(s) ELSE p
      BY <1>12
    <2>4. PICK j \in 1 .. Len(s) : v[q] = s[j] /\ j = IF q = k THEN Len(s) ELSE q
      BY <1>12
    <2>5. i # j
      BY <2>1, <2>2, <2>3, <2>4
    <2> QED
      BY <1>11, <2>3, <2>4, <2>5
  <1> QED
    BY <1>1, <1>4, <1>9, <1>13, <1>14, <1>15

LEMMA ReturnsAfterCall ==
    ASSUME ops \in Seq(StackOps), ops # <<>>, ops' = Tail(ops), ReturnsInv,
           retMarks \in Seq([call : Nat, mark : Nat]), bbMarks' = bbMarks, nextMark' = nextMark,
           Head(ops).op = "icall", NEW call, call = Head(ops).call,
           \E r \in 1 .. Len(retMarks) : retMarks[r].call = call,
           retMarks' = WithoutReturn(call)
    PROVE  /\ ReturnsInv'
           /\ ReturnMark(call) \in ReturnMarks \cap Pending
           /\ ReturnMarks' \ Pending' = (ReturnMarks \ Pending) \cup {ReturnMark(call)}
           /\ ReturnMarks' = ReturnMarks
  <1>1. PICK s, t, m : s = retMarks /\ t = retMarks' /\ m = ReturnMark(call)
    OBVIOUS
  <1>2. AllDiffer(retMarks)
    BY DEF ReturnsInv
  <1>3. /\ \E r \in 1 .. Len(s) : s[r].mark = m
        /\ \A q \in 1 .. Len(t) : \E r \in 1 .. Len(s) : t[q] = s[r] /\ s[r].call # call /\ s[r].mark # m
        /\ \A r \in 1 .. Len(s) : s[r].mark = m \/ \E q \in 1 .. Len(t) : t[q] = s[r]
        /\ AllDiffer(t)
    <2>1. /\ \E r \in 1 .. Len(retMarks) : retMarks[r].mark = ReturnMark(call)
          /\ \A q \in 1 .. Len(WithoutReturn(call)) :
                \E r \in 1 .. Len(retMarks) :
                   /\ WithoutReturn(call)[q] = retMarks[r]
                   /\ retMarks[r].call # call /\ retMarks[r].mark # ReturnMark(call)
          /\ \A r \in 1 .. Len(retMarks) :
                retMarks[r].mark = ReturnMark(call)
                \/ \E q \in 1 .. Len(WithoutReturn(call)) : WithoutReturn(call)[q] = retMarks[r]
          /\ AllDiffer(WithoutReturn(call))
      BY <1>2, WithoutReturnIs
    <2> QED
      BY <1>1, <2>1
  <1>4. ReturnMarks' = ReturnMarks
    BY DEF ReturnMarks
  <1>5. Pending' = Pending \ {m} /\ m \in Pending
    <2>1. Pending = {s[r].mark : r \in 1 .. Len(s)} /\ Pending' = {t[r].mark : r \in 1 .. Len(t)}
      BY <1>1 DEF Pending
    <2>2. ASSUME NEW q \in 1 .. Len(t) PROVE t[q].mark \in Pending \ {m}
      <3>1. PICK r \in 1 .. Len(s) : t[q] = s[r] /\ s[r].mark # m
        BY <1>3
      <3> QED
        BY <2>1, <3>1
    <2>3. ASSUME NEW r \in 1 .. Len(s), s[r].mark # m PROVE s[r].mark \in Pending'
      <3>1. PICK q \in 1 .. Len(t) : t[q] = s[r]
        BY <1>3, <2>3
      <3>2. s[r].mark = t[q].mark
        BY <3>1
      <3> QED
        BY <2>1, <3>2
    <2>4. Pending' \subseteq Pending \ {m}
      BY <2>1, <2>2
    <2>5. Pending \ {m} \subseteq Pending'
      BY <2>1, <2>3
    <2>6. m \in Pending
      BY <1>3, <2>1
    <2> QED
      BY <2>4, <2>5, <2>6
  <1>6. \A r \in 1 .. Len(s) : AwaitsCall(1, s[r].call) /\ s[r].mark \in ReturnMarks
    BY <1>1 DEF ReturnsInv, ReturnMarks
  <1>7. m \in ReturnMarks
    BY <1>3, <1>6
  <1>8. ASSUME NEW q \in 1 .. Len(t)
        PROVE  AwaitsCall(1, t[q].call)' /\ t[q].mark \in bbMarks' + NumBlocks .. nextMark' - 1
    <2>1. PICK r \in 1 .. Len(s) : t[q] = s[r] /\ s[r].call # call
      BY <1>3
    <2>2. AwaitsCall(1, s[r].call) /\ ~IsCallOf(Head(ops), s[r].call)
      BY <1>6, <2>1 DEF IsCallOf
    <2>3. AwaitsCall(1, s[r].call)'
      BY <1>1, <2>2, AwaitsLater
    <2>4. t[q].mark \in ReturnMarks
      BY <1>6, <2>1
    <2>5. AwaitsCall(1, t[q].call)'
      BY <2>1, <2>3
    <2> QED
      BY <2>4, <2>5 DEF ReturnMarks
  <1>9. ReturnsInv'
    <2>1. \A i \in 1 .. Len(ops') : ops'[i].op = "ret_push" => AwaitsCall(i + 1, ops[i].call)'
      BY ReturnsAhead
    <2> QED
      BY <1>1, <1>3, <1>8, <2>1 DEF ReturnsInv, AllDiffer
  <1> QED
    BY <1>1, <1>4, <1>5, <1>7, <1>9

LEMMA ReturnsAfterOther ==
    ASSUME ops \in Seq(StackOps), ops # <<>>, ops' = Tail(ops), ReturnsInv,
           bbMarks' = bbMarks, nextMark' = nextMark, retMarks' = retMarks,
           Head(ops).op \notin {"ret_push", "icall"}
    PROVE  ReturnsInv' /\ ReturnMarks' = ReturnMarks /\ Pending' = Pending
  <1>1. PICK s : s = retMarks
    OBVIOUS
  <1>2. ASSUME NEW q \in 1 .. Len(s) PROVE AwaitsCall(1, s[q].call)'
    <2>1. AwaitsCall(1, s[q].call) /\ ~IsCallOf(Head(ops), s[q].call)
      BY <1>1 DEF ReturnsInv, IsCallOf
    <2> QED
      BY <1>1, <2>1, AwaitsLater
  <1>3. ReturnsInv'
    <2>1. \A i \in 1 .. Len(ops') : ops'[i].op = "ret_push" => AwaitsCall(i + 1, ops[i].call)'
      BY ReturnsAhead
    <2>2. \A r \in 1 .. Len(s) : s[r].mark \in bbMarks' + NumBlocks .. nextMark' - 1
      BY <1>1 DEF ReturnsInv
    <2> QED
      BY <1>1, <1>2, <2>1, <2>2 DEF ReturnsInv, AllDiffer
  <1> QED
    BY <1>3 DEF ReturnMarks, Pending

-----------------------------------------------------------------------------
(* An operation is emitted. *)

LEMMA OperationText ==
    ASSUME NEW I, NEW R, NEW A, NEW L, asm \in Texts(I, R, A, L), ir \in Programs,
           bbMarks \in Nat, nextMark \in Nat, NEW op \in StackOps,
           IsCall(op) => Nameable(I, A, L, BbMark(ir.entry[op.fn])),
           op.op = "ret_push" => Nameable(I, A, L, nextMark),
           op.op = "data" => Nameable(I, A, L, DataMark(op.id)),
           Introspects(op) => runcode_start \in A /\ initcode_end \in A /\ runcode_start \notin I,
           initcode_end \in L,
           op.op = "icall" => ReturnMark(op.call) \in Nat \ I,
           NEW N, N = IF op.op = "icall" THEN {ReturnMark(op.call)} ELSE {},
           NEW Q, Q = IF runcode_start \in I THEN R \cup N ELSE R
    PROVE  Emit(op) \in Texts(I \cup N, Q, A, L)
  <1>1. CASE op.op = "icall"
    <2>1. PICK m : m = ReturnMark(op.call)
      OBVIOUS
    <2>2. Emit(op) \in Texts(I \cup {m}, IF runcode_start \in I THEN R \cup {m} ELSE R, A, L)
      BY <1>1, <2>1, EmitText
    <2>3. N = {m} /\ Q = IF runcode_start \in I THEN R \cup {m} ELSE R
      BY <1>1, <2>1
    <2> QED
      BY <2>2, <2>3
  <1>2. CASE op.op # "icall"
    <2>1. Emit(op) \in Texts(I, R, A, L)
      BY <1>2, EmitText
    <2>2. N = {}
      BY <1>2
    <2>3. I \cup N = I /\ Q = R
      BY <2>2
    <2> QED
      BY <2>1, <2>3
  <1> QED
    BY <1>1, <1>2

(* What is known of an operation that is emitted in its place. *)
LEMMA OperationInPlace ==
    ASSUME BackendInv, CodeInv, at # None, ops # <<>>, NEW op, op = Head(ops)
    PROVE  /\ op \in StackOps /\ at \in Blocks /\ at \in Reachable(EntryPoint)
           /\ IsCall(op) => ir.entry[op.fn] \in Blocks /\ ir.entry[op.fn] \in Reachable(EntryPoint)
           /\ op.op = "data" => op.id \in DataUsed(EntryPoint)
           /\ op.op = "data" /\ target = "main" => op.id \in runtimeDatas
  <1>1. ir \in Programs /\ ops \in Seq(StackOps) /\ EntryPoint \in Functions /\ (target = "main" => ir.main # None)
    BY EntryIsBlock DEF BackendInv, TypeInv
  <1>2. op \in StackOps /\ op = ops[1] /\ 1 \in 1 .. Len(ops)
    BY <1>1, TailHas
  <1>3. VisitInv /\ WalkInv(EntryPoint) /\ DatasInv
    BY DEF CodeInv
  <1>4. PICK b, f : b = at /\ f = EntryPoint
    OBVIOUS
  <1>5. b \in work.seen /\ Has(ir.ops[b], op)
    BY <1>2, <1>3, <1>4 DEF VisitInv
  <1>6. f \in Functions /\ b \in Reachable(f)
    BY <1>1, <1>3, <1>4, <1>5 DEF WalkInv
  <1>7. PICK i \in 1 .. Len(ir.ops[b]) : ir.ops[b][i] = op
    BY <1>5 DEF Has
  <1>8. /\ Reachable(f) \in SUBSET Blocks
        /\ IsCall(ir.ops[b][i]) => ir.entry[ir.ops[b][i].fn] \in Reachable(f)
    BY <1>1, <1>6, ReachableIsClosed
  <1>9. op.op = "data" => op.id \in DataUsed(f)
    BY <1>1, <1>6, <1>7, DataUsedByIndex
  <1>10. target = "main" => DataUsed(f) = runtimeDatas
    BY <1>1, <1>3, <1>4 DEF DatasInv, UsedByMain, EntryPoint
  <1> QED
    BY <1>2, <1>4, <1>6, <1>7, <1>8, <1>9, <1>10

(* The return places change as the operation says. *)
LEMMA OperationReturns ==
    ASSUME BackendInv, CodeInv, at # None, ops # <<>>, ops' = Tail(ops), bbMarks' = bbMarks,
           NEW op, op = Head(ops), Expected(op),
           retMarks' = CASE op.op = "ret_push" -> Append(retMarks, [call |-> op.call, mark |-> nextMark])
                         [] op.op = "icall" -> WithoutReturn(op.call)
                         [] OTHER -> retMarks,
           nextMark' = IF op.op = "ret_push" THEN nextMark + 1 ELSE nextMark,
           NEW N, N = IF op.op = "icall" THEN {ReturnMark(op.call)} ELSE {}
    PROVE  /\ ReturnsInv'
           /\ N \subseteq ReturnMarks \cap Pending
           /\ ReturnMarks' \ Pending' = (ReturnMarks \ Pending) \cup N
           /\ ReturnMarks \subseteq ReturnMarks'
           /\ op.op = "ret_push" => nextMark \in ReturnMarks'
  <1>1. /\ ops \in Seq(StackOps) /\ retMarks \in Seq([call : Nat, mark : Nat]) /\ ReturnsInv
        /\ bbMarks \in Nat /\ nextMark \in Nat /\ bbMarks + NumBlocks <= nextMark
    BY DEF BackendInv, TypeInv, CodeInv, MarksInv
  <1>2. CASE op.op = "ret_push"
    <2>1. /\ nextMark' = nextMark + 1 /\ Head(ops).op = "ret_push" /\ N = {}
          /\ retMarks' = Append(retMarks, [call |-> Head(ops).call, mark |-> nextMark])
      BY <1>2
    <2> QED
      BY <1>1, <2>1, ReturnsAfterPush
  <1>3. CASE op.op = "icall"
    <2>1. PICK call : call = op.call
      OBVIOUS
    <2>2. /\ nextMark' = nextMark /\ Head(ops).op = "icall" /\ call = Head(ops).call
          /\ N = {ReturnMark(call)} /\ retMarks' = WithoutReturn(call)
      BY <1>3, <2>1
    <2>3. \E r \in 1 .. Len(retMarks) : retMarks[r].call = call
      BY <1>3, <2>1 DEF Expected
    <2>4. /\ ReturnsInv' /\ ReturnMark(call) \in ReturnMarks \cap Pending
          /\ ReturnMarks' \ Pending' = (ReturnMarks \ Pending) \cup {ReturnMark(call)}
          /\ ReturnMarks' = ReturnMarks
      BY <1>1, <2>2, <2>3, ReturnsAfterCall
    <2> QED
      BY <1>3, <2>2, <2>4
  <1>4. CASE op.op # "ret_push" /\ op.op # "icall"
    <2>1. nextMark' = nextMark /\ retMarks' = retMarks /\ N = {} /\ Head(ops).op \notin {"ret_push", "icall"}
      BY <1>4
    <2>2. ReturnsInv' /\ ReturnMarks' = ReturnMarks /\ Pending' = Pending
      BY <1>1, <2>1, ReturnsAfterOther
    <2> QED
      BY <1>4, <2>1, <2>2
  <1> QED
    BY <1>2, <1>3, <1>4

LEMMA EmitOperationContract ==
    ASSUME BackendInv, ContractInv, EmitOperation
    PROVE  ContractInv'
  <1>1. /\ stage = "code" /\ ir' = ir /\ target' = target /\ bbMarks' = bbMarks
        /\ runtimeDatas' = runtimeDatas /\ at' = at /\ at # None /\ ops # <<>> /\ ops' = Tail(ops)
        /\ ir \in Programs /\ target \in {"init", "main"} /\ ops \in Seq(StackOps) /\ CodeInv
    BY DEF EmitOperation, BackendInv, TypeInv, ContractInv
  <1>2. PICK op : op = Head(ops)
    OBVIOUS
  <1>3. stage' = StageAfter(op)
    BY <1>2 DEF EmitOperation
  <1>4. CASE stage' # "code"
    <2>1. stage' \in {"refused", "panic"}
      BY <1>3, <1>4 DEF StageAfter
    <2> QED
      BY <2>1 DEF ContractInv
  <1>5. CASE stage' = "code"
    <2>1. /\ asm' = Emit(op)
          /\ work' = IF IsCall(op) THEN Enqueue(work, ir.entry[op.fn]) ELSE work
          /\ retMarks' = CASE op.op = "ret_push" -> Append(retMarks, [call |-> op.call, mark |-> nextMark])
                           [] op.op = "icall" -> WithoutReturn(op.call)
                           [] OTHER -> retMarks
          /\ nextMark' = IF op.op = "ret_push" THEN nextMark + 1 ELSE nextMark
          /\ initOnly' = IF op.op = "data" /\ target = "init" /\ op.id \notin runtimeDatas
                         THEN initOnly \cup {op.id} ELSE initOnly
      BY <1>2, <1>3, <1>5 DEF EmitOperation
    <2>2. Expected(op) \/ Introspects(op)
      BY <1>3, <1>5 DEF StageAfter
    <2>3. Expected(op)
      BY <2>2 DEF Expected, Introspects
    <2>4. Introspects(op) => target = "init"
      BY <1>1, <1>3, <1>5 DEF StageAfter
    <2>5. PICK b, f, w, N : b = at /\ f = EntryPoint /\ w = work
                            /\ N = IF op.op = "icall" THEN {ReturnMark(op.call)} ELSE {}
      OBVIOUS
    <2>6. /\ op \in StackOps /\ b \in Blocks /\ b \in Reachable(f) /\ f \in Functions
          /\ IsCall(op) => ir.entry[op.fn] \in Blocks /\ ir.entry[op.fn] \in Reachable(f)
          /\ op.op = "data" => op.id \in DataUsed(f)
          /\ op.op = "data" /\ target = "main" => op.id \in runtimeDatas
      BY <1>1, <1>2, <2>5, OperationInPlace, EntryIsBlock DEF BackendInv
    <2>7. EntryPoint' = f
      BY <1>1, <2>5 DEF EntryPoint
    <2>8. /\ ReturnsInv' /\ N \subseteq ReturnMarks \cap Pending
          /\ ReturnMarks' \ Pending' = (ReturnMarks \ Pending) \cup N
          /\ ReturnMarks \subseteq ReturnMarks'
          /\ op.op = "ret_push" => nextMark \in ReturnMarks'
      BY <1>1, <1>2, <2>1, <2>3, <2>5, OperationReturns
    <2>9. MarksInv /\ VisitInv /\ WalkInv(f) /\ DatasInv
      BY <1>1, <2>5 DEF CodeInv
    <2>10. MarksInv'
      BY <1>1, <2>1, <2>9, NumbersAssumption DEF MarksInv, FirstBbMark
    <2>11. PICK X : X = IF IsCall(op) THEN {ir.entry[op.fn]} ELSE {}
      OBVIOUS
    <2>12. w \in ProperLists(Blocks) /\ Extends(Blocks, w, work', X)
      <3>1. w \in ProperLists(Blocks)
        BY <2>5, <2>9 DEF WalkInv
      <3>2. CASE IsCall(op)
        <4>1. PICK x : x = ir.entry[op.fn]
          OBVIOUS
        <4>2. Extends(Blocks, w, Enqueue(w, x), {x})
          BY <2>6, <3>1, <3>2, <4>1, EnqueueExtends
        <4> QED
          BY <2>1, <2>5, <2>11, <3>1, <3>2, <4>1, <4>2
      <3>3. CASE ~IsCall(op)
        <4>1. Extends(Blocks, w, w, {})
          BY <3>1, ExtendsNothing
        <4> QED
          BY <2>1, <2>5, <2>11, <3>1, <3>3, <4>1
      <3> QED
        BY <3>2, <3>3
    <2>13. X \subseteq Reachable(f)
      BY <2>6, <2>11
    <2>14. initOnly \cup runtimeDatas \subseteq initOnly' \cup runtimeDatas'
      BY <1>1, <2>1
    <2>15. /\ WalkInv(f)'
           /\ {y \in work'.seen : ~Has(work'.todo, y)} = {y \in work.seen : ~Has(work.todo, y)}
      <3>1. Extends(Blocks, work, work', X)
        BY <2>5, <2>12
      <3>2. \A y \in work.seen : y = at => y = at' \/ Done(y)'
        BY <1>1
      <3> QED
        BY <1>1, <2>6, <2>9, <2>13, <2>14, <3>1, <3>2, WalkExtends
    <2>16. WalkInv(EntryPoint)'
      BY <1>1, <2>7, <2>15 DEF WalkInv, Reachable, IsClosed, Blocks, IsCall
    <2>17. work'.seen = work.seen \cup X /\ (IsCall(op) => ir.entry[op.fn] \in work'.seen)
      BY <2>5, <2>11, <2>12 DEF Extends
    <2>18. OpDone(op)'
      <3>1. op.op = "data" => op.id \in initOnly' \cup runtimeDatas'
        BY <1>1, <2>1, <2>6
      <3> QED
        BY <1>1, <2>17, <3>1 DEF OpDone, IsCall
    <2>19. VisitInv'
      <3>1. at' \in work'.seen /\ ~Has(work'.todo, at')
        BY <1>1, <2>9, <2>15, <2>17 DEF VisitInv
      <3>2. \A y : Has(ops, y) <=> Has(ops', y) \/ y = op
        BY <1>1, <1>2, TailHas
      <3>3. PICK s : s = ir.ops[b]
        OBVIOUS
      <3>4. ASSUME NEW y, OpDone(y) PROVE OpDone(y)'
        BY <1>1, <2>14, <2>17, <3>4 DEF OpDone, IsCall
      <3>5. ASSUME NEW i \in 1 .. Len(s) PROVE OpDone(s[i])' \/ Has(ops', s[i])
        <4>1. OpDone(s[i]) \/ Has(ops, s[i])
          BY <2>5, <2>9, <3>3 DEF VisitInv
        <4>2. CASE OpDone(s[i])
          BY <3>4, <4>2
        <4>3. CASE Has(ops', s[i])
          BY <4>3
        <4>4. CASE s[i] = op
          BY <2>18, <4>4
        <4> QED
          BY <3>2, <4>1, <4>2, <4>3, <4>4
      <3>6. ASSUME NEW j \in 1 .. Len(ops') PROVE Has(s, ops'[j])
        <4>1. /\ Len(ops) \in Nat \ {0} /\ Len(ops') = Len(ops) - 1
              /\ \A i \in 1 .. Len(ops) - 1 : ops'[i] = ops[i + 1]
          BY <1>1, TailHas
        <4>2. j + 1 \in 1 .. Len(ops) /\ ops'[j] = ops[j + 1]
          BY <4>1
        <4>3. Has(s, ops[j + 1])
          BY <2>5, <2>9, <3>3, <4>2 DEF VisitInv
        <4> QED
          BY <4>2, <4>3
      <3>7. s = ir'.ops[at']
        BY <1>1, <2>5, <3>3
      <3> QED
        BY <3>1, <3>5, <3>6, <3>7 DEF VisitInv, OpDone, IsCall
    <2>20. DatasInv'
      <3>1. /\ UsedByMain' = UsedByMain /\ DataUsed(ir.init)' = DataUsed(ir.init)
        BY <1>1, ReachableStays
      <3>2. target = "init" => f = ir.init
        BY <2>5 DEF EntryPoint
      <3>3. initOnly' \subseteq DataUsed(ir.init) \ runtimeDatas
        BY <2>1, <2>6, <2>9, <3>2 DEF DatasInv
      <3>4. target = "main" => initOnly' = initOnly
        BY <2>1
      <3> QED
        BY <1>1, <2>9, <3>1, <3>3, <3>4 DEF DatasInv
    <2>21. PICK C, P : C = CodeMarks /\ P = Promised'
      OBVIOUS
    <2>22. CodeMarks' = C \cup N
      BY <1>1, <2>8, <2>15, <2>21 DEF CodeMarks, BbMark
    <2>23. Promised \subseteq P /\ initcode_end \in P
      BY <1>1, <2>8, <2>14, <2>17, <2>21 DEF Promised, BbMark, DataMarks, DataMark, initcode_end
    <2>24. /\ IsCall(op) => BbMark(ir.entry[op.fn]) \in P
           /\ op.op = "ret_push" => nextMark \in P
           /\ op.op = "data" => DataMark(op.id) \in P
      <3>1. IsCall(op) => BbMark(ir.entry[op.fn]) \in P
        BY <1>1, <2>17, <2>21 DEF Promised, BbMark
      <3>2. op.op = "ret_push" => nextMark \in P
        BY <2>8, <2>21 DEF Promised
      <3>3. op.op = "data" => DataMark(op.id) \in P
        <4>1. op.op = "data" => op.id \in IF target' = "init" THEN initOnly' \cup runtimeDatas' ELSE runtimeDatas'
          BY <1>1, <2>1, <2>6
        <4> QED
          BY <2>21, <4>1 DEF Promised, DataMarks, DataMark
      <3> QED
        BY <3>1, <3>2, <3>3
    <2>25. \A m \in N : m \in Nat /\ m \notin C /\ m >= bbMarks /\ bbMarks >= 2
      <3>1. NumBlocks \in Nat /\ NumDatas \in Nat /\ bbMarks \in Nat /\ nextMark \in Nat /\ bbMarks >= 2
        BY <2>9, NumbersAssumption DEF MarksInv, FirstBbMark
      <3>2. \A m \in N : m \in Pending /\ m \in bbMarks + NumBlocks .. nextMark - 1
        BY <2>8 DEF ReturnMarks
      <3>3. \A y \in work.seen : y \in Nat /\ y < NumBlocks
        BY <2>5, <2>12, <3>1 DEF ProperLists, WorkLists, Blocks
      <3>4. \A y \in work.seen, m \in N : BbMark(y) # m
        BY <3>1, <3>2, <3>3 DEF BbMark
      <3> QED
        BY <2>21, <3>1, <3>2, <3>4 DEF CodeMarks
    <2>26. op.op = "icall" => ReturnMark(op.call) \in N
      BY <2>5
    <2>27. CASE target = "init"
      <3>1. PICK A, L : A = P \cup {runcode_start} /\ L = {initcode_end}
        OBVIOUS
      <3>2. asm \in Texts(C, {}, A, L)
        <4>1. PICK A1 : A1 = Promised \cup {runcode_start}
          OBVIOUS
        <4>2. asm \in Texts(C, {}, A1, L)
          BY <1>1, <2>21, <2>27, <3>1, <4>1 DEF CodeInv, InitText
        <4>3. A1 \subseteq A
          BY <2>23, <3>1, <4>1
        <4> QED
          BY <4>2, <4>3, TextsGrow
      <3>3. runcode_start \notin C
        BY <2>5, <2>9, <2>12, <2>21, RunStartIsApart DEF ProperLists, WorkLists
      <3>4. PICK Q : Q = IF runcode_start \in C THEN {} \cup N ELSE {}
        OBVIOUS
      <3>5. /\ \A m : Nameable(C, A, L, m) <=> m \in A
            /\ initcode_end \in L /\ runcode_start \in A /\ initcode_end \in A
        BY <2>23, <2>27, <3>1, <3>3 DEF Nameable
      <3>6. op.op = "icall" => ReturnMark(op.call) \in Nat \ C
        BY <2>25, <2>26
      <3>7. /\ IsCall(op) => Nameable(C, A, L, BbMark(ir.entry[op.fn]))
            /\ op.op = "ret_push" => Nameable(C, A, L, nextMark)
            /\ op.op = "data" => Nameable(C, A, L, DataMark(op.id))
        BY <2>24, <3>1, <3>5
      <3>8. bbMarks \in Nat /\ nextMark \in Nat
        BY <2>9 DEF MarksInv
      <3>9. Emit(op) \in Texts(C \cup N, Q, A, L)
        BY <1>1, <2>5, <2>6, <3>2, <3>3, <3>4, <3>5, <3>6, <3>7, <3>8, OperationText
      <3>10. Q = {}
        BY <3>3, <3>4
      <3>11. InitText'
        BY <2>1, <2>21, <2>22, <3>1, <3>9, <3>10 DEF InitText, runcode_start, initcode_end
      <3> QED
        BY <1>1, <1>5, <2>8, <2>10, <2>16, <2>19, <2>20, <2>27, <3>11 DEF ContractInv, CodeInv
    <2>28. CASE target = "main"
      <3>1. PICK B \in SUBSET Nat : InitMarks(B, bbMarks) /\ MainText(B)
        BY <1>1, <2>28 DEF CodeInv
      <3>2. PICK n, I, A : n = bbMarks /\ I = B \cup {runcode_start} \cup C /\ A = LeftOver(B)
        OBVIOUS
      <3>3. asm \in Texts(I, C, A, P)
        <4>1. PICK L1 : L1 = Promised
          OBVIOUS
        <4>2. asm \in Texts(I, C, A, L1)
          BY <2>21, <3>1, <3>2, <4>1 DEF MainText
        <4>3. L1 \subseteq P
          BY <2>23, <4>1
        <4> QED
          BY <4>2, <4>3, TextsGrow
      <3>4. PICK Q : Q = IF runcode_start \in I THEN C \cup N ELSE C
        OBVIOUS
      <3>5. /\ \A m : Nameable(I, A, P, m) <=> m \in P
            /\ initcode_end \in P /\ ~Introspects(op)
        BY <2>4, <2>23, <2>28 DEF Nameable
      <3>6. op.op = "icall" => ReturnMark(op.call) \in Nat \ I
        <4>1. B \subseteq 2 .. n - 1
          BY <3>1, <3>2 DEF InitMarks
        <4>2. n \in Nat
          BY <2>9, <3>2 DEF MarksInv
        <4>3. \A m \in N : m \notin B /\ m # runcode_start
          BY <2>25, <3>2, <4>1, <4>2 DEF runcode_start
        <4> QED
          BY <2>25, <2>26, <3>2, <4>3
      <3>7. /\ IsCall(op) => Nameable(I, A, P, BbMark(ir.entry[op.fn]))
            /\ op.op = "ret_push" => Nameable(I, A, P, nextMark)
            /\ op.op = "data" => Nameable(I, A, P, DataMark(op.id))
        BY <2>24, <3>5
      <3>8. bbMarks \in Nat /\ nextMark \in Nat
        BY <2>9 DEF MarksInv
      <3>9. Emit(op) \in Texts(I \cup N, Q, A, P)
        BY <1>1, <2>5, <2>6, <3>3, <3>4, <3>5, <3>6, <3>7, <3>8, OperationText
      <3>10. Q = C \cup N /\ I \cup N = B \cup {runcode_start} \cup (C \cup N)
        BY <3>2, <3>4
      <3>11. initOnly' = initOnly
        BY <2>1, <2>28
      <3>12. LeftOver(B)' = A
        BY <1>1, <3>2 DEF LeftOver, DataMarks, DataMark, runcode_start, initcode_end
      <3>13. MainText(B)'
        BY <2>1, <2>21, <2>22, <3>9, <3>10, <3>12 DEF MainText, runcode_start
      <3>14. InitMarks(B, bbMarks)'
        <4>1. InitMarks(B, n)'
          BY <1>1, <3>1, <3>2, <3>11, InitMarksStay
        <4> QED
          BY <1>1, <3>2, <4>1 DEF InitMarks
      <3> QED
        BY <1>1, <1>5, <2>8, <2>10, <2>16, <2>19, <2>20, <2>28, <3>13, <3>14 DEF ContractInv, CodeInv
    <2> QED
      BY <1>1, <2>27, <2>28
  <1> QED
    BY <1>4, <1>5

-----------------------------------------------------------------------------
(* A block ends. *)

LEMMA EmitControlContract ==
    ASSUME BackendInv, ContractInv, EmitControl
    PROVE  ContractInv'
  <1>1. /\ stage = "code" /\ ir' = ir /\ target' = target /\ bbMarks' = bbMarks
        /\ runtimeDatas' = runtimeDatas /\ initOnly' = initOnly /\ retMarks' = retMarks
        /\ nextMark' = nextMark /\ ops' = ops /\ at' = None /\ at # None /\ ops = <<>>
        /\ ir \in Programs /\ target \in {"init", "main"} /\ CodeInv
    BY DEF EmitControl, BackendInv, TypeInv, ContractInv
  <1>2. PICK c, b, f, w, s, t : c = ir.control[at] /\ b = at /\ f = EntryPoint /\ w = work
                                /\ s = ir.ops[at] /\ t = Successors(ir.control[at])
    OBVIOUS
  <1>3. CASE stage' # "code"
    <2>1. stage' = "panic"
      BY <1>1, <1>3 DEF EmitControl
    <2> QED
      BY <2>1 DEF ContractInv
  <1>4. CASE stage' = "code"
    <2>1. asm' = EmittedControl(c) /\ work' = EnqueueAll(w, t)
      BY <1>2, <1>4 DEF EmitControl
    <2>2. MarksInv /\ VisitInv /\ ReturnsInv /\ WalkInv(f) /\ DatasInv
      BY <1>1, <1>2 DEF CodeInv
    <2>3. /\ w \in ProperLists(Blocks) /\ b \in Blocks /\ b \in Reachable(f) /\ f \in Functions
          /\ work.seen \subseteq Reachable(f)
      <3>1. f \in Functions
        BY <1>2, EntryIsBlock DEF BackendInv
      <3>2. b \in Reachable(f) /\ Reachable(f) \in SUBSET Blocks
        BY <1>1, <1>2, <2>2, <3>1, ReachableIsClosed DEF VisitInv, WalkInv
      <3> QED
        BY <1>2, <2>2, <3>1, <3>2 DEF WalkInv
    <2>4. c \in Controls /\ t \in Seq(Blocks) /\ t = Successors(c)
      BY <1>1, <1>2, <2>3, Program, SuccessorsAreBlocks
    <2>5. PICK X : X = {t[k] : k \in 1 .. Len(t)}
      OBVIOUS
    <2>6. Extends(Blocks, w, work', X)
      BY <2>1, <2>3, <2>4, <2>5, EnqueueAllExtends
    <2>7. X \subseteq Reachable(f)
      BY <1>1, <1>2, <2>3, <2>5, ReachableIsClosed
    <2>8. work'.seen = work.seen \cup X
      BY <1>2, <2>6 DEF Extends
    <2>9. Done(b)'
      <3>1. ASSUME NEW y, OpDone(y) PROVE OpDone(y)'
        BY <1>1, <2>8, <3>1 DEF OpDone, IsCall
      <3>2. ASSUME NEW i \in 1 .. Len(s) PROVE OpDone(s[i])'
        <4>1. ~Has(ops, s[i])
          <5>1. Len(ops) = 0
            BY <1>1
          <5> QED
            BY <5>1 DEF Has
        <4>2. OpDone(s[i])
          BY <1>2, <2>2, <4>1 DEF VisitInv
        <4> QED
          BY <3>1, <4>2
      <3>3. \A k \in 1 .. Len(t) : t[k] \in work'.seen
        BY <2>5, <2>8
      <3>4. s = ir'.ops[b] /\ t = Successors(ir'.control[b])
        BY <1>1, <1>2
      <3> QED
        BY <3>2, <3>3, <3>4 DEF Done, OpDone, IsCall
    <2>10. /\ WalkInv(f)'
           /\ {y \in work'.seen : ~Has(work'.todo, y)} = {y \in work.seen : ~Has(work.todo, y)}
      <3>1. Extends(Blocks, work, work', X)
        BY <1>2, <2>6
      <3>2. \A y \in work.seen : y = at => y = at' \/ Done(y)'
        <4>1. \A y \in work.seen : y = at => y = b
          BY <1>2
        <4> QED
          BY <2>9, <4>1
      <3>3. initOnly \cup runtimeDatas \subseteq initOnly' \cup runtimeDatas'
        BY <1>1
      <3> QED
        BY <1>1, <2>2, <2>3, <2>7, <3>1, <3>2, <3>3, WalkExtends
    <2>11. EntryPoint' = f
      BY <1>1, <1>2 DEF EntryPoint
    <2>12. WalkInv(EntryPoint)'
      BY <1>1, <2>10, <2>11 DEF WalkInv, Reachable, IsClosed, Blocks, IsCall
    <2>13. retMarks' = <<>>
      <3>1. \A r \in 1 .. Len(retMarks) : AwaitsCall(1, retMarks[r].call)
        BY <2>2 DEF ReturnsInv
      <3>2. Len(ops) = 0
        BY <1>1
      <3>3. \A r \in 1 .. Len(retMarks) : FALSE
        BY <3>1, <3>2 DEF AwaitsCall
      <3>4. retMarks \in Seq([call : Nat, mark : Nat])
        BY DEF BackendInv, TypeInv
      <3>5. Len(retMarks) = 0
        BY <3>3, <3>4, LenProperties
      <3> QED
        BY <1>1, <3>4, <3>5, EmptySeq
    <2>14. DatasInv' /\ MarksInv'
      <3>1. DatasInv'
        BY <1>1, <2>2, ReachableStays DEF DatasInv
      <3> QED
        BY <1>1, <2>2, <3>1 DEF MarksInv, FirstBbMark
    <2>15. PICK C, P : C = CodeMarks /\ P = Promised'
      OBVIOUS
    <2>16. CodeMarks' = C
      BY <1>1, <2>10, <2>15 DEF CodeMarks, BbMark, ReturnMarks, Pending
    <2>17. Promised \subseteq P /\ \A k \in 1 .. Len(t) : BbMark(t[k]) \in P
      <3>1. Promised \subseteq P
        BY <1>1, <2>8, <2>15 DEF Promised, BbMark, ReturnMarks, DataMarks, DataMark, initcode_end
      <3>2. \A k \in 1 .. Len(t) : t[k] \in work'.seen
        BY <2>5, <2>8
      <3> QED
        BY <1>1, <2>15, <3>1, <3>2 DEF Promised, BbMark
    <2>18. bbMarks \in Nat
      BY <2>2 DEF MarksInv
    <2>19. CASE target = "init"
      <3>1. PICK A, L : A = P \cup {runcode_start} /\ L = {initcode_end}
        OBVIOUS
      <3>2. asm \in Texts(C, {}, A, L)
        <4>1. PICK A1 : A1 = Promised \cup {runcode_start}
          OBVIOUS
        <4>2. asm \in Texts(C, {}, A1, L)
          BY <1>1, <2>15, <2>19, <3>1, <4>1 DEF CodeInv, InitText
        <4>3. A1 \subseteq A
          BY <2>17, <3>1, <4>1
        <4> QED
          BY <4>2, <4>3, TextsGrow
      <3>3. runcode_start \notin C
        BY <1>2, <2>2, <2>3, <2>15, RunStartIsApart DEF ProperLists, WorkLists
      <3>4. \A k \in 1 .. Len(t) : Nameable(C, A, L, BbMark(t[k]))
        BY <2>17, <2>19, <3>1, <3>3 DEF Nameable
      <3>5. EmittedControl(c) \in Texts(C, {}, A, L)
        BY <2>4, <2>18, <3>2, <3>4, EmittedControlText
      <3>6. InitText'
        BY <2>1, <2>15, <2>16, <3>1, <3>5 DEF InitText, runcode_start, initcode_end
      <3> QED
        BY <1>1, <1>4, <2>12, <2>13, <2>14, <2>19, <3>6 DEF ContractInv, CodeInv
    <2>20. CASE target = "main"
      <3>1. PICK B \in SUBSET Nat : InitMarks(B, bbMarks) /\ MainText(B)
        BY <1>1, <2>20 DEF CodeInv
      <3>2. PICK n, I, A : n = bbMarks /\ I = B \cup {runcode_start} \cup C /\ A = LeftOver(B)
        OBVIOUS
      <3>3. asm \in Texts(I, C, A, P)
        <4>1. PICK L1 : L1 = Promised
          OBVIOUS
        <4>2. asm \in Texts(I, C, A, L1)
          BY <2>15, <3>1, <3>2, <4>1 DEF MainText
        <4>3. L1 \subseteq P
          BY <2>17, <4>1
        <4> QED
          BY <4>2, <4>3, TextsGrow
      <3>4. \A k \in 1 .. Len(t) : Nameable(I, A, P, BbMark(t[k]))
        BY <2>17, <2>20 DEF Nameable
      <3>5. EmittedControl(c) \in Texts(I, C, A, P)
        BY <2>4, <2>18, <3>3, <3>4, EmittedControlText
      <3>6. LeftOver(B)' = A
        BY <1>1, <3>2 DEF LeftOver, DataMarks, DataMark, runcode_start, initcode_end
      <3>7. MainText(B)'
        BY <2>1, <2>15, <2>16, <3>2, <3>5, <3>6 DEF MainText, runcode_start
      <3>8. InitMarks(B, bbMarks)'
        <4>1. InitMarks(B, n)'
          BY <1>1, <3>1, <3>2, InitMarksStay
        <4> QED
          BY <1>1, <3>2, <4>1 DEF InitMarks
      <3> QED
        BY <1>1, <1>4, <2>12, <2>13, <2>14, <2>20, <3>7, <3>8 DEF ContractInv, CodeInv
    <2> QED
      BY <1>1, <2>19, <2>20
  <1> QED
    BY <1>3, <1>4

-----------------------------------------------------------------------------
(* A text that leaves nothing open is a whole contract. *)

LEMMA LastMark ==
    ASSUME NEW a \in Asms, NEW m \in Nat
    PROVE  PlacedAt(PushMark(a, m).sections, m, Len(PushMark(a, m).sections))
  <1>1. PICK x, s : x = [kind |-> "mark", id |-> m] /\ s = a.sections
    OBVIOUS
  <1>2. x \in CodeSections /\ s \in Seq(CodeSections)
    BY <1>1 DEF CodeSections, Asms
  <1>3. Len(Append(s, x)) = Len(s) + 1 /\ Append(s, x)[Len(s) + 1] = x
    BY <1>2, AppendProperties
  <1>4. PushMark(a, m).sections = Append(s, x)
    BY <1>1, PushSectionAsm DEF PushMark
  <1> QED
    BY <1>1, <1>3, <1>4 DEF PlacedAt

LEMMA ClosedText ==
    ASSUME NEW I, NEW R, NEW A, NEW L, NEW s \in Seq(CodeSections), IsText(s, I, R, A, L),
           A \subseteq I, L \subseteq R
    PROVE  /\ WellFormed(s)
           /\ \A id : (\E i \in 1 .. Len(s) : PlacedAt(s, id, i)) <=> id \in I
           /\ \A r, p \in 1 .. Len(s) :
                 s[r].kind = "ref" /\ p <= r /\ PlacedAt(s, runcode_start, p) =>
                    /\ s[r].from = runcode_start
                    /\ \E q \in 1 .. Len(s) : p < q /\ PlacedAt(s, s[r].to, q)
  <1>1. /\ \A i \in 1 .. Len(s) : s[i].kind = "mark" => s[i].id \in I
        /\ \A m \in I : \E i \in 1 .. Len(s) : PlacedAt(s, m, i)
        /\ \A i, j \in 1 .. Len(s) : s[i].kind = "mark" /\ s[j].kind = "mark" /\ s[i].id = s[j].id => i = j
        /\ \A m \in R : Precedes(s, runcode_start, m)
        /\ \A i \in 1 .. Len(s) : s[i].kind = "ref" => RefersTo(s, i, A, L)
    BY DEF IsText, MarksAre
  <1>2. \A id : (\E i \in 1 .. Len(s) : PlacedAt(s, id, i)) <=> id \in I
    BY <1>1 DEF PlacedAt
  <1>3. \A m \in R : m \in I
    BY <1>1, <1>2 DEF Precedes
  <1>4. \A r \in 1 .. Len(s) : s[r].kind = "ref" =>
           /\ \E i \in 1 .. Len(s) : PlacedAt(s, s[r].to, i)
           /\ s[r].from # Nowhere => Precedes(s, s[r].from, s[r].to)
    BY <1>1, <1>3 DEF RefersTo
  <1>5. ASSUME NEW r \in 1 .. Len(s), NEW p \in 1 .. Len(s), s[r].kind = "ref", p <= r,
               PlacedAt(s, runcode_start, p)
        PROVE  s[r].from = runcode_start /\ \E q \in 1 .. Len(s) : p < q /\ PlacedAt(s, s[r].to, q)
    <2>1. p \in 1 .. r - 1
      <3>1. p # r
        BY <1>5 DEF PlacedAt
      <3> QED
        BY <1>5, <3>1
    <2>2. s[r].from = runcode_start /\ s[r].to \in R
      BY <1>1, <1>5, <2>1 DEF RefersTo
    <2>3. PICK i, j \in 1 .. Len(s) : i < j /\ PlacedAt(s, runcode_start, i) /\ PlacedAt(s, s[r].to, j)
      BY <1>1, <2>2 DEF Precedes
    <2>4. i = p
      BY <1>1, <1>5, <2>3 DEF PlacedAt
    <2> QED
      BY <2>2, <2>3, <2>4
  <1>6. WellFormed(s)
    BY <1>1, <1>4 DEF WellFormed
  <1> QED
    BY <1>2, <1>5, <1>6

LEMMA ClosedTextIsWhole ==
    ASSUME NEW I, NEW R, NEW A, NEW L, NEW a \in Texts(I, R, A, L), A \subseteq I, L \subseteq R,
           runcode_start \in I, initcode_end \in I,
           PlacedAt(a.sections, initcode_end, Len(a.sections)), asm' = a
    PROVE  /\ WellFormed(asm.sections)' /\ RunCodeIsAlone'
           /\ \A id : Placed(id)' <=> id \in I
  <1>1. PICK s : s = a.sections
    OBVIOUS
  <1>2. s \in Seq(CodeSections) /\ IsText(s, I, R, A, L) /\ asm'.sections = s /\ Len(s) \in Nat
    BY <1>1, LenProperties DEF Texts, Asms
  <1>3. /\ WellFormed(s)
        /\ \A id : (\E i \in 1 .. Len(s) : PlacedAt(s, id, i)) <=> id \in I
        /\ \A r, p \in 1 .. Len(s) :
              s[r].kind = "ref" /\ p <= r /\ PlacedAt(s, runcode_start, p) =>
                 /\ s[r].from = runcode_start
                 /\ \E q \in 1 .. Len(s) : p < q /\ PlacedAt(s, s[r].to, q)
    BY <1>2, ClosedText
  <1>4. \A id : Placed(id)' <=> id \in I
    BY <1>2, <1>3 DEF Placed, Len_, PlacedAt
  <1>5. WellFormed(asm.sections)'
    BY <1>2, <1>3 DEF WellFormed, PlacedAt, Precedes
  <1>6. \A i, j \in 1 .. Len(s) : \A id : PlacedAt(s, id, i) /\ PlacedAt(s, id, j) => i = j
    BY <1>3 DEF WellFormed, PlacedAt
  <1>7. PICK place : place = [id \in I |-> CHOOSE i \in 1 .. Len(s) : PlacedAt(s, id, i)]
    OBVIOUS
  <1>8. \A id \in I : /\ place[id] \in 1 .. Len(s) /\ PlacedAt(s, id, place[id])
                      /\ \A i \in 1 .. Len(s) : PlacedAt(s, id, i) => place[id] = i
    BY <1>3, <1>6, <1>7
  <1>9. \A id \in I : Position(id)' = place[id]
    BY <1>2, <1>7 DEF Position, Len_, PlacedAt
  <1>10. Len(s) \in 1 .. Len(s) /\ place[initcode_end] = Len(s)
    <2>1. \E i \in 1 .. Len(s) : PlacedAt(s, initcode_end, i)
      BY <1>3
    <2>2. Len(s) \in 1 .. Len(s)
      BY <1>2, <2>1
    <2> QED
      BY <1>1, <1>8, <2>2
  <1>11. ASSUME NEW r \in place[runcode_start] .. Len(s), s[r].kind = "ref"
         PROVE  /\ s[r].from = runcode_start /\ s[r].to \in I
                /\ place[s[r].to] > place[runcode_start] /\ place[s[r].to] <= place[initcode_end]
    <2>1. /\ place[runcode_start] \in 1 .. Len(s) /\ r \in 1 .. Len(s) /\ place[runcode_start] <= r
          /\ PlacedAt(s, runcode_start, place[runcode_start])
      BY <1>2, <1>8, <1>11
    <2>2. s[r].from = runcode_start /\ \E q \in 1 .. Len(s) : place[runcode_start] < q /\ PlacedAt(s, s[r].to, q)
      BY <1>3, <1>11, <2>1
    <2>3. PICK q \in 1 .. Len(s) : place[runcode_start] < q /\ PlacedAt(s, s[r].to, q)
      BY <2>2
    <2>4. s[r].to \in I /\ place[s[r].to] = q
      BY <1>3, <1>8, <2>3
    <2> QED
      BY <1>2, <1>10, <2>1, <2>2, <2>3, <2>4
  <1>12. RunCodeIsAlone'
    <2>1. Position(runcode_start)' = place[runcode_start] /\ Position(initcode_end)' = place[initcode_end]
      BY <1>2, <1>7 DEF Position, Len_, PlacedAt, runcode_start, initcode_end
    <2>2. ASSUME NEW r \in place[runcode_start] .. Len(s), s[r].kind = "ref"
          PROVE  Position(asm.sections[r].to)' = place[s[r].to] /\ Placed(asm.sections[r].to)'
      <3>1. PICK id : id = s[r].to
        OBVIOUS
      <3>2. id \in I
        BY <1>11, <2>2, <3>1
      <3>3. asm'.sections[r].to = id /\ asm'.sections = s
        BY <1>2, <3>1
      <3>4. Position(asm.sections[r].to)' = CHOOSE i \in 1 .. Len(s) : PlacedAt(s, id, i)
        BY <3>3 DEF Position, Len_, PlacedAt
      <3>5. Placed(asm.sections[r].to)'
        BY <1>3, <3>2, <3>3 DEF Placed, Len_, PlacedAt
      <3> QED
        BY <1>7, <3>1, <3>2, <3>4, <3>5
    <2> QED
      BY <1>2, <1>11, <2>1, <2>2 DEF RunCodeIsAlone, Len_, runcode_start, initcode_end
  <1> QED
    BY <1>4, <1>5, <1>12

-----------------------------------------------------------------------------
(* The code of an entry point is complete. *)

LEMMA CodeIsDone ==
    ASSUME BackendInv, CodeInv, at = None, work.todo = <<>>
    PROVE  /\ work.seen = Reachable(EntryPoint) /\ work.seen \in SUBSET Blocks
           /\ CodeMarks = {BbMark(b) : b \in work.seen} \cup ReturnMarks
           /\ target = "init" => initOnly = DataUsed(ir.init) \ runtimeDatas
  <1>1. ir \in Programs /\ EntryPoint \in Functions
    BY EntryIsBlock DEF BackendInv, TypeInv
  <1>2. WalkInv(EntryPoint) /\ retMarks = <<>> /\ DatasInv
    BY DEF CodeInv
  <1>3. PICK f : f = EntryPoint
    OBVIOUS
  <1>4. work.seen = Reachable(f) /\ DataUsed(f) \subseteq initOnly \cup runtimeDatas
    BY <1>1, <1>2, <1>3, WalkDone
  <1>5. work.seen \in SUBSET Blocks
    BY <1>1, <1>3, <1>4, ReachableIsClosed
  <1>6. Len(retMarks) = 0 /\ Len(work.todo) = 0
    BY <1>2
  <1>7. Pending = {} /\ \A y : ~Has(work.todo, y)
    BY <1>6 DEF Pending, Has
  <1>8. CodeMarks = {BbMark(b) : b \in work.seen} \cup ReturnMarks
    BY <1>7 DEF CodeMarks
  <1>9. target = "init" => f = ir.init
    BY <1>3 DEF EntryPoint
  <1> QED
    BY <1>2, <1>3, <1>4, <1>5, <1>8, <1>9 DEF DatasInv

LEMMA CodeMarksRange ==
    ASSUME MarksInv, work.seen \in SUBSET Blocks, CodeMarks = {BbMark(b) : b \in work.seen} \cup ReturnMarks
    PROVE  /\ CodeMarks \subseteq bbMarks .. nextMark - 1
           /\ \A b \in Blocks : BbMark(b) \in CodeMarks <=> b \in work.seen
           /\ \A b \in Blocks : b \in Nat /\ b < NumBlocks
           /\ \A d \in Datas : d \in Nat /\ d < NumDatas
           /\ NumBlocks \in Nat /\ NumDatas \in Nat /\ bbMarks \in Nat /\ nextMark \in Nat
           /\ bbMarks >= 2 + NumDatas
  <1>1. /\ NumBlocks \in Nat /\ NumDatas \in Nat /\ bbMarks \in Nat /\ nextMark \in Nat
        /\ bbMarks + NumBlocks <= nextMark /\ bbMarks >= 2 + NumDatas
    BY NumbersAssumption DEF MarksInv, FirstBbMark
  <1>2. /\ \A b \in Blocks : b \in Nat /\ b < NumBlocks
        /\ \A d \in Datas : d \in Nat /\ d < NumDatas
    BY <1>1 DEF Blocks, Datas
  <1>3. ReturnMarks \subseteq bbMarks + NumBlocks .. nextMark - 1
    BY DEF ReturnMarks
  <1>4. \A b \in Blocks : BbMark(b) = bbMarks + b /\ BbMark(b) \notin ReturnMarks
                          /\ BbMark(b) \in bbMarks .. nextMark - 1
    BY <1>1, <1>2, <1>3 DEF BbMark
  <1>5. \A b, c \in Blocks : BbMark(b) = BbMark(c) => b = c
    BY <1>1, <1>2, <1>4
  <1>6. \A b \in Blocks : BbMark(b) \in CodeMarks <=> b \in work.seen
    BY <1>4, <1>5
  <1>7. CodeMarks \subseteq bbMarks .. nextMark - 1
    <2>1. \A m \in ReturnMarks : m \in bbMarks .. nextMark - 1
      BY <1>1, <1>3
    <2>2. \A b \in work.seen : BbMark(b) \in bbMarks .. nextMark - 1
      BY <1>4
    <2> QED
      BY <2>1, <2>2
  <1> QED
    BY <1>1, <1>2, <1>6, <1>7

LEMMA InitIsComplete ==
    ASSUME BackendInv, CodeInv, at = None, work.todo = <<>>, target = "init",
           NEW B, B = CodeMarks \cup DataMarks(initOnly)
    PROVE  /\ B \in SUBSET Nat /\ InitMarks(B, nextMark)
           /\ initOnly = DataUsed(ir.init) \ runtimeDatas
           /\ PushSegments(asm, initOnly) \in Texts(B, {}, LeftOver(B), {initcode_end})
           /\ nextMark \in Nat /\ FirstBbMark + NumBlocks <= nextMark
  <1>1. MarksInv /\ InitText /\ DatasInv /\ ir \in Programs
    BY DEF CodeInv, BackendInv, TypeInv
  <1>2. /\ work.seen = Reachable(ir.init) /\ work.seen \in SUBSET Blocks
        /\ CodeMarks = {BbMark(b) : b \in work.seen} \cup ReturnMarks
        /\ initOnly = DataUsed(ir.init) \ runtimeDatas
    BY CodeIsDone DEF EntryPoint
  <1>3. /\ CodeMarks \subseteq bbMarks .. nextMark - 1
        /\ \A b \in Blocks : BbMark(b) \in CodeMarks <=> b \in work.seen
        /\ \A b \in Blocks : b \in Nat /\ b < NumBlocks
        /\ \A d \in Datas : d \in Nat /\ d < NumDatas
        /\ NumBlocks \in Nat /\ NumDatas \in Nat /\ bbMarks \in Nat /\ nextMark \in Nat
    BY <1>1, <1>2, CodeMarksRange
  <1>4. bbMarks = FirstBbMark /\ bbMarks = 2 + NumDatas /\ bbMarks + NumBlocks <= nextMark
    BY <1>1 DEF MarksInv, FirstBbMark
  <1>5. \A d \in Datas : DataMark(d) \in 2 .. bbMarks - 1 /\ DataMark(d) = 2 + d
    BY <1>3, <1>4 DEF DataMark
  <1>6. initOnly \in SUBSET Datas
    BY <1>2 DEF DataUsed
  <1>7. \A m \in CodeMarks : m \in Nat /\ m >= bbMarks /\ m <= nextMark - 1
    BY <1>3
  <1>8. \A m \in DataMarks(initOnly) : m \in 2 .. bbMarks - 1
    BY <1>5, <1>6 DEF DataMarks
  <1>9. InitMarks(B, nextMark)
    <2>1. B \subseteq 2 .. nextMark - 1
      <3>1. \A m \in CodeMarks : m \in 2 .. nextMark - 1
        BY <1>3, <1>4, <1>7
      <3>2. \A m \in DataMarks(initOnly) : m \in 2 .. nextMark - 1
        BY <1>3, <1>4, <1>8
      <3> QED
        BY <3>1, <3>2
    <2>2. {d \in Datas : DataMark(d) \in B} = initOnly
      <3>1. \A d \in Datas : DataMark(d) \notin CodeMarks
        BY <1>3, <1>5, <1>7
      <3>2. \A d \in Datas : DataMark(d) \in DataMarks(initOnly) <=> d \in initOnly
        <4>1. \A d, e \in Datas : DataMark(d) = DataMark(e) => d = e
          BY <1>3, <1>5
        <4> QED
          BY <1>6, <4>1 DEF DataMarks
      <3> QED
        BY <1>6, <3>1, <3>2
    <2>3. {b \in Blocks : FirstBbMark + b \in B} = Reachable(ir.init)
      <3>1. \A b \in Blocks : FirstBbMark + b = BbMark(b) /\ BbMark(b) \notin DataMarks(initOnly)
        BY <1>3, <1>4, <1>8 DEF BbMark
      <3> QED
        BY <1>2, <1>3, <3>1
    <2> QED
      BY <2>1, <2>2, <2>3 DEF InitMarks
  <1>10. PICK C, A, L : C = CodeMarks /\ A = Promised \cup {runcode_start} /\ L = {initcode_end}
    OBVIOUS
  <1>11. asm \in Texts(C, {}, A, L)
    BY <1>1, <1>10 DEF InitText
  <1>12. runcode_start \notin C /\ \A d \in initOnly : DataMark(d) \notin C
    BY <1>3, <1>4, <1>5, <1>6, <1>7, <1>10 DEF runcode_start
  <1>13. PICK Q : Q = IF runcode_start \in C THEN {} \cup DataMarks(initOnly) ELSE {}
    OBVIOUS
  <1>14. PushSegments(asm, initOnly) \in Texts(C \cup DataMarks(initOnly), Q, A, L)
    BY <1>1, <1>6, <1>11, <1>12, <1>13, SegmentsText
  <1>15. Q = {} /\ B = C \cup DataMarks(initOnly)
    BY <1>10, <1>12, <1>13
  <1>16. A \subseteq LeftOver(B)
    <2>1. \A m \in DataMarks(initOnly \cup runtimeDatas) :
             m \in DataMarks(initOnly) \/ m \in DataMarks(runtimeDatas)
      BY DEF DataMarks
    <2>2. Promised = CodeMarks \cup {initcode_end} \cup DataMarks(initOnly \cup runtimeDatas)
      BY <1>2 DEF Promised
    <2> QED
      BY <1>10, <2>1, <2>2 DEF LeftOver
  <1>17. PushSegments(asm, initOnly) \in Texts(B, {}, LeftOver(B), {initcode_end})
    <2>1. PICK a, D : a = PushSegments(asm, initOnly) /\ D = LeftOver(B)
      OBVIOUS
    <2>2. a \in Texts(B, {}, A, L)
      BY <1>14, <1>15, <2>1
    <2>3. a \in Texts(B, {}, D, L)
      BY <1>16, <2>1, <2>2, TextsGrow
    <2> QED
      BY <1>10, <2>1, <2>3
  <1>18. B \in SUBSET Nat
    <2>1. \A m \in DataMarks(initOnly) : m \in Nat
      BY <1>8
    <2> QED
      BY <1>7, <2>1
  <1> QED
    BY <1>2, <1>3, <1>4, <1>9, <1>17, <1>18

(* The marks of blocks that are placed tell which blocks are. *)
LEMMA MarksOfText ==
    ASSUME NEW I, NEW first \in Nat, NEW V \in SUBSET Blocks, \A id : Placed(id)' <=> id \in I,
           \A b \in Blocks : first + b \in I <=> b \in V
    PROVE  MarksOfBlocks(first)' = V
  <1>1. NumBlocks \in Nat /\ \A b : b \in Blocks <=> b \in Nat /\ b < NumBlocks
    BY NumbersAssumption DEF Blocks
  <1>2. PICK M : M = {id \in first .. first + NumBlocks - 1 : id \in I}
    OBVIOUS
  <1>3. MarksOfBlocks(first)' = {m - first : m \in M}
    BY <1>2 DEF MarksOfBlocks
  <1>4. ASSUME NEW m \in M PROVE m - first \in V
    <2>1. m \in Nat /\ m >= first /\ m <= first + NumBlocks - 1 /\ m \in I
      BY <1>1, <1>2
    <2>2. m - first \in Blocks /\ first + (m - first) = m
      BY <1>1, <2>1
    <2> QED
      BY <2>1, <2>2
  <1>5. ASSUME NEW b \in V PROVE first + b \in M /\ (first + b) - first = b
    <2>1. b \in Nat /\ b < NumBlocks
      BY <1>1
    <2> QED
      BY <1>1, <1>2, <2>1
  <1>6. {m - first : m \in M} = V
    BY <1>4, <1>5
  <1> QED
    BY <1>3, <1>6

LEMMA NothingMissing ==
    ASSUME ir \in Programs, ir' = ir, bbMarks \in Nat, bbMarks' = bbMarks,
           NEW I, \A id : Placed(id)' <=> id \in I,
           \A b \in Blocks : FirstBbMark + b \in I <=> b \in Reachable(ir.init),
           ir.main # None => \A b \in Blocks : bbMarks + b \in I <=> b \in Reachable(ir.main),
           \A d \in Datas : DataMark(d) \in I <=> d \in DataUsed(ir.init) \cup UsedByMain
    PROVE  NothingIsMissing'
  <1>1. PICK f, g, n, first : f = ir.init /\ g = ir.main /\ n = bbMarks /\ first = FirstBbMark
    OBVIOUS
  <1>2. first \in Nat /\ FirstBbMark' = first
    BY <1>1, NumbersAssumption DEF FirstBbMark
  <1>3. f \in Functions /\ (g # None => g \in Functions)
    BY <1>1, Program
  <1>4. MarksOfBlocks(FirstBbMark)' = Reachable(ir.init)'
    <2>1. Reachable(f) \in SUBSET Blocks
      BY <1>3, ReachableIsClosed
    <2>2. \A b \in Blocks : first + b \in I <=> b \in Reachable(f)
      BY <1>1
    <2>3. MarksOfBlocks(first)' = Reachable(f)
      BY <1>2, <2>1, <2>2, MarksOfText
    <2>4. MarksOfBlocks(FirstBbMark)' = MarksOfBlocks(first)'
      BY <1>1, <1>2 DEF MarksOfBlocks
    <2>5. Reachable(ir.init)' = Reachable(f)
      BY <1>1, ReachableStays
    <2> QED
      BY <2>3, <2>4, <2>5
  <1>5. ASSUME g # None PROVE MarksOfBlocks(bbMarks)' = Reachable(ir.main)'
    <2>1. Reachable(g) \in SUBSET Blocks
      BY <1>3, <1>5, ReachableIsClosed
    <2>2. \A b \in Blocks : n + b \in I <=> b \in Reachable(g)
      BY <1>1, <1>5
    <2>3. MarksOfBlocks(n)' = Reachable(g)
      BY <1>1, <2>1, <2>2, MarksOfText
    <2>4. MarksOfBlocks(bbMarks)' = MarksOfBlocks(n)'
      BY <1>1 DEF MarksOfBlocks
    <2>5. Reachable(ir.main)' = Reachable(g)
      BY <1>1, ReachableStays
    <2> QED
      BY <2>3, <2>4, <2>5
  <1>6. {d \in Datas : Placed(DataMark(d))}' = (DataUsed(ir.init) \cup UsedByMain)'
    <2>1. DataUsed(ir.init)' = DataUsed(ir.init) /\ UsedByMain' = UsedByMain
      BY ReachableStays
    <2>2. PICK D : D = DataUsed(ir.init) \cup UsedByMain
      OBVIOUS
    <2>3. D \in SUBSET Datas
      BY <2>2 DEF DataUsed, UsedByMain
    <2>4. \A d : Placed(DataMark(d))' <=> DataMark(d) \in I
      BY DEF DataMark
    <2>5. {d \in Datas : DataMark(d) \in I} = D
      BY <2>2, <2>3
    <2>6. {d \in Datas : Placed(DataMark(d))}' = {d \in Datas : DataMark(d) \in I}
      BY <2>4 DEF Datas
    <2> QED
      BY <2>1, <2>2, <2>5, <2>6
  <1> QED
    BY <1>1, <1>4, <1>5, <1>6 DEF NothingIsMissing

LEMMA FinishInitContract ==
    ASSUME BackendInv, ContractInv, FinishInit
    PROVE  ContractInv'
  <1>1. /\ stage = "code" /\ at = None /\ work.todo = <<>> /\ target = "init"
        /\ ir' = ir /\ nextMark' = nextMark /\ bbMarks' = bbMarks /\ initOnly' = initOnly
        /\ runtimeDatas' = runtimeDatas /\ ir \in Programs /\ CodeInv
    BY DEF FinishInit, CodeDone, BackendInv, TypeInv, ContractInv
  <1>2. PICK B, a, D : B = CodeMarks \cup DataMarks(initOnly) /\ a = PushSegments(asm, initOnly)
                       /\ D = LeftOver(B)
    OBVIOUS
  <1>3. /\ B \in SUBSET Nat /\ InitMarks(B, nextMark)
        /\ initOnly = DataUsed(ir.init) \ runtimeDatas
        /\ a \in Texts(B, {}, D, {initcode_end})
        /\ nextMark \in Nat /\ FirstBbMark + NumBlocks <= nextMark
    BY <1>1, <1>2, InitIsComplete
  <1>4. DatasInv /\ MarksInv
    BY <1>1 DEF CodeInv
  <1>5. CASE ir.main # None
    <2>1. asm' = a /\ stage' = "memory" /\ target' = "main"
      BY <1>2, <1>5 DEF FinishInit
    <2>2. DatasInv'
      BY <1>1, <1>3, <1>4, ReachableStays DEF DatasInv
    <2>3. LeftOver(B)' = D
      BY <1>1, <1>2 DEF LeftOver, DataMarks, DataMark, runcode_start, initcode_end
    <2>4. InitMarks(B, nextMark)'
      <3>1. PICK n : n = nextMark
        OBVIOUS
      <3>2. InitMarks(B, n)'
        BY <1>1, <1>3, <3>1, InitMarksStay
      <3> QED
        BY <1>1, <3>1, <3>2 DEF InitMarks
    <2>5. asm' \in Texts(B, {}, LeftOver(B)', {initcode_end})
      BY <1>3, <2>1, <2>3
    <2>6. Between'
      BY <1>1, <1>3, <2>2, <2>4, <2>5 DEF Between, FirstBbMark, initcode_end
    <2> QED
      BY <2>1, <2>6 DEF ContractInv
  <1>6. CASE ir.main = None
    <2>1. asm' = PushMark(PushMark(a, runcode_start), initcode_end) /\ stage' = "assemble"
      BY <1>2, <1>6 DEF FinishInit
    <2>2. runtimeDatas = {} /\ D = B \cup {runcode_start, initcode_end}
      BY <1>2, <1>4, <1>6 DEF DatasInv, UsedByMain, LeftOver, DataMarks
    <2>3. B \subseteq 2 .. nextMark - 1
      BY <1>3 DEF InitMarks
    <2>4. /\ runcode_start \in Nat /\ initcode_end \in Nat /\ runcode_start # initcode_end
          /\ runcode_start \notin B /\ initcode_end \notin B
      BY <1>3, <2>3 DEF runcode_start, initcode_end
    <2>5. PICK I1, Q1, a1 : I1 = B \cup {runcode_start} /\ a1 = PushMark(a, runcode_start)
                            /\ Q1 = IF runcode_start \in B THEN {} \cup {runcode_start} ELSE {}
      OBVIOUS
    <2>6. a1 \in Texts(I1, Q1, D, {initcode_end})
      BY <1>3, <2>4, <2>5, PushMarkText
    <2>7. PICK I, Q : I = I1 \cup {initcode_end}
                      /\ Q = IF runcode_start \in I1 THEN Q1 \cup {initcode_end} ELSE Q1
      OBVIOUS
    <2>8. asm' \in Texts(I, Q, D, {initcode_end})
      <3>1. initcode_end \notin I1 /\ asm' = PushMark(a1, initcode_end)
        BY <2>1, <2>4, <2>5
      <3> QED
        BY <2>4, <2>6, <2>7, <3>1, PushMarkText
    <2>9. D \subseteq I /\ {initcode_end} \subseteq Q /\ runcode_start \in I /\ initcode_end \in I
      BY <2>2, <2>5, <2>7
    <2>10. PlacedAt(asm'.sections, initcode_end, Len(asm'.sections))
      <3>1. a1 \in Asms /\ asm' = PushMark(a1, initcode_end)
        BY <2>1, <2>5, <2>6 DEF Texts
      <3> QED
        BY <2>4, <3>1, LastMark
    <2>11. PICK b2 : b2 = asm'
      OBVIOUS
    <2>12. WellFormed(asm.sections)' /\ RunCodeIsAlone' /\ \A id : Placed(id)' <=> id \in I
      BY <2>8, <2>9, <2>10, <2>11, ClosedTextIsWhole
    <2>13. \A m \in Nat : m >= 2 => (m \in I <=> m \in B)
      BY <2>5, <2>7 DEF runcode_start, initcode_end
    <2>14. \A b \in Blocks : FirstBbMark + b \in I <=> b \in Reachable(ir.init)
      <3>1. \A b \in Blocks : FirstBbMark + b \in Nat /\ FirstBbMark + b >= 2
        BY NumbersAssumption DEF Blocks, FirstBbMark
      <3>2. {b \in Blocks : FirstBbMark + b \in B} = Reachable(ir.init)
        BY <1>3 DEF InitMarks
      <3> QED
        BY <2>13, <3>1, <3>2
    <2>15. \A d \in Datas : DataMark(d) \in I <=> d \in DataUsed(ir.init) \cup UsedByMain
      <3>1. \A d \in Datas : DataMark(d) \in Nat /\ DataMark(d) >= 2
        BY NumbersAssumption DEF Datas, DataMark
      <3>2. {d \in Datas : DataMark(d) \in B} = initOnly
        BY <1>3 DEF InitMarks
      <3>3. UsedByMain = {} /\ initOnly = DataUsed(ir.init)
        BY <1>3, <1>6, <2>2 DEF UsedByMain
      <3> QED
        BY <2>13, <3>1, <3>2, <3>3
    <2>16. bbMarks \in Nat
      BY <1>4 DEF MarksInv
    <2>17. NothingIsMissing'
      BY <1>1, <1>6, <2>12, <2>14, <2>15, <2>16, NothingMissing
    <2> QED
      BY <2>1, <2>12, <2>17 DEF ContractInv, Whole
  <1> QED
    BY <1>5, <1>6

LEMMA FinishMainContract ==
    ASSUME BackendInv, ContractInv, FinishMain
    PROVE  ContractInv'
  <1>1. /\ stage = "code" /\ at = None /\ work.todo = <<>> /\ target = "main" /\ stage' = "assemble"
        /\ ir' = ir /\ bbMarks' = bbMarks /\ ir \in Programs /\ CodeInv
        /\ asm' = PushMark(PushSegments(asm, runtimeDatas), initcode_end)
    BY DEF FinishMain, CodeDone, BackendInv, TypeInv, ContractInv
  <1>2. MarksInv /\ DatasInv
    BY <1>1 DEF CodeInv
  <1>3. PICK B \in SUBSET Nat : InitMarks(B, bbMarks) /\ MainText(B)
    BY <1>1 DEF CodeInv
  <1>4. /\ work.seen = Reachable(ir.main) /\ work.seen \in SUBSET Blocks
        /\ CodeMarks = {BbMark(b) : b \in work.seen} \cup ReturnMarks
    BY <1>1, CodeIsDone DEF EntryPoint
  <1>5. /\ CodeMarks \subseteq bbMarks .. nextMark - 1
        /\ \A b \in Blocks : BbMark(b) \in CodeMarks <=> b \in work.seen
        /\ \A b \in Blocks : b \in Nat /\ b < NumBlocks
        /\ \A d \in Datas : d \in Nat /\ d < NumDatas
        /\ NumBlocks \in Nat /\ NumDatas \in Nat /\ bbMarks \in Nat /\ nextMark \in Nat
    BY <1>2, <1>4, CodeMarksRange
  <1>6. FirstBbMark = 2 + NumDatas /\ FirstBbMark + NumBlocks <= bbMarks
    BY <1>1, <1>2 DEF MarksInv, FirstBbMark
  <1>7. /\ B \subseteq 2 .. bbMarks - 1
        /\ {d \in Datas : DataMark(d) \in B} = initOnly
        /\ {b \in Blocks : FirstBbMark + b \in B} = Reachable(ir.init)
    BY <1>3 DEF InitMarks
  <1>8. /\ runtimeDatas = UsedByMain /\ runtimeDatas \in SUBSET Datas
        /\ initOnly = DataUsed(ir.init) \ runtimeDatas
    <2>1. runtimeDatas = UsedByMain /\ initOnly = DataUsed(ir.init) \ runtimeDatas
      BY <1>1, <1>2 DEF DatasInv
    <2> QED
      BY <2>1 DEF UsedByMain, DataUsed
  <1>9. PICK C, I, A, L, E : C = CodeMarks /\ I = B \cup {runcode_start} \cup C /\ A = LeftOver(B)
                             /\ L = Promised /\ E = DataMarks(runtimeDatas)
    OBVIOUS
  <1>10. asm \in Texts(I, C, A, L)
    BY <1>3, <1>9 DEF MainText
  <1>11. /\ \A m \in C : m \in Nat /\ m >= bbMarks
         /\ \A m \in B : m \in Nat /\ 2 <= m /\ m < bbMarks
         /\ \A d \in Datas : DataMark(d) \in Nat /\ 2 <= DataMark(d) /\ DataMark(d) < FirstBbMark
         /\ \A m \in E : m \in Nat /\ 2 <= m /\ m < FirstBbMark
    <2>1. \A m \in C : m \in Nat /\ m >= bbMarks
      BY <1>5, <1>9
    <2>2. \A m \in B : m \in Nat /\ 2 <= m /\ m < bbMarks
      BY <1>5, <1>7
    <2>3. \A d \in Datas : DataMark(d) \in Nat /\ 2 <= DataMark(d) /\ DataMark(d) < FirstBbMark
      BY <1>5, <1>6 DEF DataMark
    <2>4. \A m \in E : m \in Nat /\ 2 <= m /\ m < FirstBbMark
      BY <1>8, <1>9, <2>3 DEF DataMarks
    <2> QED
      BY <2>1, <2>2, <2>3, <2>4
  <1>12. /\ runcode_start = 0 /\ initcode_end = 1 /\ runcode_start \in I
         /\ \A d \in runtimeDatas : DataMark(d) \notin I
    <2>1. \A d \in runtimeDatas : DataMark(d) \notin B
      BY <1>7, <1>8
    <2> QED
      BY <1>5, <1>6, <1>8, <1>9, <1>11, <2>1 DEF runcode_start, initcode_end
  <1>13. PICK I2, Q2, a : I2 = I \cup E /\ a = PushSegments(asm, runtimeDatas)
                          /\ Q2 = IF runcode_start \in I THEN C \cup E ELSE C
    OBVIOUS
  <1>14. a \in Texts(I2, Q2, A, L)
    <2>1. a \in Texts(I \cup DataMarks(runtimeDatas),
                      IF runcode_start \in I THEN C \cup DataMarks(runtimeDatas) ELSE C, A, L)
      BY <1>1, <1>8, <1>10, <1>12, <1>13, SegmentsText
    <2> QED
      BY <1>9, <1>13, <2>1
  <1>15. initcode_end \notin I2 /\ initcode_end \in Nat /\ runcode_start \in I2 /\ Q2 = C \cup E
    <2>1. initcode_end \notin B /\ initcode_end \notin C /\ initcode_end \notin E
      BY <1>5, <1>6, <1>11, <1>12
    <2> QED
      BY <1>9, <1>12, <1>13, <2>1
  <1>16. PICK I3, Q3 : I3 = I2 \cup {initcode_end}
                       /\ Q3 = IF runcode_start \in I2 THEN Q2 \cup {initcode_end} ELSE Q2
    OBVIOUS
  <1>17. asm' = PushMark(a, initcode_end)
    BY <1>1, <1>13
  <1>18. asm' \in Texts(I3, Q3, A, L)
    BY <1>14, <1>15, <1>16, <1>17, PushMarkText
  <1>19. /\ I3 = B \cup C \cup E \cup {runcode_start, initcode_end}
         /\ Q3 = C \cup E \cup {initcode_end}
    BY <1>9, <1>13, <1>15, <1>16
  <1>20. A \subseteq I3
    BY <1>9, <1>19 DEF LeftOver
  <1>21. L \subseteq Q3
    BY <1>1, <1>4, <1>9, <1>19 DEF Promised
  <1>22. PlacedAt(asm'.sections, initcode_end, Len(asm'.sections))
    <2>1. a \in Asms
      BY <1>14 DEF Texts
    <2> QED
      BY <1>15, <1>17, <2>1, LastMark
  <1>23. WellFormed(asm.sections)' /\ RunCodeIsAlone' /\ \A id : Placed(id)' <=> id \in I3
    <2>1. runcode_start \in I3 /\ initcode_end \in I3
      BY <1>19
    <2>2. PICK b2 : b2 = asm'
      OBVIOUS
    <2> QED
      BY <1>18, <1>20, <1>21, <1>22, <2>1, <2>2, ClosedTextIsWhole
  <1>24. \A b \in Blocks : FirstBbMark + b \in I3 <=> b \in Reachable(ir.init)
    <2>1. ASSUME NEW b \in Blocks PROVE FirstBbMark + b \in I3 <=> FirstBbMark + b \in B
      <3>1. FirstBbMark + b \in Nat /\ FirstBbMark + b >= FirstBbMark /\ FirstBbMark + b < bbMarks
            /\ FirstBbMark + b >= 2
        BY <1>5, <1>6
      <3>2. FirstBbMark + b \notin C /\ FirstBbMark + b \notin E
        BY <1>5, <1>6, <1>11, <3>1
      <3>3. FirstBbMark + b # runcode_start /\ FirstBbMark + b # initcode_end
        BY <1>12, <3>1
      <3> QED
        BY <1>19, <3>2, <3>3
    <2> QED
      BY <1>7, <2>1
  <1>25. \A b \in Blocks : bbMarks + b \in I3 <=> b \in Reachable(ir.main)
    <2>1. ASSUME NEW b \in Blocks PROVE bbMarks + b \in I3 <=> BbMark(b) \in C
      <3>1. bbMarks + b \in Nat /\ bbMarks + b >= bbMarks /\ bbMarks + b = BbMark(b)
            /\ bbMarks + b >= 2 /\ bbMarks + b >= FirstBbMark
        BY <1>5, <1>6 DEF BbMark
      <3>2. bbMarks + b \notin B /\ bbMarks + b \notin E
        BY <1>5, <1>6, <1>11, <3>1
      <3>3. bbMarks + b # runcode_start /\ bbMarks + b # initcode_end
        BY <1>12, <3>1
      <3> QED
        BY <1>19, <3>1, <3>2, <3>3
    <2> QED
      BY <1>4, <1>5, <1>9, <2>1
  <1>26. \A d \in Datas : DataMark(d) \in I3 <=> d \in DataUsed(ir.init) \cup UsedByMain
    <2>1. ASSUME NEW d \in Datas PROVE DataMark(d) \in I3 <=> DataMark(d) \in B \/ DataMark(d) \in E
      <3>1. DataMark(d) \notin C /\ DataMark(d) # runcode_start /\ DataMark(d) # initcode_end
        BY <1>5, <1>6, <1>11, <1>12
      <3> QED
        BY <1>19, <3>1
    <2>2. \A d \in Datas : DataMark(d) \in E <=> d \in runtimeDatas
      <3>1. \A d, e \in Datas : DataMark(d) = DataMark(e) => d = e
        BY <1>5 DEF DataMark
      <3> QED
        BY <1>8, <1>9, <3>1 DEF DataMarks
    <2>3. \A d \in Datas : DataMark(d) \in B <=> d \in initOnly
      BY <1>7
    <2> QED
      BY <1>8, <2>1, <2>2, <2>3
  <1>27. NothingIsMissing'
    BY <1>1, <1>5, <1>23, <1>24, <1>25, <1>26, NothingMissing
  <1> QED
    BY <1>1, <1>23, <1>27 DEF ContractInv, Whole

-----------------------------------------------------------------------------
(* The assembler's steps and those that change nothing. *)

LEMMA WalkStays ==
    ASSUME ir' = ir, work' = work, at' = at, initOnly' = initOnly, runtimeDatas' = runtimeDatas,
           NEW f, WalkInv(f)
    PROVE  WalkInv(f)'
  <1>1. \A b : Done(b) => Done(b)'
    BY DEF Done, OpDone, IsCall
  <1>2. Reachable(f)' = Reachable(f)
    BY ReachableStays
  <1> QED
    BY <1>1, <1>2 DEF WalkInv, Blocks

LEMMA ContractStays ==
    ASSUME BackendInv, ContractInv, UNCHANGED codegenVars, asm' = asm
    PROVE  ContractInv'
  <1>1. /\ ir' = ir /\ target' = target /\ stage' = stage /\ work' = work /\ at' = at /\ ops' = ops
        /\ retMarks' = retMarks /\ nextMark' = nextMark /\ bbMarks' = bbMarks /\ asm' = asm
        /\ initOnly' = initOnly /\ runtimeDatas' = runtimeDatas
    BY DEF codegenVars
  <1>2. CASE stage = "memory"
    BY <1>1, <1>2, CollectKeepsContract
  <1>3. CASE stage = "assemble"
    BY <1>1, <1>3, WholeStays
  <1>4. CASE stage = "runtime_datas"
    <2>1. target = "init" /\ Untouched /\ RuntimeWalk
      BY <1>4 DEF ContractInv
    <2>2. Untouched'
      BY <1>1, <2>1 DEF Untouched, FirstBbMark
    <2>3. PICK f : f = ir.main
      OBVIOUS
    <2>4. f # None => WalkInv(f)' /\ runtimeDatas \subseteq DataUsed(f) /\ DataUsed(f)' = DataUsed(f)
      BY <1>1, <2>1, <2>3, WalkStays, ReachableStays DEF RuntimeWalk
    <2>5. f # None => WalkInv(ir.main)' /\ DataUsed(ir.main)' = DataUsed(f)
      BY <1>1, <2>3, <2>4, ReachableStays DEF WalkInv, Reachable, IsClosed, Blocks, IsCall
    <2>6. RuntimeWalk'
      BY <1>1, <2>1, <2>3, <2>4, <2>5 DEF RuntimeWalk, NoWork
    <2> QED
      BY <1>1, <1>4, <2>1, <2>2, <2>6 DEF ContractInv
  <1>5. CASE stage = "code"
    <2>1. CodeInv
      BY <1>5 DEF ContractInv
    <2>2. MarksInv' /\ DatasInv'
      <3>1. DatasInv'
        BY <1>1, <2>1, ReachableStays DEF CodeInv, DatasInv
      <3> QED
        BY <1>1, <2>1, <3>1 DEF CodeInv, MarksInv, FirstBbMark
    <2>3. WalkInv(EntryPoint)'
      <3>1. PICK f : f = EntryPoint
        OBVIOUS
      <3>2. EntryPoint' = f
        BY <1>1, <3>1 DEF EntryPoint
      <3>3. WalkInv(f)'
        BY <1>1, <2>1, <3>1, WalkStays DEF CodeInv
      <3> QED
        BY <1>1, <3>2, <3>3 DEF WalkInv, Reachable, IsClosed, Blocks, IsCall
    <2>4. VisitInv => VisitInv'
      BY <1>1 DEF VisitInv, OpDone, IsCall
    <2>5. ReturnsInv => ReturnsInv'
      BY <1>1 DEF ReturnsInv, AllDiffer, AwaitsCall, IsCallOf, IsReturnOf
    <2>6. CodeMarks' = CodeMarks /\ Promised' = Promised
      BY <1>1 DEF CodeMarks, Promised, ReturnMarks, Pending, BbMark, DataMarks, DataMark, initcode_end
    <2>7. \A B : LeftOver(B)' = LeftOver(B)
      BY <1>1 DEF LeftOver, DataMarks, DataMark, runcode_start, initcode_end
    <2>8. InitText => InitText'
      BY <1>1, <2>6 DEF InitText, runcode_start, initcode_end
    <2>9. ASSUME NEW B \in SUBSET Nat, InitMarks(B, bbMarks), MainText(B)
          PROVE  InitMarks(B, bbMarks)' /\ MainText(B)'
      <3>1. PICK n : n = bbMarks
        OBVIOUS
      <3>2. InitMarks(B, n)'
        BY <1>1, <2>9, <3>1, InitMarksStay
      <3>3. InitMarks(B, bbMarks)'
        BY <1>1, <3>1, <3>2 DEF InitMarks
      <3>4. MainText(B)'
        BY <1>1, <2>6, <2>7, <2>9 DEF MainText, runcode_start
      <3> QED
        BY <3>3, <3>4
    <2>10. CodeInv'
      BY <1>1, <2>1, <2>2, <2>3, <2>4, <2>5, <2>8, <2>9 DEF CodeInv
    <2> QED
      BY <1>1, <1>5, <2>10 DEF ContractInv
  <1>6. CASE stage \notin {"memory", "assemble", "runtime_datas", "code"}
    BY <1>1, <1>6 DEF ContractInv
  <1> QED
    BY <1>2, <1>3, <1>4, <1>5, <1>6

LEMMA ContractStep ==
    ASSUME BackendInv, ContractInv, [Next]_vars
    PROVE  ContractInv'
  <1>1. CASE CollectFunction \/ CollectBlock \/ CollectOperation \/ CollectControl
    <2>1. /\ stage = "memory" /\ stage' \in {"memory", "panic"}
          /\ ir' = ir /\ target' = target /\ asm' = asm /\ nextMark' = nextMark
          /\ initOnly' = initOnly /\ runtimeDatas' = runtimeDatas
      BY <1>1 DEF CollectFunction, CollectBlock, CollectOperation, CollectControl, asmVars
    <2> QED
      BY <2>1, CollectKeepsContract
  <1>2. CASE StartRuntimeDatas
    BY <1>2, StartRuntimeDatasContract
  <1>3. CASE CollectRuntimeDatas
    BY <1>3, CollectRuntimeDatasContract
  <1>4. CASE StartInitCode
    BY <1>4, StartInitCodeContract
  <1>5. CASE StartRunCode
    BY <1>5, StartRunCodeContract
  <1>6. CASE EmitBlock
    BY <1>6, EmitBlockContract
  <1>7. CASE EmitOperation
    BY <1>7, EmitOperationContract
  <1>8. CASE EmitControl
    BY <1>8, EmitControlContract
  <1>9. CASE FinishInit
    BY <1>9, FinishInitContract
  <1>10. CASE FinishMain
    BY <1>10, FinishMainContract
  <1>11. CASE Assembling
    <2>1. UNCHANGED codegenVars /\ (Assemble \/ LayoutStep)
      BY <1>11 DEF Assembling
    <2>2. Assemble \/ PlaceMinimum \/ EmitPlain \/ EmitReference => asm' = asm
      BY DEF Assemble, PlaceMinimum, EmitPlain, EmitReference
    <2>3. FirstPass \/ NextPass \/ Place => asm' = asm
      BY DEF FirstPass, NextPass, BeginPass, Place
    <2>4. NoConvergence \/ Converged \/ Finish => asm' = asm
      BY DEF NoConvergence, Converged, Finish
    <2> QED
      BY <2>1, <2>2, <2>3, <2>4, ContractStays DEF LayoutStep
  <1>12. CASE UNCHANGED vars
    BY <1>12, ContractStays DEF vars, asmVars
  <1> QED
    BY <1>1, <1>2, <1>3, <1>4, <1>5, <1>6, <1>7, <1>8, <1>9, <1>10, <1>11, <1>12 DEF Next, Codegen

-----------------------------------------------------------------------------
(* ContractInv holds of every reachable state. *)
LEMMA ContractInvHolds == Spec => []ContractInv
  <1>1. Init => ContractInv
    BY DEF Init, AssemblerInit, ContractInv, Untouched
  <1>2. BackendInv /\ ContractInv /\ [Next]_vars => ContractInv'
    BY ContractStep
  <1> QED
    BY <1>1, <1>2, BackendInvHolds, PTL DEF Spec

(* What code generation hands to the assembler (ir_to_bytecode, emit_init)  *)
(* is a whole contract, for every program with any number of blocks: every *)
(* mark referenced is placed, once, and no distance is negative; the run   *)
(* code refers to nothing outside the range that is copied; and the code   *)
(* and the data placed are those the entry points reach, no more, no less. *)
THEOREM ContractStands == Spec => []ContractIsWhole
  <1>1. ContractInv => ContractIsWhole
    BY DEF ContractInv, Whole, RunCodeIsAlone, NothingIsMissing, UsedByMain, ContractIsWhole, AtAssembly,
           SectionsAreWellFormed, RunCodeIsSelfContained, CodeIsComplete
  <1> QED
    BY <1>1, ContractInvHolds, PTL
=============================================================================

----------------------------- MODULE Assembler -----------------------------
(***************************************************************************)
(* The assembler of plank's code generators (sir/crates/assembler).        *)
(*                                                                         *)
(* A client pushes sections: marks, literal bytes, and references to       *)
(* marks.  `assemble` then finds an offset for every mark by walking the   *)
(* sections again and again, because the number of bytes a reference takes *)
(* depends on the offset it encodes, and at last emits the bytes.          *)
(*                                                                         *)
(* A byte has Radix values (256 in the code).  Which byte a literal is     *)
(* does not matter: it is known by its index in `bytes`.                   *)
(***************************************************************************)
EXTENDS Integers, Sequences

CONSTANTS
    Marks,      \* MarkId
    Nowhere,    \* the start of a reference that is not a difference
    Radix,      \* values of a byte: 256 in the code
    MaxPasses   \* MAX_ASSEMBLER_CONVERGENCE_ITERS: 1024 in the code

ASSUME NowhereAssumption == Nowhere \notin Marks
ASSUME RadixAssumption == Radix \in Nat /\ Radix > 1
ASSUME MaxPassesAssumption == MaxPasses \in Nat \ {0}

-----------------------------------------------------------------------------
(* Sections. *)

RefSize == 1 .. 4
Unsized == 0

MarkSections == [kind : {"mark"}, id : Marks]
ByteSections == [kind : {"ops", "data"}, start : Nat, end : Nat]
(* MarkReference::Direct(to) is the difference of `to` and Nowhere. *)
References == [kind : {"ref"}, from : Marks \cup {Nowhere}, to : Marks,
               setSize : {Unsized} \cup RefSize, pushed : BOOLEAN]
Sections == MarkSections \cup ByteSections \cup References

Direct(id) ==
    [kind |-> "ref", from |-> Nowhere, to |-> id, setSize |-> Unsized, pushed |-> TRUE]
Delta(start, end) == [Direct(end) EXCEPT !.from = start]

EmptyAsm == [sections |-> <<>>, bytes |-> 0]

PushSection(a, s) == [a EXCEPT !.sections = Append(@, s)]

PushMark(a, id) == PushSection(a, [kind |-> "mark", id |-> id])

PushReference(a, ref) == PushSection(a, ref)

(* Mutation: a span's end is taken for its length. *)
PushBytes_EndAsLength(a, kind, n) ==
    LET end == a.bytes + n
        len == Len(a.sections)
        extends == len > 0 /\ a.sections[len].kind = kind
    IN [sections |-> IF extends
                     THEN [a.sections EXCEPT ![len].end = @ + end]
                     ELSE Append(a.sections, [kind |-> kind, start |-> a.bytes, end |-> end]),
        bytes |-> end]

(* n literal bytes: they extend the last section if it is of their kind. *)
PushBytes(a, kind, n) ==
    LET end == a.bytes + n
        len == Len(a.sections)
        extends == len > 0 /\ a.sections[len].kind = kind
    IN [sections |-> IF extends
                     THEN [a.sections EXCEPT ![len].end = end]
                     ELSE Append(a.sections, [kind |-> kind, start |-> a.bytes, end |-> end]),
        bytes |-> end]

PushOps(a, n) == PushBytes(a, "ops", n)
PushData(a, n) == PushBytes(a, "data", n)

-----------------------------------------------------------------------------
(* Sizes. *)

BytesToHold(value) ==
    IF value < Radix THEN 1
    ELSE IF value < Radix * Radix THEN 2
    ELSE IF value < Radix * Radix * Radix THEN 3 ELSE 4

Start(ref, offset) == IF ref.from = Nowhere THEN 0 ELSE offset[ref.from]
Underflows(ref, offset) == offset[ref.to] < Start(ref, offset)

(* A difference whose start has already moved past its end counts as 0. *)
Value(ref, offset) ==
    IF Underflows(ref, offset) THEN 0 ELSE offset[ref.to] - Start(ref, offset)

PushOpSize(ref) == IF ref.pushed THEN 1 ELSE 0

(* Mutation: PUSH0 is forgotten. *)
MinCompiledSize_WithImmediate(s) ==
    CASE s.kind = "mark" -> 0
      [] s.kind \in {"ops", "data"} -> s.end - s.start
      [] s.kind = "ref" /\ s.setSize # Unsized -> s.setSize + PushOpSize(s)
      [] OTHER -> 1 + PushOpSize(s)
MinCompiledSize(s) ==
    CASE s.kind = "mark" -> 0
      [] s.kind \in {"ops", "data"} -> s.end - s.start
      [] s.kind = "ref" /\ s.setSize # Unsized -> s.setSize + PushOpSize(s)
      [] OTHER -> 1

TooSmall(s, offset) ==
    s.kind = "ref" /\ s.setSize # Unsized /\ s.setSize < BytesToHold(Value(s, offset))

IsPush0(ref, offset) == ref.setSize = Unsized /\ ref.pushed /\ Value(ref, offset) = 0

ImmediateSize(ref, offset) ==
    IF ref.setSize # Unsized THEN ref.setSize ELSE BytesToHold(Value(ref, offset))

CompiledSize(s, offset) ==
    CASE s.kind = "mark" -> 0
      [] s.kind \in {"ops", "data"} -> s.end - s.start
      [] s.kind = "ref" /\ IsPush0(s, offset) -> 1
      [] OTHER -> ImmediateSize(s, offset) + PushOpSize(s)

-----------------------------------------------------------------------------
VARIABLES
    asm,        \* the Assembler: its sections and the number of its bytes
    phase,      \* where `assemble` is, or how it ended
    index,      \* the section the current walk is at
    here,       \* min_size, then current_code_offset
    offset,     \* mark_to_offset
    converged,  \* no mark has moved in this pass
    passes,     \* convergence passes begun
    result,     \* the bytes emitted
    starts,     \* not in the code: the offset of each section in this pass
    stride,     \* not in the code: how far each mark moved when last placed
    steady      \* not in the code: so far no start of a span has sped up

history == <<stride, steady>>
layoutVars == <<index, here, offset, converged, passes, starts, history>>
asmVars == <<asm, phase, layoutVars, result>>

Failures == {"too_small", "no_convergence", "delta_underflow", "invalid_ref_size"}
Phases == {"push", "minimum", "pass", "emit", "done"} \cup Failures

(* A byte of the result: a literal, a PUSHn opcode, or a base-Radix digit. *)
Bytes == {"literal", "push", "digit"} \X Nat

Len_ == Len(asm.sections)
Section == asm.sections[index]

AssemblerInit ==
    /\ asm = EmptyAsm
    /\ phase = "push"
    /\ index = 1 /\ here = 0 /\ converged = FALSE /\ passes = 0
    /\ offset = [m \in Marks |-> 0]
    /\ result = <<>> /\ starts = <<>>
    /\ stride = [m \in Marks |-> 0] /\ steady = TRUE

Assemble ==
    /\ phase = "push"
    /\ phase' = "minimum"
    /\ index' = 1 /\ here' = 0
    /\ offset' = [m \in Marks |-> 0]
    /\ UNCHANGED <<asm, converged, passes, result, starts, history>>

(* The first walk lays out every section at its minimal size. *)
PlaceMinimum ==
    /\ phase = "minimum" /\ index <= Len_
    /\ offset' = IF Section.kind = "mark" THEN [offset EXCEPT ![Section.id] = here]
                                          ELSE offset
    /\ here' = here + MinCompiledSize(Section)
    /\ index' = index + 1
    /\ UNCHANGED <<asm, phase, converged, passes, result, starts, history>>

BeginPass ==
    /\ phase' = "pass"
    /\ index' = 1 /\ here' = 0 /\ converged' = TRUE /\ starts' = <<>>
    /\ passes' = passes + 1
    /\ UNCHANGED <<asm, offset, result, history>>

FirstPass == phase = "minimum" /\ index > Len_ /\ BeginPass

(* Mutation: convergence is not tested. *)
Moved_Never == FALSE

(* A convergence pass updates the offsets it reads. *)
Moved == Section.kind = "mark" /\ offset[Section.id] # here

Offsets == IF Section.kind = "mark" THEN [offset EXCEPT ![Section.id] = here] ELSE offset

(* A span is a distance that a reference stands in which encodes it: each  *)
(* pass reads its start moved already and its end not yet.                 *)
PlacedAt(secs, id, i) == secs[i].kind = "mark" /\ secs[i].id = id

Spans(secs, r, i, j) ==
    i < r /\ r < j /\ secs[r].kind = "ref"
          /\ PlacedAt(secs, secs[r].from, i) /\ PlacedAt(secs, secs[r].to, j)

StartsSpan(secs, i) == \E r, j \in 1 .. Len(secs) : Spans(secs, r, i, j)

(* History: it is steady as long as no start of a span speeds up, that is  *)
(* moves farther in a pass than in the one before, the first pass aside.   *)
RecordMove ==
    LET move == here - offset[Section.id]
    IN IF Section.kind = "mark"
       THEN /\ stride' = [stride EXCEPT ![Section.id] = move]
            /\ steady' = (steady /\ (passes > 1 /\ StartsSpan(asm.sections, index)
                                        => move <= stride[Section.id]))
       ELSE UNCHANGED history

Place ==
    /\ phase = "pass" /\ index <= Len_
    /\ RecordMove
    /\ offset' = Offsets
    /\ converged' = (converged /\ ~Moved)
    /\ IF TooSmall(Section, Offsets)
       THEN phase' = "too_small" /\ UNCHANGED <<index, here, starts>>
       ELSE /\ here' = here + CompiledSize(Section, Offsets)
            /\ index' = index + 1
            /\ starts' = Append(starts, here)
            /\ phase' = phase
    /\ UNCHANGED <<asm, passes, result>>

NextPass ==
    /\ phase = "pass" /\ index > Len_ /\ ~converged
    /\ passes < MaxPasses
    /\ BeginPass

NoConvergence ==
    /\ phase = "pass" /\ index > Len_ /\ ~converged
    /\ passes = MaxPasses
    /\ phase' = "no_convergence"
    /\ UNCHANGED <<asm, layoutVars, result>>

Converged ==
    /\ phase = "pass" /\ index > Len_ /\ converged
    /\ phase' = "emit"
    /\ index' = 1
    /\ UNCHANGED <<asm, here, offset, converged, passes, result, starts, history>>

EmitPlain ==
    /\ phase = "emit" /\ index <= Len_ /\ Section.kind # "ref"
    /\ result' = IF Section.kind = "mark" THEN result
                 ELSE result \o [i \in 1 .. (Section.end - Section.start) |->
                                    <<"literal", Section.start + i - 1>>]
    /\ index' = index + 1
    /\ UNCHANGED <<asm, phase, here, offset, converged, passes, starts, history>>

(* The `size` lowest base-Radix digits of value, most significant first. *)
Power == [n \in 0 .. 3 |-> IF n = 0 THEN 1 ELSE IF n = 1 THEN Radix
                           ELSE IF n = 2 THEN Radix * Radix ELSE Radix * Radix * Radix]
(* Mutation: the least significant digit comes first. *)
Digits_LittleEndian(value, size) ==
    [i \in 1 .. size |-> <<"digit", (value \div Power[i - 1]) % Radix>>]
Digits(value, size) ==
    [i \in 1 .. size |-> <<"digit", (value \div Power[size - i]) % Radix>>]

Emitted(ref) ==
    LET size == ImmediateSize(ref, offset)
    IN IF IsPush0(ref, offset) THEN << <<"push", 0>> >>
       ELSE (IF ref.pushed THEN << <<"push", size>> >> ELSE <<>>)
            \o Digits(Value(ref, offset), size)

EmitReference ==
    /\ phase = "emit" /\ index <= Len_ /\ Section.kind = "ref"
    /\ IF Underflows(Section, offset) THEN
          phase' = "delta_underflow" /\ UNCHANGED <<result, index>>
       ELSE IF TooSmall(Section, offset) THEN
          phase' = "invalid_ref_size" /\ UNCHANGED <<result, index>>
       ELSE phase' = phase /\ result' = result \o Emitted(Section) /\ index' = index + 1
    /\ UNCHANGED <<asm, here, offset, converged, passes, starts, history>>

Finish ==
    /\ phase = "emit" /\ index > Len_
    /\ phase' = "done"
    /\ UNCHANGED <<asm, layoutVars, result>>

LayoutStep ==
    \/ PlaceMinimum \/ FirstPass
    \/ Place \/ NextPass \/ NoConvergence \/ Converged
    \/ EmitPlain \/ EmitReference \/ Finish

-----------------------------------------------------------------------------
(* What the code generators guarantee of the sections they push: a mark    *)
(* that is referenced is placed, no mark is placed twice, and the start of *)
(* a difference is placed before its end.                                  *)
Precedes(secs, a, b) ==
    \E i, j \in 1 .. Len(secs) : i < j /\ PlacedAt(secs, a, i) /\ PlacedAt(secs, b, j)

WellFormed(secs) ==
    /\ \A i, j \in 1 .. Len(secs) :
          secs[i].kind = "mark" /\ secs[j].kind = "mark" /\ secs[i].id = secs[j].id => i = j
    /\ \A r \in 1 .. Len(secs) : secs[r].kind = "ref" =>
          /\ \E i \in 1 .. Len(secs) : PlacedAt(secs, secs[r].to, i)
          /\ secs[r].from # Nowhere => Precedes(secs, secs[r].from, secs[r].to)

-----------------------------------------------------------------------------
(* What `assemble` must do with any well-formed sequence of sections.      *)

IsAsm(a) ==
    /\ a \in [sections : Seq(Sections), bytes : Nat]
    /\ \A i \in 1 .. Len(a.sections) : a.sections[i].kind \in {"ops", "data"} =>
          a.sections[i].start <= a.sections[i].end /\ a.sections[i].end <= a.bytes

(* The state is well typed; spans of literals lie within `bytes`.          *)
AssemblerTypeOK ==
    /\ IsAsm(asm)
    /\ phase \in Phases
    /\ index \in 1 .. Len_ + 1
    /\ here \in Nat
    /\ offset \in [Marks -> Nat]
    /\ converged \in BOOLEAN
    /\ passes \in 0 .. MaxPasses
    /\ result \in Seq(Bytes)
    /\ starts \in Seq(Nat)
    /\ stride \in [Marks -> Int]
    /\ steady \in BOOLEAN

(* A mark is reached, when the bytes are emitted, exactly at the offset     *)
(* that references to it encode, wherever they stand.                      *)
MarksLieAtTheirOffsets ==
    phase = "emit" /\ index <= Len_ /\ Section.kind = "mark"
        => Len(result) = offset[Section.id]

(* The "delta underflow after convergence" and "reached code emission with  *)
(* invalid ref size" panics of assemble are never reached.                 *)
EmissionDoesNotPanic == phase \notin {"delta_underflow", "invalid_ref_size"}

Placed(id) == \E i \in 1 .. Len_ : PlacedAt(asm.sections, id, i)

(* The bytes at a reference: an optional PUSHn, then n digits. *)
Decode(digits) ==
    LET value[n \in 0 .. Len(digits)] ==
            IF n = 0 THEN 0 ELSE value[n - 1] * Radix + digits[n][2]
    IN value[Len(digits)]

PositionOf(id) ==
    starts[CHOOSE i \in 1 .. Len_ : PlacedAt(asm.sections, id, i)]

Emission(i) == SubSeq(result, starts[i] + 1, IF i = Len_ THEN Len(result) ELSE starts[i + 1])

ReadsAs(bytes, ref, value) ==
    LET imm == IF ref.pushed THEN Tail(bytes) ELSE bytes
    IN /\ ref.pushed => bytes[1] = <<"push", Len(imm)>>
       /\ ref.setSize # Unsized => Len(imm) = ref.setSize
       /\ \A d \in 1 .. Len(imm) : imm[d][1] = "digit"
       /\ Decode(imm) = value

(* The finished code, read back byte by byte, pushes for every reference    *)
(* the place where its mark was emitted (or the distance of two marks), and *)
(* its literals are the bytes pushed, each once and in order.              *)
CodeReadsBack ==
    phase = "done" =>
        /\ \A i \in 1 .. Len_ : LET s == asm.sections[i] IN s.kind = "ref" =>
              ReadsAs(Emission(i), s,
                      PositionOf(s.to) - IF s.from = Nowhere THEN 0 ELSE PositionOf(s.from))
        /\ LET literals == {p \in 1 .. Len(result) : result[p][1] = "literal"}
           IN /\ {result[p][2] : p \in literals} = 0 .. asm.bytes - 1
              /\ \A p, q \in literals : p < q => result[p][2] < result[q][2]
-----------------------------------------------------------------------------
(* A layout by hypothesis: a size for every reference (equal references    *)
(* encode the same offset), from which the offsets of all sections follow. *)
RefIndices == {i \in 1 .. Len_ : asm.sections[i].kind = "ref"}
Refs == {asm.sections[i] : i \in RefIndices}

PlacedOffsets(size) ==
    LET at[i \in 1 .. Len_ + 1] ==
            IF i = 1 THEN 0
            ELSE LET s == asm.sections[i - 1]
                 IN at[i - 1] + IF s \in Refs THEN size[s] ELSE MinCompiledSize(s)
    IN [m \in Marks |-> IF Placed(m)
                        THEN at[CHOOSE i \in 1 .. Len_ : PlacedAt(asm.sections, m, i)] ELSE 0]

(* The layouts that the sizes of all references agree with. *)
ConsistentLayouts ==
    {off \in {PlacedOffsets(size) : size \in [Refs -> 1 .. 5]} :
        /\ \A ref \in Refs : ~TooSmall(ref, off)
        /\ PlacedOffsets([ref \in Refs |-> CompiledSize(ref, off)]) = off}

(* Of all consistent layouts the assembler picks the smallest, as long as   *)
(* no start of a span speeds up.                                           *)
LayoutIsLeast ==
    phase = "done" /\ steady => \A off \in ConsistentLayouts, m \in Marks :
        Placed(m) => offset[m] <= off[m]

(* RefHasTooSmallSetSize is reported only if no layout exists.             *)
ErrorIsReal == phase = "too_small" => ConsistentLayouts = {}

(* `unreachable!("assembly didn't converge")` is reached only if a start of *)
(* a span has sped up.                                                     *)
SteadyConverges == phase = "no_convergence" => ~steady

(* The layout chosen is the least there is and the limit on passes is not  *)
(* met, as long as no start of a span speeds up; the size error means that *)
(* there is no layout, and the code reads back as what was asked for.      *)
AssemblyIsCorrect == LayoutIsLeast /\ ErrorIsReal /\ SteadyConverges /\ CodeReadsBack

(* Offsets only grow from pass to pass, until a start of a span speeds up.  *)
OffsetsGrow ==
    [][steady /\ phase = "pass" => \A m \in Marks : offset'[m] >= offset[m]]_asmVars
=============================================================================

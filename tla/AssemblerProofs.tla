--------------------------- MODULE AssemblerProofs ---------------------------
(* Proofs about the assembler, for every client, number of sections, marks *)
(* and byte size: that the layout it settles on is the one it emits.       *)
EXTENDS AssemblerClient, SequenceLemmas

(* Of sections secs, those walked so far start at st; the walk is at h.     *)
Pos(st, h, i) == IF i <= Len(st) THEN st[i] ELSE h

MarksAt(secs, st, off) ==
    \A i \in 1 .. Len(st) : secs[i].kind = "mark" => off[secs[i].id] = st[i]

Sorted(st, h) == \A i, j \in 1 .. Len(st) + 1 : i <= j => Pos(st, h, i) <= Pos(st, h, j)

Chained(secs, st, h, off) ==
    \A i \in 1 .. Len(st) :
        /\ Pos(st, h, i + 1) = Pos(st, h, i) + CompiledSize(secs[i], off)
        /\ ~TooSmall(secs[i], off)

(* What the type invariant needs to be inductive: no pass has begun before *)
(* the sections are complete.                                              *)
TypeInv ==
    /\ AssemblerTypeOK
    /\ phase = "push" => index = 1
    /\ phase \in {"push", "minimum"} => passes = 0

(* The strengthening: during a pass the walked sections are laid out one    *)
(* behind the other; if no mark has moved in the pass, with the sizes that *)
(* the present offsets give, and the emitter writes exactly those sizes.   *)
LayoutInv ==
    /\ phase # "push" => WellFormed(asm.sections)
    /\ phase \in {"push", "minimum", "pass"} => result = <<>>
    /\ phase = "pass" => Len(starts) = index - 1
    /\ phase \in {"emit", "done"} => /\ Len(starts) = Len_ /\ converged
                                     /\ Len(result) = Pos(starts, here, index)
    /\ phase = "done" => index > Len_
    /\ phase \in {"pass", "emit", "done"} =>
          /\ Pos(starts, here, 1) = 0
          /\ MarksAt(asm.sections, starts, offset)
          /\ Sorted(starts, here)
          /\ converged => Chained(asm.sections, starts, here, offset)
    /\ EmissionDoesNotPanic

-----------------------------------------------------------------------------
(* Operators of the model. *)

LEMMA KindIsType ==
    ASSUME NEW s \in Sections
    PROVE  /\ s.kind = "mark" => s \in MarkSections
           /\ s.kind \in {"ops", "data"} => s \in ByteSections
           /\ s.kind = "ref" => s \in References
           /\ s.kind \in {"mark", "ops", "data", "ref"}
BY DEF Sections, MarkSections, ByteSections, References

LEMMA BytesToHoldType ==
    ASSUME NEW v \in Nat PROVE BytesToHold(v) \in RefSize
BY DEF BytesToHold, RefSize

LEMMA ReferenceTypes ==
    ASSUME NEW ref \in References, NEW off \in [Marks -> Nat]
    PROVE  /\ Start(ref, off) \in Nat
           /\ Value(ref, off) \in Nat
           /\ ImmediateSize(ref, off) \in RefSize
           /\ PushOpSize(ref) \in 0 .. 1
<1>1. Start(ref, off) \in Nat /\ off[ref.to] \in Nat
  BY DEF References, Start
<1>2. Value(ref, off) \in Nat
  BY <1>1 DEF Value, Underflows
<1>3. ImmediateSize(ref, off) \in RefSize
  BY <1>2, BytesToHoldType DEF ImmediateSize, References, Unsized
<1>4. PushOpSize(ref) \in 0 .. 1
  BY DEF PushOpSize
<1> QED BY <1>1, <1>2, <1>3, <1>4

LEMMA SizesAreNat ==
    ASSUME NEW s \in Sections, NEW off \in [Marks -> Nat],
           s.kind \in {"ops", "data"} => s.start <= s.end
    PROVE  CompiledSize(s, off) \in Nat /\ MinCompiledSize(s) \in Nat
<1>1. CASE s.kind = "mark"
  BY <1>1 DEF CompiledSize, MinCompiledSize
<1>2. CASE s.kind \in {"ops", "data"}
  <2>1. s \in ByteSections
    BY <1>2, KindIsType
  <2>2. s.end - s.start \in Nat
    BY <1>2, <2>1 DEF ByteSections
  <2> QED BY <1>2, <2>2 DEF CompiledSize, MinCompiledSize
<1>3. CASE s.kind = "ref"
  <2>1. s \in References
    BY <1>3, KindIsType
  <2>2. ImmediateSize(s, off) + PushOpSize(s) \in Nat
    BY <2>1, ReferenceTypes DEF RefSize
  <2>3. s.setSize # Unsized => s.setSize + PushOpSize(s) \in Nat
    BY <2>1, ReferenceTypes DEF References, RefSize, Unsized
  <2> QED BY <1>3, <2>2, <2>3 DEF CompiledSize, MinCompiledSize
<1> QED BY <1>1, <1>2, <1>3, KindIsType

LEMMA PushSectionIsAsm ==
    ASSUME NEW a, IsAsm(a), NEW s \in Sections,
           s.kind \in {"ops", "data"} => s.start <= s.end /\ s.end <= a.bytes
    PROVE  IsAsm(PushSection(a, s))
BY DEF IsAsm, PushSection

LEMMA PushBytesIsAsm ==
    ASSUME NEW a, IsAsm(a), NEW kind \in {"ops", "data"}, NEW n \in Nat
    PROVE  IsAsm(PushBytes(a, kind, n))
<1> DEFINE end == a.bytes + n
           len == Len(a.sections)
           new == [kind |-> kind, start |-> a.bytes, end |-> end]
           secs == IF len > 0 /\ a.sections[len].kind = kind
                   THEN [a.sections EXCEPT ![len].end = end] ELSE Append(a.sections, new)
<1>1. PushBytes(a, kind, n) = [sections |-> secs, bytes |-> end]
  BY DEF PushBytes
<1>2. a.sections \in Seq(Sections) /\ a.bytes \in Nat /\ end \in Nat /\ a.bytes <= end
  BY DEF IsAsm
<1>3. new \in Sections
  BY <1>2 DEF Sections, ByteSections
<1>4. /\ secs \in Seq(Sections)
      /\ \A i \in 1 .. Len(secs) : secs[i].kind \in {"ops", "data"} =>
            secs[i].start <= secs[i].end /\ secs[i].end <= end
  <2>1. CASE len > 0 /\ a.sections[len].kind = kind
    <3>1. secs = [a.sections EXCEPT ![len] = [a.sections[len] EXCEPT !.end = end]]
      BY <2>1
    <3>2. a.sections[len] \in ByteSections /\ a.sections[len].start <= a.bytes
      BY <2>1, <1>2, KindIsType DEF IsAsm, ByteSections
    <3>3. [a.sections[len] EXCEPT !.end = end] \in Sections
      BY <3>2, <1>2 DEF Sections, ByteSections
    <3>4. [a.sections[len] EXCEPT !.end = end].start <= end
      BY <3>2, <1>2 DEF ByteSections
    <3>5. [a.sections[len] EXCEPT !.end = end].end = end
      BY <3>2 DEF ByteSections
    <3> HIDE DEF new, end
    <3>6. secs \in Seq(Sections) /\ Len(secs) = len
      BY <3>1, <3>3, <1>2
    <3>7. ASSUME NEW i \in 1 .. Len(secs), secs[i].kind \in {"ops", "data"}
          PROVE  secs[i].start <= secs[i].end /\ secs[i].end <= end
      <4>1. CASE i = len
        BY <4>1, <3>1, <3>4, <3>5, <1>2, <2>1
      <4>2. CASE i # len
        <5>1. secs[i] = a.sections[i] /\ i \in 1 .. Len(a.sections)
          BY <4>2, <3>1, <3>6, <1>2
        <5>2. secs[i] \in ByteSections
          BY <5>1, <1>2, <3>7, KindIsType
        <5> QED BY <5>1, <5>2, <3>7, <1>2 DEF IsAsm, ByteSections
      <4> QED BY <4>1, <4>2
    <3> QED BY <3>6, <3>7
  <2>2. CASE ~(len > 0 /\ a.sections[len].kind = kind)
    <3>1. secs = Append(a.sections, new)
      BY <2>2
    <3>2. ASSUME NEW i \in 1 .. Len(secs), secs[i].kind \in {"ops", "data"}
          PROVE  secs[i].start <= secs[i].end /\ secs[i].end <= end
      <4>1. CASE i = len + 1
        BY <4>1, <3>1, <1>2
      <4>2. CASE i # len + 1
        <5>1. secs[i] = a.sections[i] /\ i \in 1 .. Len(a.sections)
          BY <4>2, <3>1, <1>2
        <5>2. secs[i] \in ByteSections
          BY <5>1, <1>2, <3>2, KindIsType
        <5> QED BY <5>1, <5>2, <3>2, <1>2 DEF IsAsm, ByteSections
      <4> QED BY <4>1, <4>2
    <3> QED BY <3>1, <3>2, <1>2, <1>3
  <2> QED BY <2>1, <2>2
<1> HIDE DEF secs, end
<1> QED BY <1>1, <1>2, <1>4 DEF IsAsm

LEMMA PowerType == \A n \in 0 .. 3 : Power[n] \in Nat \ {0}
<1>1. Radix * Radix \in Nat \ {0}
  BY RadixAssumption
<1>2. Radix * Radix * Radix \in Nat \ {0}
  <2> DEFINE square == Radix * Radix
  <2>1. square \in Nat \ {0}
    BY <1>1
  <2> HIDE DEF square
  <2>2. square * Radix \in Nat \ {0}
    BY <2>1, RadixAssumption
  <2> QED BY <2>2 DEF square
<1> QED BY <1>1, <1>2, RadixAssumption DEF Power

LEMMA DigitsType ==
    ASSUME NEW value \in Nat, NEW size \in RefSize
    PROVE  Digits(value, size) \in Seq(Bytes) /\ Len(Digits(value, size)) = size
<1>1. ASSUME NEW i \in 1 .. size
      PROVE  <<"digit", (value \div Power[size - i]) % Radix>> \in Bytes
  <2>1. size - i \in 0 .. 3
    BY DEF RefSize
  <2>2. PICK d \in Nat \ {0} : d = Power[size - i]
    BY <2>1, PowerType
  <2>3. PICK q \in Nat : q = value \div d
    BY <2>2
  <2>4. q % Radix \in Nat
    BY <2>3, RadixAssumption
  <2> QED BY <2>2, <2>3, <2>4 DEF Bytes
<1>2. size \in Nat
  BY DEF RefSize
<1> QED BY <1>1, <1>2 DEF Digits

LEMMA EmittedType ==
    ASSUME NEW ref \in References, ref.kind = "ref", offset \in [Marks -> Nat]
    PROVE  /\ Emitted(ref) \in Seq(Bytes)
           /\ Len(Emitted(ref)) = CompiledSize(ref, offset)
<1>1. ImmediateSize(ref, offset) \in RefSize /\ Value(ref, offset) \in Nat
  BY ReferenceTypes
<1>2. CASE IsPush0(ref, offset)
  <2>1. << <<"push", 0>> >> \in Seq(Bytes) /\ Len(<< <<"push", 0>> >>) = 1
    BY DEF Bytes
  <2> QED BY <1>2, <2>1 DEF Emitted, CompiledSize
<1>3. CASE ~IsPush0(ref, offset)
  <2> DEFINE size == ImmediateSize(ref, offset)
             opcode == IF ref.pushed THEN << <<"push", size>> >> ELSE <<>>
             digits == Digits(Value(ref, offset), size)
  <2>1. opcode \in Seq(Bytes) /\ Len(opcode) = PushOpSize(ref)
    <3>1. << <<"push", size>> >> \in Seq(Bytes) /\ Len(<< <<"push", size>> >>) = 1
      BY <1>1 DEF Bytes, RefSize
    <3>2. <<>> \in Seq(Bytes) /\ Len(<<>>) = 0
      BY EmptySeq
    <3> QED BY <3>1, <3>2 DEF PushOpSize
  <2>2. digits \in Seq(Bytes) /\ Len(digits) = size
    BY <1>1, DigitsType
  <2>3. Emitted(ref) = opcode \o digits
    BY <1>3 DEF Emitted
  <2>4. CompiledSize(ref, offset) = size + PushOpSize(ref)
    BY <1>3 DEF CompiledSize
  <2> HIDE DEF opcode, digits, size
  <2>5. size \in Nat /\ PushOpSize(ref) \in Nat
    BY <1>1 DEF size, RefSize, PushOpSize
  <2>6. opcode \o digits \in Seq(Bytes) /\ Len(opcode \o digits) = Len(opcode) + Len(digits)
    BY <2>1, <2>2, ConcatProperties
  <2>7. size + PushOpSize(ref) = PushOpSize(ref) + size
    BY <2>5
  <2> QED BY <2>1, <2>2, <2>3, <2>4, <2>6, <2>7
<1> QED BY <1>2, <1>3

LEMMA SectionType ==
    ASSUME IsAsm(asm), index \in 1 .. Len_ + 1, index <= Len_
    PROVE  /\ Section \in Sections
           /\ Section.kind \in {"ops", "data"} =>
                 Section.start <= Section.end /\ Section.end <= asm.bytes
           /\ index + 1 \in 1 .. Len_ + 1
BY DEF IsAsm, Section, Len_

-----------------------------------------------------------------------------
(* The type invariant. *)

LEMMA PushReferencesIsAsm ==
    ASSUME NEW a, IsAsm(a), NEW ref \in References, NEW n \in Nat
    PROVE  IsAsm(PushReferences(a, ref, n))
<1> DEFINE more == [i \in 1 .. n |-> ref]
           secs == a.sections \o more
<1>1. /\ a \in [sections : Seq(Sections), bytes : Nat]
      /\ a.sections \in Seq(Sections) /\ a.bytes \in Nat
      /\ \A i \in 1 .. Len(a.sections) : a.sections[i].kind \in {"ops", "data"} =>
            a.sections[i].start <= a.sections[i].end /\ a.sections[i].end <= a.bytes
  BY DEF IsAsm
<1>2. ref \in Sections /\ ref.kind = "ref"
  BY DEF Sections, References
<1>3. more \in Seq(Sections) /\ Len(more) = n
  BY <1>2
<1>4. PushReferences(a, ref, n) = [a EXCEPT !.sections = secs]
  BY DEF PushReferences
<1>5. secs \in Seq(Sections)
  BY <1>1, <1>3
<1>6. \A i \in 1 .. Len(secs) :
          (i \in 1 .. Len(a.sections) /\ secs[i] = a.sections[i]) \/ secs[i] = ref
  BY <1>1, <1>3, ConcatProperties
<1> HIDE DEF more, secs
<1>7. \A i \in 1 .. Len(secs) : secs[i].kind \in {"ops", "data"} =>
          secs[i].start <= secs[i].end /\ secs[i].end <= a.bytes
  BY <1>1, <1>2, <1>6
<1>8. /\ PushReferences(a, ref, n).sections = secs
      /\ PushReferences(a, ref, n).bytes = a.bytes
      /\ PushReferences(a, ref, n) \in [sections : Seq(Sections), bytes : Nat]
  BY <1>1, <1>4, <1>5
<1> QED BY <1>7, <1>8 DEF IsAsm

LEMMA ClientTypes ==
    ASSUME TypeInv, ClientMark \/ ClientOp \/ ClientData \/ ClientReference
    PROVE  TypeInv'
<1>1. PICK a : Client(a) /\ IsAsm(a)
  <2> USE DEF TypeInv, AssemblerTypeOK
  <2>1. CASE ClientMark
    <3>1. PICK id \in Marks : Client(PushMark(asm, id))
      BY <2>1 DEF ClientMark
    <3>2. [kind |-> "mark", id |-> id] \in Sections
      BY DEF Sections, MarkSections
    <3>3. IsAsm(PushMark(asm, id))
      BY <3>2, PushSectionIsAsm DEF PushMark
    <3> QED BY <3>1, <3>3
  <2>2. CASE ClientOp
    BY <2>2, PushBytesIsAsm DEF ClientOp, PushOps
  <2>3. CASE ClientData
    BY <2>3, PushBytesIsAsm, ClientAssumption DEF ClientData, PushData
  <2>4. CASE ClientReference
    <3> DEFINE Ref(from, to, k) == [kind |-> "ref", from |-> from, to |-> to,
                                    setSize |-> k.setSize, pushed |-> k.pushed]
    <3>1. PICK from \in Marks \cup {Nowhere}, to \in Marks, k \in RefKinds :
             Client(PushReferences(asm, Ref(from, to, k), k.times))
      BY <2>4 DEF ClientReference
    <3>2. Ref(from, to, k) \in References /\ k.times \in Nat
      BY ClientAssumption DEF References
    <3>3. IsAsm(PushReferences(asm, Ref(from, to, k), k.times))
      BY <3>2, PushReferencesIsAsm
    <3> QED BY <3>1, <3>3
  <2> QED BY <2>1, <2>2, <2>3, <2>4, ClientAssumption
<1>2. asm' = a /\ phase = "push" /\ UNCHANGED <<phase, layoutVars, result>>
  BY <1>1 DEF Client
<1>3. Len(a.sections) \in Nat
  BY <1>1 DEF IsAsm
<1> QED BY <1>1, <1>2, <1>3 DEF TypeInv, AssemblerTypeOK, layoutVars, history, Len_

LEMMA LiteralsType ==
    ASSUME NEW from \in Nat, NEW n \in Nat
    PROVE  LET lits == [i \in 1 .. n |-> <<"literal", from + i - 1>>]
           IN lits \in Seq(Bytes) /\ Len(lits) = n
<1>1. \A i \in 1 .. n : from + i - 1 \in Nat
  OBVIOUS
<1>2. \A i \in 1 .. n : <<"literal", from + i - 1>> \in Bytes
  BY <1>1 DEF Bytes
<1> QED BY <1>2

LEMMA OffsetsType ==
    ASSUME TypeInv, index <= Len_
    PROVE  /\ Section \in Sections
           /\ [offset EXCEPT ![Section.id] = here] \in [Marks -> Nat]
           /\ Offsets \in [Marks -> Nat]
           /\ MinCompiledSize(Section) \in Nat
           /\ CompiledSize(Section, Offsets) \in Nat
           /\ index + 1 \in 1 .. Len_ + 1
<1>1. IsAsm(asm) /\ index \in 1 .. Len_ + 1 /\ here \in Nat /\ offset \in [Marks -> Nat]
  BY DEF TypeInv, AssemblerTypeOK
<1>2. /\ Section \in Sections /\ index + 1 \in 1 .. Len_ + 1
      /\ Section.kind \in {"ops", "data"} => Section.start <= Section.end
  BY <1>1, SectionType
<1>3. [offset EXCEPT ![Section.id] = here] \in [Marks -> Nat]
  BY <1>1
<1>4. Offsets \in [Marks -> Nat]
  BY <1>1, <1>3 DEF Offsets
<1> QED BY <1>2, <1>3, <1>4, SizesAreNat

LEMMA AssembleTypes ==
    ASSUME TypeInv, Assemble \/ FirstPass \/ NextPass \/ NoConvergence \/ Converged \/ Finish
    PROVE  TypeInv'
<1> USE DEF TypeInv, AssemblerTypeOK, Phases, Failures, Len_, history
<1>1. Len(asm.sections) \in Nat
  BY DEF IsAsm
<1>2. CASE Assemble
  BY <1>1, <1>2 DEF Assemble
<1>3. CASE FirstPass
  BY <1>1, <1>3, MaxPassesAssumption, EmptySeq DEF FirstPass, BeginPass
<1>4. CASE NextPass
  BY <1>1, <1>4, MaxPassesAssumption, EmptySeq DEF NextPass, BeginPass
<1>5. CASE NoConvergence
  BY <1>1, <1>5 DEF NoConvergence, layoutVars
<1>6. CASE Converged
  BY <1>1, <1>6 DEF Converged
<1>7. CASE Finish
  BY <1>1, <1>7 DEF Finish, layoutVars
<1> QED BY <1>2, <1>3, <1>4, <1>5, <1>6, <1>7

LEMMA PlaceTypes ==
    ASSUME TypeInv, PlaceMinimum \/ Place
    PROVE  TypeInv'
<1>1. index <= Len_
  BY DEF PlaceMinimum, Place
<1>2. PICK size \in Nat : size = CompiledSize(Section, Offsets)
  BY <1>1, OffsetsType
<1>3. PICK least \in Nat : least = MinCompiledSize(Section)
  BY <1>1, OffsetsType
<1>4. /\ Offsets \in [Marks -> Nat] /\ [offset EXCEPT ![Section.id] = here] \in [Marks -> Nat]
      /\ index + 1 \in 1 .. Len_ + 1
  BY <1>1, OffsetsType
<1>5. CASE PlaceMinimum
  <2>1. here' = here + least /\ offset' \in [Marks -> Nat] /\ index' = index + 1
    BY <1>3, <1>4, <1>5 DEF PlaceMinimum, TypeInv, AssemblerTypeOK
  <2> QED BY <1>4, <1>5, <2>1, SMTT(20) DEF PlaceMinimum, TypeInv, AssemblerTypeOK, Len_, history
<1>6. CASE Place
  <2>1. Append(starts, here) \in Seq(Nat)
    BY DEF TypeInv, AssemblerTypeOK
  <2>2. here' \in Nat /\ offset' \in [Marks -> Nat] /\ starts' \in Seq(Nat)
        /\ index' \in 1 .. Len_ + 1 /\ phase' \in {"pass", "too_small"}
    <3>1. /\ index \in 1 .. Len_ + 1 /\ here \in Nat /\ starts \in Seq(Nat)
          /\ phase = "pass" /\ offset' = Offsets
      BY <1>6 DEF Place, TypeInv, AssemblerTypeOK
    <3>2. CASE TooSmall(Section, Offsets)
      BY <1>4, <1>6, <3>1, <3>2 DEF Place
    <3>3. CASE ~TooSmall(Section, Offsets)
      <4>1. here' = here + size /\ index' = index + 1 /\ starts' = Append(starts, here)
            /\ phase' = "pass"
        BY <1>2, <1>6, <3>1, <3>3 DEF Place
      <4> QED BY <1>4, <2>1, <3>1, <4>1
    <3> QED BY <3>2, <3>3
  <2>3. converged' \in BOOLEAN
    BY <1>6 DEF Place
  <2>4. stride' \in [Marks -> Int] /\ steady' \in BOOLEAN
    <3>1. /\ RecordMove /\ stride \in [Marks -> Int] /\ steady \in BOOLEAN
          /\ here \in Nat /\ offset \in [Marks -> Nat]
      BY <1>6 DEF Place, TypeInv, AssemblerTypeOK
    <3>2. CASE Section.kind = "mark"
      <4>1. Section.id \in Marks
        BY <1>1, <3>2, OffsetsType, KindIsType DEF MarkSections
      <4>2. here - offset[Section.id] \in Int
        BY <3>1, <4>1
      <4>3. /\ stride' = [stride EXCEPT ![Section.id] = here - offset[Section.id]]
            /\ steady' \in BOOLEAN
        BY <3>1, <3>2 DEF RecordMove
      <4> QED BY <3>1, <4>2, <4>3
    <3>3. CASE Section.kind # "mark"
      BY <3>1, <3>3 DEF RecordMove, history
    <3> QED BY <3>2, <3>3
  <2> QED BY <1>6, <2>2, <2>3, <2>4 DEF Place, TypeInv, AssemblerTypeOK, Phases, Failures, Len_
<1> QED BY <1>5, <1>6

LEMMA EmitTypes ==
    ASSUME TypeInv, EmitPlain \/ EmitReference
    PROVE  TypeInv'
<1>1. index <= Len_ /\ phase = "emit"
  BY DEF EmitPlain, EmitReference
<1>2. Section \in Sections /\ index + 1 \in 1 .. Len_ + 1
  BY <1>1, OffsetsType
<1>3. result' \in Seq(Bytes)
  <2>1. result \in Seq(Bytes)
    BY DEF TypeInv, AssemblerTypeOK
  <2>2. CASE EmitPlain
    <3>1. CASE Section.kind = "mark"
      BY <2>1, <2>2, <3>1 DEF EmitPlain
    <3>2. CASE Section.kind # "mark"
      <4>1. Section.kind \in {"ops", "data"} /\ Section \in ByteSections
        BY <1>2, <2>2, <3>2, KindIsType DEF EmitPlain
      <4>2. Section.start <= Section.end
        BY <1>1, <4>1, SectionType DEF TypeInv, AssemblerTypeOK
      <4>3. Section.start \in Nat /\ Section.end - Section.start \in Nat
        BY <4>1, <4>2 DEF ByteSections
      <4> DEFINE lits == [i \in 1 .. (Section.end - Section.start) |->
                            <<"literal", Section.start + i - 1>>]
      <4>4. lits \in Seq(Bytes)
        BY <4>3, LiteralsType
      <4>5. result' = result \o lits
        BY <2>2, <3>2 DEF EmitPlain
      <4> HIDE DEF lits
      <4> QED BY <2>1, <4>4, <4>5, ConcatProperties
    <3> QED BY <3>1, <3>2
  <2>3. CASE EmitReference
    <3>1. result' = result \/ result' = result \o Emitted(Section)
      BY <2>3 DEF EmitReference
    <3>2. Section \in References
      BY <1>2, <2>3, KindIsType DEF EmitReference
    <3>3. Emitted(Section) \in Seq(Bytes)
      BY <2>3, <3>2, EmittedType DEF EmitReference, TypeInv, AssemblerTypeOK
    <3> QED BY <2>1, <3>1, <3>3, ConcatProperties
  <2> QED BY <2>2, <2>3
<1>4. /\ index' \in 1 .. Len_ + 1 /\ phase' \in {"emit", "delta_underflow", "invalid_ref_size"}
      /\ UNCHANGED <<asm, here, offset, converged, passes, starts, stride, steady>>
  BY <1>1, <1>2 DEF history, EmitPlain, EmitReference, TypeInv, AssemblerTypeOK
<1> QED BY <1>3, <1>4 DEF TypeInv, AssemblerTypeOK, Phases, Failures, Len_

LEMMA TypeInit == AssemblerInit => TypeInv
<1> SUFFICES ASSUME AssemblerInit PROVE TypeInv
  OBVIOUS
<1>1. <<>> \in Seq(Sections) /\ <<>> \in Seq(Bytes) /\ <<>> \in Seq(Nat) /\ Len(<<>>) = 0
  BY EmptySeq
<1>2. asm = [sections |-> <<>>, bytes |-> 0]
  BY DEF AssemblerInit, EmptyAsm
<1>3. IsAsm(asm) /\ Len_ = 0
  BY <1>1, <1>2 DEF IsAsm, Len_
<1>4. offset \in [Marks -> Nat]
  BY DEF AssemblerInit
<1>5. phase = "push" /\ index = 1 /\ here = 0 /\ passes = 0 /\ converged \in BOOLEAN
  BY DEF AssemblerInit
<1>6. result \in Seq(Bytes) /\ starts \in Seq(Nat)
  BY <1>1 DEF AssemblerInit
<1>7. phase \in Phases /\ index \in 1 .. Len_ + 1 /\ here \in Nat /\ passes \in 0 .. MaxPasses
  BY <1>3, <1>5, MaxPassesAssumption DEF Phases
<1>8. stride \in [Marks -> Int] /\ steady \in BOOLEAN
  BY DEF AssemblerInit
<1> QED BY <1>3, <1>4, <1>5, <1>6, <1>7, <1>8 DEF TypeInv, AssemblerTypeOK

LEMMA TypeStep == TypeInv /\ [Next]_asmVars => TypeInv'
<1> SUFFICES ASSUME TypeInv, [Next]_asmVars PROVE TypeInv'
  OBVIOUS
<1>1. CASE Next
  BY <1>1, ClientTypes, AssembleTypes, PlaceTypes, EmitTypes
     DEF Next, ClientAssemble, LayoutStep
<1>2. CASE UNCHANGED asmVars
  BY <1>2 DEF asmVars, layoutVars, history, TypeInv, AssemblerTypeOK, Len_
<1> QED BY <1>1, <1>2

(* Whatever the client pushes, the assembler's state is well typed: spans  *)
(* of literals lie within `bytes`, and offsets are never negative.         *)
THEOREM AssemblerTypeCorrect == Spec => []AssemblerTypeOK
<1>1. TypeInv => AssemblerTypeOK
  BY DEF TypeInv
<1> QED BY <1>1, TypeInit, TypeStep, PTL DEF Spec

-----------------------------------------------------------------------------
(* The layout. *)

IInv == TypeInv /\ LayoutInv

LEMMA Facts ==
    ASSUME IInv
    PROVE  /\ asm.sections \in Seq(Sections) /\ Len_ \in Nat /\ index \in 1 .. Len_ + 1
           /\ here \in Nat /\ offset \in [Marks -> Nat]
           /\ starts \in Seq(Nat) /\ result \in Seq(Bytes)
BY DEF IInv, TypeInv, AssemblerTypeOK, IsAsm, Len_

(* A section is laid out behind those that already are. *)
LEMMA LayOutNext ==
    ASSUME IInv, phase = "pass", index <= Len_, NEW size \in Nat
    PROVE  /\ MarksAt(asm.sections, Append(starts, here), Offsets)
           /\ Sorted(Append(starts, here), here + size)
           /\ \A i \in 1 .. Len(starts) + 1 :
                 Pos(Append(starts, here), here + size, i) = Pos(starts, here, i)
           /\ Pos(Append(starts, here), here + size, Len(starts) + 2) = here + size
<1>0. PICK secs \in Seq(Sections), st \in Seq(Nat), h \in Nat,
           off \in [Marks -> Nat], off2 \in [Marks -> Nat] :
         secs = asm.sections /\ st = starts /\ h = here /\ off = offset /\ off2 = Offsets
  BY Facts, OffsetsType DEF IInv
<1> DEFINE n == Len(st)
           st2 == Append(st, h)
<1>8. n + 1 = index /\ n + 1 <= Len(secs)
  BY <1>0, Facts DEF IInv, LayoutInv, Len_
<1>9. WellFormed(secs) /\ MarksAt(secs, st, off) /\ Sorted(st, h)
  BY <1>0 DEF IInv, LayoutInv
<1>10. off2 = IF secs[n + 1].kind = "mark" THEN [off EXCEPT ![secs[n + 1].id] = h] ELSE off
  BY <1>0, <1>8 DEF Offsets, Section
<1>1. n \in Nat /\ st2 \in Seq(Nat) /\ Len(st2) = n + 1 /\ st2[n + 1] = h
      /\ \A i \in 1 .. n : st2[i] = st[i]
  OBVIOUS
<1> HIDE DEF st2
<1>2. \A i \in 1 .. n + 1 : Pos(st2, h + size, i) = Pos(st, h, i)
  <2> TAKE i \in 1 .. n + 1
  <2>1. CASE i = n + 1
    BY <1>1, <2>1 DEF Pos
  <2>2. CASE i # n + 1
    BY <1>1, <2>2 DEF Pos
  <2> QED BY <2>1, <2>2
<1>3. Pos(st2, h + size, n + 2) = h + size
  BY <1>1 DEF Pos
<1>4. Pos(st, h, n + 1) = h
  BY <1>1 DEF Pos
<1>5. \A i \in 1 .. n + 1 : Pos(st, h, i) \in Nat /\ Pos(st, h, i) <= h
  <2> TAKE i \in 1 .. n + 1
  <2>1. Pos(st, h, i) \in Nat
    BY <1>1 DEF Pos
  <2>2. Pos(st, h, i) <= Pos(st, h, n + 1)
    BY <1>1, <1>9 DEF Sorted
  <2> QED BY <2>1, <2>2, <1>4
<1>6. Sorted(st2, h + size)
  <2> SUFFICES ASSUME NEW i \in 1 .. n + 2, NEW j \in 1 .. n + 2, i <= j
               PROVE  Pos(st2, h + size, i) <= Pos(st2, h + size, j)
    BY <1>1 DEF Sorted
  <2>1. CASE j = n + 2 /\ i = n + 2
    BY <2>1, <1>3
  <2>2. CASE j = n + 2 /\ i # n + 2
    <3>1. i \in 1 .. n + 1
      BY <2>2, <1>1
    <3>2. Pos(st2, h + size, i) \in Nat /\ Pos(st2, h + size, i) <= h
      BY <3>1, <1>2, <1>5
    <3> QED BY <2>2, <3>2, <1>3
  <2>3. CASE j # n + 2
    <3>1. i \in 1 .. n + 1 /\ j \in 1 .. n + 1
      BY <2>3, <1>1
    <3>2. Pos(st, h, i) <= Pos(st, h, j)
      BY <3>1, <1>1, <1>9 DEF Sorted
    <3> QED BY <3>1, <3>2, <1>2
  <2> QED BY <2>1, <2>2, <2>3
<1>7. MarksAt(secs, st2, off2)
  <2> SUFFICES ASSUME NEW i \in 1 .. n + 1, secs[i].kind = "mark"
               PROVE  off2[secs[i].id] = st2[i]
    BY <1>1 DEF MarksAt
  <2>1. i \in 1 .. Len(secs) /\ n + 1 \in 1 .. Len(secs)
    BY <1>1, <1>8
  <2>2. secs[i].id \in Marks
    BY <2>1, KindIsType DEF MarkSections
  <2>6. ASSUME i # n + 1 PROVE off[secs[i].id] = st[i] /\ st2[i] = st[i]
    <3>1. i \in 1 .. Len(st)
      BY <2>6, <1>1
    <3>2. off[secs[i].id] = st[i]
      BY <1>9, <3>1 DEF MarksAt
    <3> QED BY <3>1, <3>2, <1>1
  <2>3. CASE i = n + 1
    BY <2>2, <2>3, <1>1, <1>10
  <2>4. CASE i # n + 1 /\ secs[n + 1].kind = "mark"
    <3>1. secs[i].id # secs[n + 1].id
      BY <1>9, <2>1, <2>4 DEF WellFormed
    <3>2. off2[secs[i].id] = off[secs[i].id]
      BY <1>10, <2>2, <2>4, <3>1
    <3> QED BY <2>4, <2>6, <3>2
  <2>5. CASE i # n + 1 /\ secs[n + 1].kind # "mark"
    <3>1. off2 = off
      BY <1>10, <2>5
    <3> QED BY <2>5, <2>6, <3>1
  <2> QED BY <2>3, <2>4, <2>5
<1> QED BY <1>0, <1>2, <1>3, <1>6, <1>7 DEF st2

(* A pass over a reference reads offsets in their final order. *)
LEMMA NoUnderflow ==
    ASSUME NEW secs \in Seq(Sections), WellFormed(secs),
           NEW st \in Seq(Nat), NEW h \in Nat, NEW off \in [Marks -> Nat],
           Len(st) = Len(secs), MarksAt(secs, st, off), Sorted(st, h),
           NEW r \in 1 .. Len(secs), secs[r].kind = "ref"
    PROVE  ~Underflows(secs[r], off)
<1>1. secs[r] \in References
  BY KindIsType
<1>2. off[secs[r].to] \in Nat
  BY <1>1 DEF References
<1>3. CASE secs[r].from = Nowhere
  BY <1>2, <1>3 DEF Underflows, Start
<1>4. CASE secs[r].from # Nowhere
  <2>1. PICK i \in 1 .. Len(secs), j \in 1 .. Len(secs) :
           i < j /\ PlacedAt(secs, secs[r].from, i) /\ PlacedAt(secs, secs[r].to, j)
    BY <1>4 DEF WellFormed, Precedes
  <2>2. off[secs[r].from] = st[i] /\ off[secs[r].to] = st[j]
    BY <2>1 DEF MarksAt, PlacedAt
  <2>3. Pos(st, h, i) <= Pos(st, h, j)
    BY <2>1, SMTT(30) DEF Sorted
  <2>4. st[i] <= st[j] /\ st[i] \in Nat /\ st[j] \in Nat
    BY <2>3 DEF Pos
  <2> QED BY <1>4, <2>2, <2>4 DEF Underflows, Start
<1> QED BY <1>3, <1>4

(* The emission of a section has the size the layout gave it. *)
LEMMA PlainSize ==
    ASSUME NEW s \in Sections, NEW off, s.kind # "ref"
    PROVE  CompiledSize(s, off) = IF s.kind = "mark" THEN 0 ELSE s.end - s.start
BY KindIsType DEF CompiledSize

LEMMA ClientLayout ==
    ASSUME IInv, ClientMark \/ ClientOp \/ ClientData \/ ClientReference
    PROVE  LayoutInv'
<1>1. phase = "push" /\ phase' = "push" /\ result' = result
  BY DEF ClientMark, ClientOp, ClientData, ClientReference, Client
<1> QED BY <1>1 DEF IInv, LayoutInv, EmissionDoesNotPanic

(* Outside passes and emission nothing is claimed of the layout. *)
LEMMA OtherLayout ==
    ASSUME IInv, ClientAssemble \/ PlaceMinimum \/ NoConvergence \/ Finish
    PROVE  LayoutInv'
<1>1. CASE ClientAssemble
  BY <1>1 DEF IInv, LayoutInv, EmissionDoesNotPanic, ClientAssemble, Assemble
<1>2. CASE PlaceMinimum
  BY <1>2 DEF IInv, LayoutInv, EmissionDoesNotPanic, PlaceMinimum
<1>3. CASE NoConvergence
  BY <1>3 DEF IInv, LayoutInv, EmissionDoesNotPanic, NoConvergence
<1>4. CASE Finish
  BY <1>4 DEF IInv, LayoutInv, EmissionDoesNotPanic, Finish, layoutVars, Len_
<1> QED BY <1>1, <1>2, <1>3, <1>4

LEMMA PassLayout ==
    ASSUME IInv, FirstPass \/ NextPass
    PROVE  LayoutInv'
<1>1. /\ phase \in {"minimum", "pass"} /\ phase' = "pass" /\ starts' = <<>> /\ here' = 0
      /\ index' = 1 /\ UNCHANGED <<asm, result>>
  BY DEF FirstPass, NextPass, BeginPass
<1>2. Len(<<>>) = 0
  OBVIOUS
<1>3. Pos(<<>>, 0, 1) = 0
  BY <1>2 DEF Pos
<1>4. Sorted(<<>>, 0)
  BY <1>2 DEF Pos, Sorted
<1>5. MarksAt(asm.sections, <<>>, offset') /\ Chained(asm.sections, <<>>, 0, offset')
  BY <1>2 DEF MarksAt, Chained
<1>6. result = <<>> /\ WellFormed(asm.sections)
  BY <1>1 DEF IInv, LayoutInv
<1> QED BY <1>1, <1>2, <1>3, <1>4, <1>5, <1>6 DEF LayoutInv, EmissionDoesNotPanic

LEMMA ConvergedLayout == ASSUME IInv, Converged PROVE LayoutInv'
<1>1. /\ phase = "pass" /\ index > Len_ /\ converged /\ phase' = "emit" /\ index' = 1
      /\ UNCHANGED <<asm, here, offset, converged, result, starts>>
  BY DEF Converged
<1>2. index = Len_ + 1 /\ Len(starts) = index - 1 /\ result = <<>> /\ Pos(starts, here, 1) = 0
  BY <1>1, Facts DEF IInv, LayoutInv
<1>3. Len(starts) = Len_ /\ Len(result) = 0
  BY <1>2, Facts
<1> QED BY <1>1, <1>2, <1>3 DEF IInv, LayoutInv, EmissionDoesNotPanic, Len_

LEMMA PlaceLayout == ASSUME IInv, Place PROVE LayoutInv'
<1> DEFINE secs == asm.sections
<1>1. /\ phase = "pass" /\ index <= Len_ /\ offset' = Offsets /\ UNCHANGED <<asm, result>>
      /\ converged' = (converged /\ ~Moved)
  BY DEF Place
<1>2. /\ WellFormed(secs) /\ result = <<>> /\ Len(starts) + 1 = index
      /\ Pos(starts, here, 1) = 0 /\ MarksAt(secs, starts, offset) /\ Sorted(starts, here)
      /\ converged => Chained(secs, starts, here, offset)
  BY <1>1, Facts DEF IInv, LayoutInv
<1>3. CASE TooSmall(Section, Offsets)
  BY <1>1, <1>2, <1>3 DEF Place, LayoutInv, EmissionDoesNotPanic
<1>4. CASE ~TooSmall(Section, Offsets)
  <2>1. PICK size \in Nat : size = CompiledSize(Section, Offsets)
    BY <1>1, OffsetsType DEF IInv
  <2>2. /\ here' = here + size /\ index' = index + 1 /\ starts' = Append(starts, here)
        /\ phase' = "pass"
    BY <1>1, <1>4, <2>1 DEF Place
  <2>3. offset' \in [Marks -> Nat] /\ Len(starts) + 1 <= Len(secs)
        /\ Section = secs[Len(starts) + 1]
    BY <1>1, <1>2, OffsetsType DEF IInv, Section, Len_
  <2>4. offset' = IF Section.kind = "mark" THEN [offset EXCEPT ![Section.id] = here] ELSE offset
    BY <1>1 DEF Offsets
  <2>5. /\ MarksAt(secs, starts', offset') /\ Sorted(starts', here')
        /\ \A i \in 1 .. Len(starts) + 1 : Pos(starts', here', i) = Pos(starts, here, i)
        /\ Pos(starts', here', Len(starts) + 2) = here'
    BY <1>1, <2>2, LayOutNext
  <2>6. Len(starts') = index /\ index \in Nat \ {0}
    BY <1>2, <2>2, Facts
  <2>7. Pos(starts', here', 1) = 0
    BY <1>2, <2>5, <2>6, Facts
  <2>8. ASSUME converged' PROVE Chained(secs, starts', here', offset')
    <3>1. converged /\ ~Moved
      BY <1>1, <2>8
    <3>2. offset' = offset
      BY <2>4, <3>1, Facts DEF Moved
    <3> SUFFICES ASSUME NEW i \in 1 .. index
                 PROVE /\ Pos(starts', here', i + 1)
                            = Pos(starts', here', i) + CompiledSize(secs[i], offset')
                       /\ ~TooSmall(secs[i], offset')
      BY <2>6 DEF Chained
    <3>3. CASE i = index
      <4>1. Pos(starts', here', i + 1) = here' /\ Pos(starts', here', i) = Pos(starts, here, i)
        BY <1>2, <2>5, <3>3, Facts
      <4>2. Pos(starts, here, i) = here
        BY <1>2, <3>3, Facts DEF Pos
      <4> QED BY <1>1, <1>4, <2>1, <2>2, <3>3, <4>1, <4>2 DEF Section
    <3>4. CASE i # index
      <4>1. i \in 1 .. Len(starts) /\ i \in 1 .. Len(starts) + 1 /\ i + 1 \in 1 .. Len(starts) + 1
        BY <1>2, <3>4, Facts
      <4>2. Pos(starts, here, i + 1) = Pos(starts, here, i) + CompiledSize(secs[i], offset)
            /\ ~TooSmall(secs[i], offset)
        BY <1>2, <3>1, <4>1 DEF Chained
      <4> QED BY <2>5, <3>2, <4>1, <4>2
    <3> QED BY <3>3, <3>4
  <2>9. phase' # "push" /\ phase' # "minimum" /\ phase' # "emit"
        /\ Len(starts') = index' - 1
    BY <2>2, <2>6
  <2> HIDE DEF secs
  <2>10. asm.sections' = secs
    BY <1>1 DEF secs
  <2> QED BY <1>1, <1>2, <2>2, <2>5, <2>7, <2>8, <2>9, <2>10 DEF LayoutInv, EmissionDoesNotPanic
<1> QED BY <1>3, <1>4

(* At the section being emitted, the layout is the one of the last pass. *)
LEMMA EmitFacts ==
    ASSUME IInv, phase = "emit", index <= Len_
    PROVE  /\ Section \in Sections /\ Section = asm.sections[index]
           /\ WellFormed(asm.sections) /\ Len(starts) = Len_ /\ converged
           /\ MarksAt(asm.sections, starts, offset) /\ Sorted(starts, here)
           /\ Chained(asm.sections, starts, here, offset)
           /\ Len(result) = Pos(starts, here, index)
           /\ index \in 1 .. Len_ /\ index \in 1 .. Len(starts)
           /\ Pos(starts, here, index + 1) = Len(result) + CompiledSize(Section, offset)
           /\ ~TooSmall(Section, offset)
<1>1. Section \in Sections /\ Section = asm.sections[index]
  BY OffsetsType DEF IInv, Section
<1>2. /\ WellFormed(asm.sections) /\ Len(starts) = Len_ /\ converged
      /\ MarksAt(asm.sections, starts, offset) /\ Sorted(starts, here)
      /\ Chained(asm.sections, starts, here, offset)
      /\ Len(result) = Pos(starts, here, index)
  BY DEF IInv, LayoutInv
<1>3. index \in 1 .. Len_ /\ index \in 1 .. Len(starts)
  BY <1>2, Facts
<1>4. Pos(starts, here, index + 1) = Len(result) + CompiledSize(Section, offset)
      /\ ~TooSmall(Section, offset)
  BY <1>1, <1>2, <1>3 DEF Chained
<1> QED BY <1>1, <1>2, <1>3, <1>4

EmissionOf(s) ==
    CASE s.kind = "mark" -> <<>>
      [] s.kind \in {"ops", "data"} ->
            [k \in 1 .. (s.end - s.start) |-> <<"literal", s.start + k - 1>>]
      [] s.kind = "ref" -> Emitted(s)

LEMMA EmissionType ==
    ASSUME NEW s \in Sections, s.kind \in {"ops", "data"} => s.start <= s.end,
           offset \in [Marks -> Nat]
    PROVE  /\ EmissionOf(s) \in Seq(Bytes)
           /\ Len(EmissionOf(s)) = CompiledSize(s, offset)
<1>1. CASE s.kind = "mark"
  <2>1. EmissionOf(s) = <<>> /\ CompiledSize(s, offset) = 0
    BY <1>1, PlainSize DEF EmissionOf
  <2>2. <<>> \in Seq(Bytes) /\ Len(<<>>) = 0
    BY EmptySeq
  <2> QED BY <2>1, <2>2
<1>2. CASE s.kind \in {"ops", "data"}
  <2>1. s \in ByteSections
    BY <1>2, KindIsType
  <2>2. s.start \in Nat /\ s.end - s.start \in Nat
    BY <1>2, <2>1 DEF ByteSections
  <2> DEFINE lits == [k \in 1 .. (s.end - s.start) |-> <<"literal", s.start + k - 1>>]
  <2>3. lits \in Seq(Bytes) /\ Len(lits) = s.end - s.start
    BY <2>2, LiteralsType
  <2>4. EmissionOf(s) = lits
    BY <1>2 DEF EmissionOf
  <2>5. CompiledSize(s, offset) = s.end - s.start
    BY <1>2, PlainSize
  <2> QED BY <2>3, <2>4, <2>5
<1>3. CASE s.kind = "ref"
  <2>1. s \in References /\ EmissionOf(s) = Emitted(s)
    BY <1>3, KindIsType DEF EmissionOf
  <2> QED BY <1>3, <2>1, EmittedType
<1> QED BY <1>1, <1>2, <1>3, KindIsType

LEMMA EmitAppends ==
    ASSUME IInv, EmitPlain \/ EmitReference
    PROVE  /\ phase = "emit" /\ index <= Len_ /\ phase' = "emit" /\ index' = index + 1
           /\ UNCHANGED <<asm, here, offset, converged, starts>>
           /\ result' = result \o EmissionOf(Section)
<1>1. phase = "emit" /\ index <= Len_
      /\ UNCHANGED <<asm, here, offset, converged, starts>>
  BY DEF EmitPlain, EmitReference
<1>2. CASE EmitPlain
  <2>1. phase' = "emit" /\ index' = index + 1
    BY <1>1, <1>2 DEF EmitPlain
  <2>2. CASE Section.kind = "mark"
    <3>1. EmissionOf(Section) = <<>> /\ result' = result
      BY <1>2, <2>2 DEF EmitPlain, EmissionOf
    <3>2. result \o <<>> = result
      BY Facts, ConcatEmptySeq
    <3> QED BY <1>1, <2>1, <3>1, <3>2
  <2>3. CASE Section.kind # "mark"
    <3>1. Section.kind \in {"ops", "data"}
      BY <1>1, <1>2, <2>3, EmitFacts, KindIsType DEF EmitPlain
    <3>2. result' = result \o EmissionOf(Section)
      BY <1>2, <2>3, <3>1 DEF EmitPlain, EmissionOf
    <3> QED BY <1>1, <2>1, <3>2
  <2> QED BY <2>2, <2>3
<1>3. CASE EmitReference
  <2>1. Section \in References /\ Section.kind = "ref"
    BY <1>1, <1>3, EmitFacts, KindIsType DEF EmitReference
  <2>2. ~Underflows(Section, offset)
    BY <1>1, <2>1, EmitFacts, Facts, NoUnderflow DEF Len_
  <2>3. result' = result \o Emitted(Section) /\ phase' = phase /\ index' = index + 1
    BY <1>1, <1>3, <2>2, EmitFacts DEF EmitReference
  <2>4. EmissionOf(Section) = Emitted(Section)
    BY <2>1 DEF EmissionOf
  <2> QED BY <1>1, <2>3, <2>4
<1> QED BY <1>2, <1>3

LEMMA EmitLayout == ASSUME IInv, EmitPlain \/ EmitReference PROVE LayoutInv'
<1>1. /\ phase = "emit" /\ index <= Len_ /\ phase' = "emit" /\ index' = index + 1
      /\ UNCHANGED <<asm, here, offset, converged, starts>>
      /\ result' = result \o EmissionOf(Section)
  BY EmitAppends
<1>2. EmissionOf(Section) \in Seq(Bytes) /\ Len(EmissionOf(Section)) = CompiledSize(Section, offset)
  <2>1. Section \in Sections /\ (Section.kind \in {"ops", "data"} => Section.start <= Section.end)
    BY <1>1, SectionType DEF IInv, TypeInv, AssemblerTypeOK
  <2> QED BY <2>1, Facts, EmissionType
<1>3. Len(result') = Len(result) + CompiledSize(Section, offset)
  BY <1>1, <1>2, Facts, ConcatProperties
<1>4. Len(result') = Pos(starts, here, index')
  BY <1>1, <1>3, EmitFacts
<1> QED BY <1>1, <1>4, EmitFacts DEF IInv, LayoutInv, EmissionDoesNotPanic, Len_

LEMMA LayoutInit == AssemblerInit => LayoutInv
BY DEF AssemblerInit, LayoutInv, EmissionDoesNotPanic

LEMMA LayoutStepInv == IInv /\ [Next]_asmVars => LayoutInv'
<1> SUFFICES ASSUME IInv, [Next]_asmVars PROVE LayoutInv'
  OBVIOUS
<1>1. CASE Next
  BY <1>1, ClientLayout, OtherLayout, PassLayout, ConvergedLayout, PlaceLayout, EmitLayout
     DEF Next, LayoutStep
<1>2. CASE UNCHANGED asmVars
  BY <1>2 DEF asmVars, layoutVars, IInv, LayoutInv, EmissionDoesNotPanic, Len_
<1> QED BY <1>1, <1>2

LEMMA Invariance == Spec => []IInv
<1>1. AssemblerInit => IInv
  BY TypeInit, LayoutInit DEF IInv
<1>2. IInv /\ [Next]_asmVars => IInv'
  BY TypeStep, LayoutStepInv DEF IInv
<1> QED BY <1>1, <1>2, PTL DEF Spec

(* Every mark is emitted at the offset that was settled for it, which is   *)
(* what the references that name it push.                                  *)
THEOREM MarksAreExact == Spec => []MarksLieAtTheirOffsets
<1>1. IInv => MarksLieAtTheirOffsets
  <2> SUFFICES ASSUME IInv, phase = "emit", index <= Len_, Section.kind = "mark"
               PROVE  Len(result) = offset[Section.id]
    BY DEF MarksLieAtTheirOffsets
  <2>1. offset[Section.id] = starts[index]
    BY EmitFacts DEF MarksAt
  <2>2. Pos(starts, here, index) = starts[index]
    BY EmitFacts DEF Pos
  <2> QED BY <2>1, <2>2, EmitFacts
<1> QED BY <1>1, Invariance, PTL

(* The two panics of the emission loop are unreachable: a layout that      *)
(* converged has no negative distance and no reference too small for it.   *)
THEOREM EmissionIsSafe == Spec => []EmissionDoesNotPanic
<1>1. IInv => EmissionDoesNotPanic
  BY DEF IInv, LayoutInv
<1> QED BY <1>1, Invariance, PTL

-----------------------------------------------------------------------------
(* How offsets grow.  What reference r encodes by one map of offsets is no  *)
(* more than what it encodes by another.                                   *)
MarkIndices(secs) == {i \in 1 .. Len(secs) : secs[i].kind = "mark"}

Follows(secs, off, at) == \A i \in MarkIndices(secs) : off[secs[i].id] = at[i]

Encodes(secs, r, i, j) ==
    i < j /\ secs[r].kind = "ref" /\ PlacedAt(secs, secs[r].from, i) /\ PlacedAt(secs, secs[r].to, j)

Wider(secs, r, o1, o2) ==
    /\ \A j \in MarkIndices(secs) : o1[secs[j].id] <= o2[secs[j].id] \/ secs[r].from # Nowhere
    /\ \A i, j \in MarkIndices(secs) : Encodes(secs, r, i, j) =>
          o1[secs[j].id] - o1[secs[i].id] <= o2[secs[j].id] - o2[secs[i].id]

LEMMA IntAt ==
    ASSUME NEW off \in [Marks -> Nat], NEW m \in Marks
    PROVE  off[m] \in Int
OBVIOUS

LEMMA AtMost ==
    ASSUME NEW x \in Nat, NEW y \in Nat, NEW z \in Nat, x <= y, y <= z
    PROVE  x <= z
OBVIOUS

(* The reference stands before, behind or inside the distance it encodes.  *)
LEMMA Standings ==
    ASSUME NEW secs \in Seq(Sections), NEW r \in 1 .. Len(secs),
           NEW i \in MarkIndices(secs), NEW j \in MarkIndices(secs), Encodes(secs, r, i, j)
    PROVE  j < r \/ r < i \/ Spans(secs, r, i, j)
<1>1. i # r /\ j # r /\ i \in 1 .. Len(secs) /\ j \in 1 .. Len(secs)
  BY DEF MarkIndices, Encodes
<1> QED BY <1>1 DEF Encodes, Spans

LEMMA MarkIds ==
    ASSUME NEW secs \in Seq(Sections), NEW i \in MarkIndices(secs)
    PROVE  secs[i].id \in Marks /\ i \in 1 .. Len(secs)
BY KindIsType DEF MarkIndices, MarkSections

LEMMA ValueGrows ==
    ASSUME NEW secs \in Seq(Sections), WellFormed(secs),
           NEW r \in 1 .. Len(secs), secs[r].kind = "ref",
           NEW o1 \in [Marks -> Nat], NEW o2 \in [Marks -> Nat], Wider(secs, r, o1, o2)
    PROVE  Value(secs[r], o1) <= Value(secs[r], o2)
<1> DEFINE ref == secs[r]
<1>1. ref \in References
  BY KindIsType
<1>2. PICK j \in MarkIndices(secs) : ref.to = secs[j].id
  BY DEF WellFormed, PlacedAt, MarkIndices
<1>3. o1[ref.to] \in Nat /\ o2[ref.to] \in Nat
  BY <1>1 DEF References
<1>4. CASE ref.from = Nowhere
  <2>1. o1[ref.to] <= o2[ref.to]
    BY <1>2, <1>4 DEF Wider
  <2> QED BY <1>3, <1>4, <2>1 DEF Value, Underflows, Start
<1>5. CASE ref.from # Nowhere
  <2>1. PICK i \in 1 .. Len(secs), k \in 1 .. Len(secs) :
           i < k /\ PlacedAt(secs, ref.from, i) /\ PlacedAt(secs, ref.to, k)
    BY <1>5 DEF WellFormed, Precedes
  <2>2. /\ i \in MarkIndices(secs) /\ k \in MarkIndices(secs)
        /\ secs[i].id = ref.from /\ secs[k].id = ref.to
    BY <2>1 DEF MarkIndices, PlacedAt
  <2>3. o1[ref.to] - o1[ref.from] <= o2[ref.to] - o2[ref.from]
    BY <2>1, <2>2 DEF Wider, Encodes
  <2>4. o1[ref.from] \in Nat /\ o2[ref.from] \in Nat
    BY <2>2, MarkIds
  <2> QED BY <1>3, <1>5, <2>3, <2>4, SMTT(30) DEF Value, Underflows, Start
<1> QED BY <1>4, <1>5

LEMMA BytesToHoldGrows ==
    ASSUME NEW v \in Nat, NEW w \in Nat, v <= w
    PROVE  BytesToHold(v) <= BytesToHold(w)
<1>1. PICK square \in Nat : square = Radix * Radix
  BY RadixAssumption
<1>2. PICK cube \in Nat : cube = square * Radix
  BY RadixAssumption
<1> QED BY <1>1, <1>2, RadixAssumption DEF BytesToHold

LEMMA SizeGrows ==
    ASSUME NEW ref \in References, ref.kind = "ref",
           NEW o1 \in [Marks -> Nat], NEW o2 \in [Marks -> Nat], Value(ref, o1) <= Value(ref, o2)
    PROVE  /\ CompiledSize(ref, o1) <= CompiledSize(ref, o2)
           /\ TooSmall(ref, o1) => TooSmall(ref, o2)
<1>1. PICK v \in Nat, w \in Nat : v = Value(ref, o1) /\ w = Value(ref, o2) /\ v <= w
  BY ReferenceTypes
<1>2. PICK b \in RefSize, c \in RefSize : b = BytesToHold(v) /\ c = BytesToHold(w) /\ b <= c
  BY <1>1, BytesToHoldType, BytesToHoldGrows
<1>3. ref.setSize \in {Unsized} \cup RefSize /\ ref.pushed \in BOOLEAN
  BY DEF References
<1>4. TooSmall(ref, o1) => TooSmall(ref, o2)
  BY <1>1, <1>2, <1>3 DEF TooSmall, RefSize, Unsized
<1>5. CASE ref.setSize # Unsized
  BY <1>3, <1>4, <1>5, ReferenceTypes DEF CompiledSize, ImmediateSize, IsPush0, RefSize, Unsized
<1>6. CASE ref.setSize = Unsized
  <2>1. /\ ImmediateSize(ref, o1) = b /\ ImmediateSize(ref, o2) = c
        /\ IsPush0(ref, o1) <=> ref.pushed /\ v = 0
        /\ IsPush0(ref, o2) <=> ref.pushed /\ w = 0
        /\ PushOpSize(ref) = IF ref.pushed THEN 1 ELSE 0
    BY <1>1, <1>2, <1>6 DEF ImmediateSize, IsPush0, PushOpSize
  <2>2. /\ CompiledSize(ref, o1) = IF IsPush0(ref, o1) THEN 1 ELSE b + PushOpSize(ref)
        /\ CompiledSize(ref, o2) = IF IsPush0(ref, o2) THEN 1 ELSE c + PushOpSize(ref)
    BY <2>1 DEF CompiledSize
  <2> QED BY <1>1, <1>2, <1>4, <2>1, <2>2 DEF RefSize
<1> QED BY <1>4, <1>5, <1>6

(* A section is at least as large as in the first walk; only a reference   *)
(* can be larger, by four bytes.                                           *)
LEMMA SizeBounds ==
    ASSUME NEW s \in Sections, NEW off \in [Marks -> Nat]
    PROVE  /\ MinCompiledSize(s) \in Int /\ CompiledSize(s, off) \in Int
           /\ MinCompiledSize(s) <= CompiledSize(s, off)
           /\ s.kind = "ref" => CompiledSize(s, off) <= MinCompiledSize(s) + 4
           /\ s.kind # "ref" => CompiledSize(s, off) = MinCompiledSize(s)
<1>1. CASE s.kind # "ref"
  <2>1. s.kind \in {"ops", "data"} => s.end - s.start \in Int
    BY KindIsType DEF ByteSections
  <2> QED BY <1>1, <2>1, KindIsType DEF CompiledSize, MinCompiledSize
<1>2. CASE s.kind = "ref"
  <2>1. s \in References
    BY <1>2, KindIsType
  <2>2. PICK imm \in 1 .. 4, op \in 0 .. 1 : imm = ImmediateSize(s, off) /\ op = PushOpSize(s)
    BY <2>1, ReferenceTypes DEF RefSize
  <2>3. CASE s.setSize # Unsized
    <3>1. imm = s.setSize
      BY <2>2, <2>3 DEF ImmediateSize
    <3>2. CompiledSize(s, off) = imm + op /\ MinCompiledSize(s) = imm + op
      BY <1>2, <2>2, <2>3, <3>1 DEF CompiledSize, MinCompiledSize, IsPush0
    <3> QED BY <1>2, <3>2
  <2>4. CASE s.setSize = Unsized
    <3>1. MinCompiledSize(s) = 1 /\ CompiledSize(s, off) \in {1, imm + op}
      BY <1>2, <2>2, <2>4 DEF CompiledSize, MinCompiledSize
    <3> QED BY <1>2, <3>1
  <2> QED BY <2>3, <2>4
<1> QED BY <1>1, <1>2

LEMMA SectionGrows ==
    ASSUME NEW secs \in Seq(Sections), WellFormed(secs),
           NEW r \in 1 .. Len(secs),
           NEW o1 \in [Marks -> Nat], NEW o2 \in [Marks -> Nat], Wider(secs, r, o1, o2)
    PROVE  /\ CompiledSize(secs[r], o1) <= CompiledSize(secs[r], o2)
           /\ TooSmall(secs[r], o1) => TooSmall(secs[r], o2)
<1>1. secs[r] \in Sections
  OBVIOUS
<1>2. CASE secs[r].kind # "ref"
  BY <1>1, <1>2, SizeBounds DEF TooSmall
<1>3. CASE secs[r].kind = "ref"
  BY <1>1, <1>3, KindIsType, ValueGrows, SizeGrows
<1> QED BY <1>2, <1>3

-----------------------------------------------------------------------------
(* The passes.  M holds the offsets of all sections in the first walk, P   *)
(* those of the pass before, C those of the sections walked in this one.   *)
Placements(secs) == [1 .. Len(secs) + 1 -> Nat]

RefsBefore(secs, n) == Cardinality({k \in 1 .. n - 1 : secs[k].kind = "ref"})

Ascends(at, n) == at[1] = 0 /\ \A i, j \in 1 .. n : i <= j => at[i] <= at[j]

Minimal(secs, M, n) ==
    /\ Ascends(M, n)
    /\ \A k \in 1 .. n - 1 : M[k + 1] = M[k] + MinCompiledSize(secs[k])

(* What reference r encoded by o is no more than what it would encode at P  *)
(* if the start of its span moved as it did before.                       *)
Settled(secs, r, o, P, old) ==
    /\ \A j \in MarkIndices(secs) : o[secs[j].id] <= P[j] \/ secs[r].from # Nowhere
    /\ \A i, j \in MarkIndices(secs) : Encodes(secs, r, i, j) =>
          o[secs[j].id] - o[secs[i].id]
             <= P[j] - P[i] - IF Spans(secs, r, i, j) THEN old[secs[i].id] ELSE 0

(* The first walk gave each section its least size, and in a later pass no *)
(* section was larger than its settled offsets ask for.  Each pass that    *)
(* did not converge has lengthened the code.                               *)
Previous(secs, M, P, old, n) ==
    /\ Minimal(secs, M, Len(secs) + 1)
    /\ Ascends(P, Len(secs) + 1)
    /\ n >= 1
    /\ \A r \in 1 .. Len(secs) :
          IF n = 1 THEN P[r + 1] = P[r] + MinCompiledSize(secs[r])
          ELSE \E o \in [Marks -> Nat] :
                  P[r + 1] - P[r] <= CompiledSize(secs[r], o) /\ Settled(secs, r, o, P, old)
    /\ n + M[Len(secs) + 1] <= P[Len(secs) + 1] + 1

(* Marks up to the n-th section have moved. *)
Mixed(secs, off, C, P, n) ==
    \A i \in MarkIndices(secs) : off[secs[i].id] = IF i <= n THEN C[i] ELSE P[i]

(* How far the marks up to the n-th section have moved. *)
Moving(secs, str, C, P, old, n) ==
    \A i \in MarkIndices(secs) : str[secs[i].id] = IF i <= n THEN C[i] - P[i] ELSE old[secs[i].id]

(* So far every section is at least as large as in the pass before, and    *)
(* at most four bytes for each reference larger than in the first walk;    *)
(* after the first pass the starts of spans have not sped up.              *)
Passing(secs, M, P, old, n, C, off, str, conv) ==
    /\ C[1] = 0
    /\ Mixed(secs, off, C, P, Len(C) - 1)
    /\ \A i, j \in 1 .. Len(C) : i <= j => P[j] - P[i] <= C[j] - C[i]
    /\ \A k \in 1 .. Len(C) - 1 : \E o \in [Marks -> Nat] :
          C[k + 1] = C[k] + CompiledSize(secs[k], o) /\ Mixed(secs, o, C, P, k)
    /\ ~conv => \E i \in 1 .. Len(C) - 1 : P[i] < C[i]
    /\ \A i \in 1 .. Len(C) : C[i] <= M[i] + 4 * RefsBefore(secs, i)
    /\ Moving(secs, str, C, P, old, Len(C) - 1)
    /\ n > 1 => \A i \in MarkIndices(secs) :
          i <= Len(C) - 1 /\ StartsSpan(secs, i) => C[i] - P[i] <= old[secs[i].id]

LEMMA RefCount ==
    ASSUME NEW secs, NEW n \in Nat \ {0}
    PROVE  /\ RefsBefore(secs, n) \in Nat
           /\ RefsBefore(secs, n + 1)
                 = RefsBefore(secs, n) + IF secs[n].kind = "ref" THEN 1 ELSE 0
<1> DEFINE S == {k \in 1 .. n - 1 : secs[k].kind = "ref"}
           T == {k \in 1 .. n + 1 - 1 : secs[k].kind = "ref"}
<1>1. IsFiniteSet(1 .. n - 1)
  BY FS_Interval
<1>2. IsFiniteSet(S)
  BY <1>1, FS_Subset
<1>3. Cardinality(S) \in Nat
  BY <1>2, FS_CardinalityType
<1>4. RefsBefore(secs, n) = Cardinality(S) /\ RefsBefore(secs, n + 1) = Cardinality(T)
  BY DEF RefsBefore
<1>5. secs[n].kind = "ref" => T = S \cup {n} /\ n \notin S
  OBVIOUS
<1>6. secs[n].kind # "ref" => T = S
  OBVIOUS
<1> HIDE DEF S, T
<1>7. CASE secs[n].kind = "ref"
  <2>1. Cardinality(T) = Cardinality(S) + 1
    BY <1>2, <1>5, <1>7, FS_AddElement
  <2> QED BY <1>3, <1>4, <1>7, <2>1
<1>8. CASE secs[n].kind # "ref"
  BY <1>3, <1>4, <1>6, <1>8
<1> QED BY <1>7, <1>8

LEMMA AllRefs ==
    ASSUME NEW secs, NEW n \in Nat
    PROVE  RefsBefore(secs, n + 1) = Cardinality({k \in 1 .. n : secs[k].kind = "ref"})
<1> DEFINE T == {k \in 1 .. n + 1 - 1 : secs[k].kind = "ref"}
<1>1. RefsBefore(secs, n + 1) = Cardinality(T)
  BY DEF RefsBefore
<1>2. T = {k \in 1 .. n : secs[k].kind = "ref"}
  OBVIOUS
<1> QED BY <1>1, <1>2

(* What the walk over section r does to the offsets, to `converged` and to *)
(* the history.                                                            *)
Walks(secs, r, h, off, off2, size, conv, conv2) ==
    /\ off2 = IF secs[r].kind = "mark" THEN [off EXCEPT ![secs[r].id] = h] ELSE off
    /\ size = CompiledSize(secs[r], off2)
    /\ conv2 <=> conv /\ ~(secs[r].kind = "mark" /\ off[secs[r].id] # h)

Records(secs, n, r, h, off, str, str2, steady2) ==
    IF secs[r].kind = "mark"
    THEN /\ str2 = [str EXCEPT ![secs[r].id] = h - off[secs[r].id]]
         /\ steady2 /\ n > 1 /\ StartsSpan(secs, r) => h - off[secs[r].id] <= str[secs[r].id]
    ELSE str2 = str

WalkStep(secs, M, P, old, n, C, r, off, off2, size, str, str2, conv, conv2, steady2) ==
    /\ secs \in Seq(Sections) /\ WellFormed(secs)
    /\ M \in Placements(secs) /\ P \in Placements(secs) /\ n \in Nat
    /\ old \in [Marks -> Int] /\ str \in [Marks -> Int]
    /\ C \in Seq(Nat) /\ r \in 1 .. Len(secs) /\ Len(C) = r
    /\ off \in [Marks -> Nat] /\ off2 \in [Marks -> Nat] /\ size \in Nat
    /\ Walks(secs, r, C[r], off, off2, size, conv, conv2)
    /\ Records(secs, n, r, C[r], off, str, str2, steady2)
    /\ Previous(secs, M, P, old, n) /\ Passing(secs, M, P, old, n, C, off, str, conv)

(* The walk over section r: it does not move a mark back.                  *)
LEMMA WalkGrows ==
    ASSUME NEW secs, NEW M, NEW P, NEW old, NEW n, NEW C, NEW r, NEW off, NEW off2, NEW size,
           NEW str, NEW str2, NEW conv, NEW conv2, NEW steady2,
           WalkStep(secs, M, P, old, n, C, r, off, off2, size, str, str2, conv, conv2, steady2)
    PROVE  /\ \A m \in Marks : off[m] <= off2[m]
           /\ steady2 => Passing(secs, M, P, old, n, Append(C, C[r] + size), off2, str2, conv2)
<1> SUFFICES ASSUME secs \in Seq(Sections), WellFormed(secs),
                    M \in Placements(secs), P \in Placements(secs), n \in Nat,
                    old \in [Marks -> Int], str \in [Marks -> Int],
                    C \in Seq(Nat), r \in 1 .. Len(secs), Len(C) = r,
                    off \in [Marks -> Nat], off2 \in [Marks -> Nat], size \in Nat,
                    Walks(secs, r, C[r], off, off2, size, conv, conv2),
                    Records(secs, n, r, C[r], off, str, str2, steady2),
                    Previous(secs, M, P, old, n),
                    Passing(secs, M, P, old, n, C, off, str, conv)
             PROVE  /\ \A m \in Marks : off[m] <= off2[m]
                    /\ steady2 => Passing(secs, M, P, old, n,
                                          Append(C, C[r] + size), off2, str2, conv2)
  BY Zenon DEF WalkStep
<1>1. PICK C2 \in Seq(Nat) :
         /\ C2 = Append(C, C[r] + size) /\ Len(C2) = r + 1 /\ C2[r + 1] = C[r] + size
         /\ \A i \in 1 .. r : C2[i] = C[i]
  <2>1. r \in 1 .. Len(C)
    OBVIOUS
  <2>2. C[r] \in Nat
    BY <2>1, ElementOfSeq
  <2>3. C[r] + size \in Nat
    BY <2>2
  <2>4. PICK x \in Nat : x = C[r] + size
    BY <2>3
  <2>5. /\ Append(C, x) \in Seq(Nat) /\ Len(Append(C, x)) = Len(C) + 1
        /\ \A i \in 1 .. Len(C) : Append(C, x)[i] = C[i]
        /\ Append(C, x)[Len(C) + 1] = x
    BY AppendProperties
  <2> QED BY <2>4, <2>5
<1>2. /\ \A i \in 1 .. r : C[i] \in Nat
      /\ \A i \in 1 .. Len(secs) + 1 : P[i] \in Nat /\ M[i] \in Nat
      /\ r \in Nat /\ r \in 1 .. r /\ r + 1 \in 1 .. Len(secs) + 1 /\ 1 \in 1 .. r
      /\ \A i \in 1 .. r : i \in 1 .. Len(secs) + 1
  <2>1. Len(secs) \in Nat
    OBVIOUS
  <2>2. \A i \in 1 .. r : C[i] \in Nat
    BY ElementOfSeq
  <2>3. r \in Nat /\ r \in 1 .. r /\ r + 1 \in 1 .. Len(secs) + 1 /\ 1 \in 1 .. r
        /\ \A i \in 1 .. r : i \in 1 .. Len(secs) + 1
    BY <2>1
  <2> QED BY <2>2, <2>3 DEF Placements
<1>3. \A i, j \in 1 .. r : i <= j => P[j] - P[i] <= C[j] - C[i]
  BY DEF Passing
<1>4. P[1] = 0 /\ C[1] = 0
  BY DEF Previous, Ascends, Passing
<1>5. \A i \in 1 .. r : P[i] <= C[i]
  <2> TAKE i \in 1 .. r
  <2>1. P[i] - P[1] <= C[i] - C[1]
    BY <1>3
  <2> QED BY <2>1, <1>2, <1>4
<1>6. Mixed(secs, off, C, P, r - 1)
  BY DEF Passing
<1>7. Mixed(secs, off2, C2, P, r)
  <2> SUFFICES ASSUME NEW i \in MarkIndices(secs)
               PROVE  off2[secs[i].id] = IF i <= r THEN C2[i] ELSE P[i]
    BY DEF Mixed
  <2>1. secs[i].id \in Marks /\ i \in 1 .. Len(secs) /\ secs[i].kind = "mark"
    BY MarkIds DEF MarkIndices
  <2>2. CASE i = r
    BY <1>1, <2>1, <2>2 DEF Walks
  <2>3. CASE i # r
    <3>1. off2[secs[i].id] = off[secs[i].id]
      BY <2>1, <2>3 DEF WellFormed, Walks
    <3>2. off[secs[i].id] = IF i <= r - 1 THEN C[i] ELSE P[i]
      BY <1>6 DEF Mixed
    <3> QED BY <1>1, <2>1, <2>3, <3>1, <3>2
  <2> QED BY <2>2, <2>3
<1>8. /\ \A i \in MarkIndices(secs) : off2[secs[i].id] = IF i <= r THEN C[i] ELSE P[i]
      /\ \A i \in MarkIndices(secs) : /\ i \in 1 .. Len(secs) + 1 /\ i \in Nat /\ P[i] \in Nat
                                      /\ i <= r => i \in 1 .. r /\ C[i] \in Nat
  <2>1. \A i \in 1 .. Len(secs) : i \in 1 .. Len(secs) + 1 /\ i \in Nat /\ (i <= r => i \in 1 .. r)
    OBVIOUS
  <2> QED BY <1>1, <1>2, <1>7, <2>1 DEF Mixed, MarkIndices
<1>9. ASSUME NEW o \in [Marks -> Nat], Settled(secs, r, o, P, old), n > 1
      PROVE  Wider(secs, r, o, off2)
  <2>1. ASSUME NEW j \in MarkIndices(secs), secs[r].from = Nowhere
        PROVE  o[secs[j].id] <= off2[secs[j].id]
    <3>1. o[secs[j].id] <= P[j] /\ o[secs[j].id] \in Nat
      BY <1>9, <2>1, MarkIds DEF Settled
    <3>2. P[j] <= off2[secs[j].id] /\ P[j] \in Nat /\ off2[secs[j].id] \in Nat
      BY <1>5, <1>8, MarkIds
    <3> QED BY <3>1, <3>2, AtMost, Zenon
  <2>2. ASSUME NEW i \in MarkIndices(secs), NEW j \in MarkIndices(secs), Encodes(secs, r, i, j)
        PROVE  o[secs[j].id] - o[secs[i].id] <= off2[secs[j].id] - off2[secs[i].id]
    <3>1. PICK a \in Int, b \in Int, x \in Int, y \in Int, p \in Int, q \in Int, w \in Int :
             /\ a = o[secs[i].id] /\ b = o[secs[j].id]
             /\ x = off2[secs[i].id] /\ y = off2[secs[j].id]
             /\ p = P[i] /\ q = P[j] /\ w = old[secs[i].id]
      <4>1. secs[i].id \in Marks /\ secs[j].id \in Marks
        BY MarkIds
      <4>2. o[secs[i].id] \in Int /\ o[secs[j].id] \in Int
        BY <4>1, IntAt, Zenon
      <4>3. off2[secs[i].id] \in Int /\ off2[secs[j].id] \in Int
        BY <4>1, IntAt, Zenon
      <4>4. P[i] \in Int /\ P[j] \in Int
        BY <1>8
      <4>5. old[secs[i].id] \in Int
        BY <4>1
      <4> USE <4>2, <4>3, <4>4, <4>5
      <4> WITNESS o[secs[i].id] \in Int, o[secs[j].id] \in Int,
                  off2[secs[i].id] \in Int, off2[secs[j].id] \in Int,
                  P[i] \in Int, P[j] \in Int, old[secs[i].id] \in Int
      <4> QED OBVIOUS
    <3>2. b - a <= q - p - IF Spans(secs, r, i, j) THEN w ELSE 0
      BY <1>9, <2>2, <3>1 DEF Settled
    <3>3. /\ i < j /\ i \in Nat /\ j \in Nat /\ r \in Nat
          /\ i \in 1 .. Len(secs) + 1 /\ j \in 1 .. Len(secs) + 1
      BY <1>2, <1>8, <2>2 DEF Encodes
    <3> SUFFICES b - a <= y - x
      BY <3>1
    <3>4. CASE j < r
      <4>1. i <= r /\ j <= r /\ ~Spans(secs, r, i, j) /\ i \in 1 .. r /\ j \in 1 .. r /\ i <= j
        BY <1>2, <3>3, <3>4 DEF Spans
      <4>2. x = C[i] /\ y = C[j]
        BY <1>8, <3>1, <4>1
      <4>3. q - p <= y - x
        BY <1>3, <3>1, <4>1, <4>2
      <4> QED BY <3>2, <4>1, <4>3
    <3>5. CASE r < i
      <4>1. ~(i <= r) /\ ~(j <= r) /\ ~Spans(secs, r, i, j)
        BY <3>3, <3>5 DEF Spans
      <4>2. x = p /\ y = q
        BY <1>8, <3>1, <4>1
      <4> QED BY <3>2, <4>1, <4>2
    <3>6. CASE Spans(secs, r, i, j)
      <4>1. i < r /\ r < j /\ j \in 1 .. Len(secs)
        BY <3>6, MarkIds DEF Spans
      <4>2. i <= r - 1 /\ i <= r /\ ~(j <= r)
        BY <3>3, <4>1
      <4>3. StartsSpan(secs, i)
        BY <3>6, <4>1 DEF StartsSpan
      <4>4. x = C[i] /\ y = q
        BY <1>8, <3>1, <4>2
      <4>5. x - p <= w
        <5>1. i <= Len(C) - 1
          BY <4>2
        <5>2. C[i] - P[i] <= old[secs[i].id]
          BY <1>9, <4>3, <5>1 DEF Passing
        <5> QED BY <3>1, <4>4, <5>2
      <4>6. b - a <= q - p - w /\ y = q
        BY <3>2, <3>6, <4>4
      <4> QED BY <4>5, <4>6
    <3> QED BY <2>2, <3>4, <3>5, <3>6, Standings
  <2> QED BY <2>1, <2>2 DEF Wider
<1>10. P[r + 1] - P[r] <= size
  <2>1. P[r] \in Nat /\ P[r + 1] \in Nat /\ size \in Nat /\ size = CompiledSize(secs[r], off2)
    BY <1>2 DEF Walks
  <2>2. CASE n = 1
    <3>1. P[r + 1] = P[r] + MinCompiledSize(secs[r])
      BY <2>2 DEF Previous
    <3>2. MinCompiledSize(secs[r]) \in Int /\ MinCompiledSize(secs[r]) <= size
      <4>1. secs[r] \in Sections
        BY ElementOfSeq
      <4> QED BY <2>1, <4>1, SizeBounds
    <3> QED BY <2>1, <3>1, <3>2
  <2>3. CASE n > 1
    <3>1. PICK o \in [Marks -> Nat] :
             P[r + 1] - P[r] <= CompiledSize(secs[r], o) /\ Settled(secs, r, o, P, old)
      BY <2>3 DEF Previous
    <3>2. CompiledSize(secs[r], o) <= size
      BY <1>9, <2>1, <2>3, <3>1, SectionGrows
    <3>3. CompiledSize(secs[r], o) \in Int
      BY SizeBounds
    <3> QED BY <2>1, <3>1, <3>2, <3>3
  <2> QED BY <2>2, <2>3 DEF Previous
<1>11. ASSUME NEW i \in 1 .. r + 1, NEW j \in 1 .. r + 1, i <= j
       PROVE  P[j] - P[i] <= C2[j] - C2[i]
  <2>1. CASE j <= r
    BY <1>1, <1>3, <1>11, <2>1
  <2>2. CASE j = r + 1 /\ i <= r
    <3>0. i \in 1 .. r
      BY <1>2, <2>2
    <3>1. P[r] - P[i] <= C[r] - C[i] /\ C2[i] = C[i]
      BY <1>1, <1>2, <1>3, <3>0, SMTT(30)
    <3>2. P[r] \in Nat /\ P[i] \in Nat /\ P[r + 1] \in Nat /\ C[r] \in Nat /\ C[i] \in Nat
      BY <1>2, <3>0
    <3>3. C2[j] = C[r] + size /\ P[j] = P[r + 1]
      BY <1>1, <2>2
    <3>4. PICK a \in Nat, b \in Nat, c \in Nat, d \in Nat, e \in Nat :
             a = P[r] /\ b = P[i] /\ c = P[r + 1] /\ d = C[r] /\ e = C[i]
      BY <3>2
    <3>5. a - b <= d - e /\ c - a <= size
      BY <1>10, <3>1, <3>4
    <3>6. c - b <= (d + size) - e
      BY <3>5
    <3> QED BY <3>1, <3>3, <3>4, <3>6
  <2>3. CASE j = r + 1 /\ i = r + 1
    <3>1. P[j] = P[i] /\ C2[j] = C2[i] /\ P[i] \in Nat /\ C2[i] \in Nat
      <4>1. P[r + 1] \in Nat /\ C[r] + size \in Nat
        BY <1>2
      <4> QED BY <1>1, <2>3, <4>1
    <3> QED BY <3>1, SMTT(30)
  <2> QED BY <1>11, <2>1, <2>2, <2>3
<1>12. ASSUME NEW k \in 1 .. r
       PROVE  \E p \in [Marks -> Nat] :
                 C2[k + 1] = C2[k] + CompiledSize(secs[k], p) /\ Mixed(secs, p, C2, P, k)
  <2>1. CASE k = r
    <3>1. C2[k + 1] = C2[k] + CompiledSize(secs[k], off2) /\ Mixed(secs, off2, C2, P, k)
      BY <1>1, <1>2, <1>7, <2>1 DEF Walks
    <3> QED BY <3>1
  <2>2. CASE k # r
    <3>0. k \in 1 .. r - 1 /\ k + 1 \in 1 .. r
      BY <1>2, <2>2
    <3>1. PICK p \in [Marks -> Nat] :
             C[k + 1] = C[k] + CompiledSize(secs[k], p) /\ Mixed(secs, p, C, P, k)
      BY <3>0 DEF Passing
    <3>2. Mixed(secs, p, C2, P, k)
      BY <1>1, <3>1, SMTT(30) DEF Mixed, MarkIndices
    <3>3. C2[k + 1] = C2[k] + CompiledSize(secs[k], p)
      BY <1>1, <3>0, <3>1
    <3> QED BY <3>2, <3>3
  <2> QED BY <2>1, <2>2
<1>13. ASSUME ~conv2 PROVE \E i \in 1 .. r : P[i] < C2[i]
  <2>1. CASE ~conv
    <3>1. PICK i \in 1 .. r - 1 : P[i] < C[i]
      BY <2>1 DEF Passing
    <3> QED BY <1>1, <3>1
  <2>2. CASE secs[r].kind = "mark" /\ off[secs[r].id] # C[r]
    <3>1. off[secs[r].id] = P[r]
      BY <1>6, <2>2 DEF Mixed, MarkIndices
    <3> QED BY <1>1, <1>2, <1>5, <2>2, <3>1
  <2> QED BY <1>13, <2>1, <2>2 DEF Walks
<1>14. ASSUME NEW i \in 1 .. r + 1 PROVE C2[i] <= M[i] + 4 * RefsBefore(secs, i)
  <2>1. CASE i <= r
    BY <1>1, <2>1 DEF Passing
  <2>2. CASE i = r + 1
    <3>1. C[r] <= M[r] + 4 * RefsBefore(secs, r)
      BY DEF Passing
    <3>2. M[r + 1] = M[r] + MinCompiledSize(secs[r])
      BY DEF Previous, Minimal
    <3>3. PICK refs \in Nat : refs = RefsBefore(secs, r)
                 /\ RefsBefore(secs, r + 1) = refs + IF secs[r].kind = "ref" THEN 1 ELSE 0
      <4>1. r \in Nat \ {0}
        BY <1>2
      <4> QED BY <4>1, RefCount
    <3>4. /\ MinCompiledSize(secs[r]) \in Int
          /\ size <= MinCompiledSize(secs[r]) + IF secs[r].kind = "ref" THEN 4 ELSE 0
      <4>1. secs[r] \in Sections /\ size = CompiledSize(secs[r], off2)
        BY DEF Walks
      <4> QED BY <4>1, SizeBounds, SMTT(30)
    <3>5. C[r] \in Nat /\ M[r] \in Nat
      BY <1>2
    <3>6. C2[i] = C[r] + size
      BY <1>1, <2>2
    <3>7. PICK c \in Nat, m \in Nat, least \in Int :
             c = C[r] /\ m = M[r] /\ least = MinCompiledSize(secs[r])
      BY <3>4, <3>5
    <3>8. c <= m + 4 * refs /\ C2[i] = c + size /\ M[i] = m + least
      BY <2>2, <3>1, <3>2, <3>3, <3>6, <3>7
    <3>9. CASE secs[r].kind = "ref"
      <4>1. RefsBefore(secs, i) = refs + 1 /\ size <= least + 4
        BY <2>2, <3>3, <3>4, <3>9, <3>7
      <4>2. c + size <= m + least + 4 * (refs + 1)
        BY <3>8, <4>1
      <4> QED BY <3>8, <4>1, <4>2
    <3>10. CASE secs[r].kind # "ref"
      <4>1. RefsBefore(secs, i) = refs /\ size <= least
        BY <2>2, <3>3, <3>4, <3>10, <3>7
      <4>2. c + size <= m + least + 4 * refs
        BY <3>8, <4>1
      <4> QED BY <3>8, <4>1, <4>2
    <3> QED BY <3>9, <3>10
  <2> QED BY <2>1, <2>2
<1>15. ASSUME NEW m \in Marks PROVE off[m] <= off2[m]
  <2>1. CASE secs[r].kind = "mark" /\ m = secs[r].id
    <3>1. off[m] = P[r] /\ off2[m] = C[r]
      BY <1>6, <2>1 DEF Mixed, MarkIndices, Walks
    <3> QED BY <1>5, <3>1
  <2>2. CASE ~(secs[r].kind = "mark" /\ m = secs[r].id)
    <3>1. off2[m] = off[m] /\ off[m] \in Nat
      BY <2>2 DEF Walks
    <3> QED BY <3>1
  <2> QED BY <2>1, <2>2
<1>16. /\ \A i \in MarkIndices(secs) : i # r /\ secs[r].kind = "mark" => secs[i].id # secs[r].id
       /\ r \in MarkIndices(secs) => off[secs[r].id] = P[r] /\ str[secs[r].id] = old[secs[r].id]
       /\ \A i \in MarkIndices(secs) : str[secs[i].id] = IF i <= r - 1 THEN C[i] - P[i]
                                                                       ELSE old[secs[i].id]
  <2>1. \A i \in MarkIndices(secs) : str[secs[i].id] = IF i <= r - 1 THEN C[i] - P[i]
                                                                    ELSE old[secs[i].id]
    BY DEF Passing, Moving
  <2> QED BY <1>2, <1>6, <2>1 DEF Mixed, WellFormed, MarkIndices
<1>17. Moving(secs, str2, C2, P, old, r)
  <2> SUFFICES ASSUME NEW i \in MarkIndices(secs)
               PROVE  str2[secs[i].id] = IF i <= r THEN C2[i] - P[i] ELSE old[secs[i].id]
    BY DEF Moving
  <2>1. secs[i].id \in Marks /\ i \in 1 .. Len(secs) /\ secs[i].kind = "mark"
    BY MarkIds DEF MarkIndices
  <2>2. CASE i = r
    <3>1. str2[secs[i].id] = C[r] - P[r]
      BY <1>16, <2>1, <2>2 DEF Records
    <3> QED BY <1>1, <1>2, <2>2, <3>1
  <2>3. CASE i # r
    <3>1. str2[secs[i].id] = str[secs[i].id]
      BY <1>16, <2>1, <2>3 DEF Records
    <3>2. str[secs[i].id] = IF i <= r - 1 THEN C[i] - P[i] ELSE old[secs[i].id]
      BY <1>16
    <3>3. (i <= r - 1 <=> i <= r) /\ (i <= r => C2[i] = C[i])
      BY <1>1, <1>2, <1>8, <2>3
    <3> QED BY <3>1, <3>2, <3>3
  <2> QED BY <2>2, <2>3
<1>18. ASSUME steady2, n > 1, NEW i \in MarkIndices(secs), i <= r, StartsSpan(secs, i)
       PROVE  C2[i] - P[i] <= old[secs[i].id]
  <2>1. i \in 1 .. r /\ C2[i] = C[i]
    BY <1>1, <1>8, <1>18
  <2>2. CASE i = r
    BY <1>16, <1>18, <2>1, <2>2 DEF Records, MarkIndices
  <2>3. CASE i # r
    <3>1. i <= r - 1
      BY <2>1, <2>3
    <3> QED BY <1>18, <2>1, <3>1 DEF Passing
  <2> QED BY <2>2, <2>3
<1>19. ASSUME steady2 PROVE Passing(secs, M, P, old, n, C2, off2, str2, conv2)
  <2>1. C2[1] = 0 /\ Len(C2) - 1 = r
    BY <1>1, <1>4
  <2> QED BY <1>1, <1>7, <1>11, <1>12, <1>13, <1>14, <1>17, <1>18, <1>19, <2>1 DEF Passing
<1> QED BY <1>1, <1>15, <1>19

LEMMA PlacementsAreNat ==
    ASSUME NEW secs \in Seq(Sections), NEW P \in Placements(secs)
    PROVE  /\ Len(secs) \in Nat /\ Len(secs) + 1 \in 1 .. Len(secs) + 1 /\ 1 \in 1 .. Len(secs) + 1
           /\ \A i \in 1 .. Len(secs) + 1 : P[i] \in Nat
           /\ \A i \in MarkIndices(secs) : i \in Nat /\ i \in 1 .. Len(secs) /\ i \in 1 .. Len(secs) + 1
<1>1. Len(secs) \in Nat
  OBVIOUS
<1> QED BY <1>1 DEF Placements, MarkIndices

(* A walk begins: nothing is laid out yet. *)
LEMMA WalkBegins ==
    ASSUME NEW secs \in Seq(Sections), NEW M \in Placements(secs), NEW P \in Placements(secs),
           NEW off \in [Marks -> Nat], Ascends(P, Len(secs) + 1), Follows(secs, off, P),
           NEW str \in [Marks -> Int], NEW n
    PROVE  Passing(secs, M, P, str, n, <<0>>, off, str, TRUE)
<1>1. Len(<<0>>) = 1 /\ <<0>>[1] = 0
  OBVIOUS
<1>2. /\ Mixed(secs, off, <<0>>, P, 0) /\ Moving(secs, str, <<0>>, P, str, 0)
      /\ \A i \in MarkIndices(secs) : ~(i <= 0)
  <2>1. \A i \in MarkIndices(secs) : ~(i <= 0)
    BY PlacementsAreNat
  <2> QED BY <2>1 DEF Mixed, Moving, Follows
<1>3. P[1] \in Nat /\ M[1] \in Nat
  BY PlacementsAreNat
<1>4. RefsBefore(secs, 1) \in Nat
  BY RefCount
<1>5. M[1] + 4 * RefsBefore(secs, 1) \in Nat
  BY <1>3, <1>4
<1>6. \A i, j \in 1 .. 1 : i <= j => P[j] - P[i] <= <<0>>[j] - <<0>>[i]
  BY <1>1, <1>3
<1>7. \A i \in 1 .. 1 : <<0>>[i] <= M[i] + 4 * RefsBefore(secs, i)
  BY <1>1, <1>5
<1> QED BY <1>1, <1>2, <1>6, <1>7 DEF Passing

LEMMA FirstPassBegins ==
    ASSUME NEW secs \in Seq(Sections), NEW M \in Placements(secs),
           Minimal(secs, M, Len(secs) + 1), NEW old
    PROVE  Previous(secs, M, M, old, 1)
<1>1. Ascends(M, Len(secs) + 1)
  BY DEF Minimal
<1>2. ASSUME NEW r \in 1 .. Len(secs) PROVE M[r + 1] = M[r] + MinCompiledSize(secs[r])
  BY DEF Minimal
<1>3. 1 + M[Len(secs) + 1] <= M[Len(secs) + 1] + 1
  BY PlacementsAreNat
<1> QED BY <1>1, <1>2, <1>3 DEF Previous

(* What a complete walk leaves behind. *)
LEMMA WalkEnds ==
    ASSUME NEW secs \in Seq(Sections), NEW M \in Placements(secs), NEW P \in Placements(secs),
           NEW n \in Nat, NEW C \in Seq(Nat), Len(C) = Len(secs) + 1,
           NEW off \in [Marks -> Nat], NEW conv \in BOOLEAN, NEW old, NEW str,
           Previous(secs, M, P, old, n), Passing(secs, M, P, old, n, C, off, str, conv)
    PROVE  /\ C \in Placements(secs) /\ Ascends(C, Len(secs) + 1) /\ Follows(secs, off, C)
           /\ \A i \in 1 .. Len(secs) + 1 : P[i] <= C[i]
           /\ ~conv => n + M[Len(secs) + 1] + 1 <= C[Len(secs) + 1] + 1
<1>0. PICK last \in Nat : last = Len(secs) + 1 /\ last \in 1 .. last /\ 1 \in 1 .. last
  BY PlacementsAreNat
<1>1. C \in Placements(secs) /\ \A i \in 1 .. last : C[i] \in Nat
  <2>1. C \in [1 .. Len(C) -> Nat]
    BY LenProperties
  <2> QED BY <1>0, <2>1 DEF Placements
<1>2. \A i, j \in 1 .. last : i <= j => P[j] - P[i] <= C[j] - C[i]
  BY <1>0 DEF Passing
<1>3. P[1] = 0 /\ C[1] = 0 /\ \A i, j \in 1 .. last : i <= j => P[i] <= P[j]
  BY <1>0 DEF Previous, Ascends, Passing
<1>4. \A i \in 1 .. last : P[i] \in Nat /\ M[i] \in Nat
  BY <1>0, PlacementsAreNat
<1>5. Ascends(C, last)
  <2> SUFFICES ASSUME NEW i \in 1 .. last, NEW j \in 1 .. last, i <= j PROVE C[i] <= C[j]
    BY <1>3 DEF Ascends
  <2>1. P[j] - P[i] <= C[j] - C[i] /\ P[i] <= P[j]
    BY <1>2, <1>3
  <2>2. P[i] \in Nat /\ P[j] \in Nat /\ C[i] \in Nat /\ C[j] \in Nat
    BY <1>1, <1>4
  <2> QED BY <2>1, <2>2, SMTT(30)
<1>6. ASSUME NEW i \in 1 .. last PROVE P[i] <= C[i]
  <2>1. P[i] - P[1] <= C[i] - C[1]
    BY <1>0, <1>2
  <2> QED BY <2>1, <1>1, <1>3, <1>4
<1>7. Follows(secs, off, C)
  <2>1. Len(C) - 1 = Len(secs) /\ Mixed(secs, off, C, P, Len(C) - 1)
    BY PlacementsAreNat DEF Passing
  <2>2. \A i \in MarkIndices(secs) : i <= Len(secs)
    BY PlacementsAreNat
  <2> QED BY <2>1, <2>2 DEF Follows, Mixed
<1>8. ASSUME ~conv PROVE n + M[last] + 1 <= C[last] + 1
  <2>1. PICK i \in 1 .. last : P[i] < C[i]
    <3>1. PICK i \in 1 .. Len(C) - 1 : P[i] < C[i]
      BY <1>8 DEF Passing
    <3> QED BY <1>0, <3>1
  <2>2. P[last] - P[i] <= C[last] - C[i]
    BY <1>0, <1>2
  <2>3. n + M[last] <= P[last] + 1
    BY <1>0 DEF Previous
  <2>4. P[i] \in Nat /\ C[i] \in Nat /\ P[last] \in Nat /\ C[last] \in Nat /\ M[last] \in Nat
    BY <1>0, <1>1, <1>4
  <2>5. PICK a \in Nat, b \in Nat, c \in Nat, d \in Nat, m \in Nat :
           a = P[i] /\ b = C[i] /\ c = P[last] /\ d = C[last] /\ m = M[last]
    BY <2>4
  <2>6. a < b /\ c - a <= d - b /\ n + m <= c + 1
    BY <2>1, <2>2, <2>3, <2>5
  <2>7. n + m + 1 <= d + 1
    BY <2>6
  <2> QED BY <2>5, <2>7
<1> QED BY <1>0, <1>1, <1>5, <1>6, <1>7, <1>8

LEMMA NextPassBegins ==
    ASSUME NEW secs \in Seq(Sections), WellFormed(secs),
           NEW M \in Placements(secs), NEW P \in Placements(secs),
           NEW n \in Nat, NEW C \in Seq(Nat), Len(C) = Len(secs) + 1,
           NEW off \in [Marks -> Nat], NEW old, NEW str,
           Previous(secs, M, P, old, n), Passing(secs, M, P, old, n, C, off, str, FALSE)
    PROVE  Previous(secs, M, C, str, n + 1)
<1>1. /\ C \in Placements(secs) /\ Ascends(C, Len(secs) + 1)
      /\ \A i \in 1 .. Len(secs) + 1 : P[i] <= C[i]
      /\ n + M[Len(secs) + 1] + 1 <= C[Len(secs) + 1] + 1
  BY WalkEnds
<1>2. n + 1 + M[Len(secs) + 1] <= C[Len(secs) + 1] + 1
  <2>1. M[Len(secs) + 1] \in Nat
    BY PlacementsAreNat
  <2> QED BY <1>1, <2>1
<1>3. ASSUME NEW r \in 1 .. Len(secs)
      PROVE  \E o \in [Marks -> Nat] :
                C[r + 1] - C[r] <= CompiledSize(secs[r], o) /\ Settled(secs, r, o, C, str)
  <2>1. r \in 1 .. Len(C) - 1 /\ r \in 1 .. Len(secs) + 1 /\ r \in Nat
    BY PlacementsAreNat
  <2>2. PICK o \in [Marks -> Nat] :
           C[r + 1] = C[r] + CompiledSize(secs[r], o) /\ Mixed(secs, o, C, P, r)
    BY <2>1 DEF Passing
  <2>3. \A i \in MarkIndices(secs) : /\ o[secs[i].id] = IF i <= r THEN C[i] ELSE P[i]
                                     /\ str[secs[i].id] = C[i] - P[i]
                                     /\ i \in Nat /\ i \in 1 .. Len(secs) + 1 /\ P[i] <= C[i]
                                     /\ P[i] \in Nat /\ C[i] \in Nat
    <3>1. \A i \in MarkIndices(secs) : i <= Len(C) - 1
      BY PlacementsAreNat
    <3>2. \A i \in MarkIndices(secs) : str[secs[i].id] = C[i] - P[i]
      BY <3>1 DEF Passing, Moving
    <3> QED BY <1>1, <2>2, <3>2, PlacementsAreNat DEF Mixed
  <2>4. ASSUME NEW j \in MarkIndices(secs) PROVE o[secs[j].id] <= C[j]
    BY <2>3
  <2>5. ASSUME NEW i \in MarkIndices(secs), NEW j \in MarkIndices(secs), Encodes(secs, r, i, j)
        PROVE  o[secs[j].id] - o[secs[i].id]
                  <= C[j] - C[i] - IF Spans(secs, r, i, j) THEN str[secs[i].id] ELSE 0
    <3>1. /\ i <= j /\ i < j /\ i \in Nat /\ j \in Nat
          /\ i \in 1 .. Len(C) /\ j \in 1 .. Len(C)
      BY <2>3, <2>5 DEF Encodes
    <3>2. PICK a \in Int, b \in Int, x \in Int, y \in Int, p \in Int, q \in Int, w \in Int :
             /\ a = o[secs[i].id] /\ b = o[secs[j].id]
             /\ x = C[i] /\ y = C[j] /\ p = P[i] /\ q = P[j] /\ w = str[secs[i].id]
      <4>1. secs[i].id \in Marks /\ secs[j].id \in Marks
        BY MarkIds
      <4>2. o[secs[i].id] \in Int /\ o[secs[j].id] \in Int
        BY <4>1, IntAt, Zenon
      <4>3. C[i] \in Int /\ C[j] \in Int /\ P[i] \in Int /\ P[j] \in Int
        BY <2>3
      <4>4. str[secs[i].id] \in Int
        <5>1. str[secs[i].id] = C[i] - P[i] /\ C[i] \in Nat /\ P[i] \in Nat
          BY <2>3
        <5> QED BY <5>1
      <4> USE <4>2, <4>3, <4>4
      <4> WITNESS o[secs[i].id] \in Int, o[secs[j].id] \in Int, C[i] \in Int, C[j] \in Int,
                  P[i] \in Int, P[j] \in Int, str[secs[i].id] \in Int
      <4> QED OBVIOUS
    <3>3. q - p <= y - x /\ w = x - p
      BY <2>3, <3>1, <3>2 DEF Passing
    <3> SUFFICES b - a <= y - x - IF Spans(secs, r, i, j) THEN w ELSE 0
      BY <3>2
    <3>4. CASE j < r
      <4>1. i <= r /\ j <= r /\ ~Spans(secs, r, i, j)
        BY <2>1, <3>1, <3>4 DEF Spans
      <4>2. a = x /\ b = y
        BY <2>3, <3>2, <4>1
      <4> QED BY <4>1, <4>2
    <3>5. CASE r < i
      <4>1. ~(i <= r) /\ ~(j <= r) /\ ~Spans(secs, r, i, j)
        BY <2>1, <3>1, <3>5 DEF Spans
      <4>2. a = p /\ b = q
        BY <2>3, <3>2, <4>1
      <4> QED BY <3>3, <4>1, <4>2
    <3>6. CASE Spans(secs, r, i, j)
      <4>1. i <= r /\ ~(j <= r)
        BY <2>1, <3>1, <3>6 DEF Spans
      <4>2. a = x /\ b = q
        BY <2>3, <3>2, <4>1
      <4> QED BY <3>3, <3>6, <4>2
    <3> QED BY <2>5, <3>4, <3>5, <3>6, Standings
  <2>6. Settled(secs, r, o, C, str)
    BY <2>4, <2>5 DEF Settled
  <2>7. C[r] \in Nat /\ CompiledSize(secs[r], o) \in Int
    <3>1. C[r] \in Nat
      BY <1>1, <2>1, PlacementsAreNat
    <3>2. secs[r] \in Sections
      BY ElementOfSeq
    <3>3. PICK s \in Sections : s = secs[r]
      BY <3>2
    <3>4. CompiledSize(s, o) \in Int
      BY SizeBounds
    <3> QED BY <3>1, <3>3, <3>4
  <2>8. C[r + 1] - C[r] <= CompiledSize(secs[r], o)
    <3>1. PICK a \in Nat, s \in Int : a = C[r] /\ s = CompiledSize(secs[r], o)
      BY <2>7
    <3>2. C[r + 1] = a + s
      BY <2>2, <3>1
    <3> QED BY <3>1, <3>2
  <2> QED BY <2>6, <2>8, Zenon
<1>4. Minimal(secs, M, Len(secs) + 1) /\ n + 1 >= 1 /\ n + 1 # 1
  BY DEF Previous
<1> QED BY <1>1, <1>2, <1>3, <1>4 DEF Previous

(* Each pass that does not converge lengthens the code, and each reference *)
(* lengthens it by no more than four bytes.                                *)
LEMMA PassesAreFew ==
    ASSUME NEW secs \in Seq(Sections), NEW M \in Placements(secs), NEW P \in Placements(secs),
           NEW n \in Nat, NEW C \in Seq(Nat), Len(C) = Len(secs) + 1,
           NEW off \in [Marks -> Nat], NEW old, NEW str,
           Previous(secs, M, P, old, n), Passing(secs, M, P, old, n, C, off, str, FALSE)
    PROVE  n <= 4 * RefsBefore(secs, Len(secs) + 1)
<1>1. PICK last \in Nat \ {0} : last = Len(secs) + 1
  BY PlacementsAreNat
<1>2. n + M[last] + 1 <= C[last] + 1
  BY <1>1, WalkEnds
<1>3. PICK refs \in Nat : refs = RefsBefore(secs, last)
  BY <1>1, RefCount
<1>4. C[last] <= M[last] + 4 * refs
  <2>1. \A i \in 1 .. Len(C) : C[i] <= M[i] + 4 * RefsBefore(secs, i)
    BY DEF Passing
  <2>2. last \in 1 .. Len(C)
    BY <1>1
  <2> QED BY <1>3, <2>1, <2>2
<1>5. PICK c \in Nat, m \in Nat : c = C[last] /\ m = M[last]
  <2>1. C \in Placements(secs)
    BY WalkEnds
  <2>2. last \in 1 .. Len(secs) + 1
    BY <1>1
  <2> QED BY <2>1, <2>2, PlacementsAreNat
<1> QED BY <1>1, <1>2, <1>3, <1>4, <1>5, SMTT(30)

LEMMA FirstWalkGrows ==
    ASSUME NEW secs \in Seq(Sections), NEW M \in Placements(secs), NEW r \in 1 .. Len(secs),
           Minimal(secs, M, r), NEW least \in Nat, least = MinCompiledSize(secs[r])
    PROVE  \E N \in Placements(secs) :
              /\ Minimal(secs, N, r + 1) /\ N[r + 1] = M[r] + least
              /\ \A i \in 1 .. r : N[i] = M[i]
<1>1. /\ \A i \in 1 .. Len(secs) + 1 : M[i] \in Nat
      /\ r \in Nat /\ r \in 1 .. r /\ 1 \in 1 .. r /\ r + 1 \in 1 .. Len(secs) + 1
      /\ \A i \in 1 .. r : i \in 1 .. Len(secs) + 1 /\ i # r + 1
  <2>1. Len(secs) \in Nat
    OBVIOUS
  <2>2. /\ r \in Nat /\ r \in 1 .. r /\ 1 \in 1 .. r /\ r + 1 \in 1 .. Len(secs) + 1
        /\ \A i \in 1 .. r : i \in 1 .. Len(secs) + 1 /\ i # r + 1
    BY <2>1
  <2> QED BY <2>2, PlacementsAreNat
<1>2. M[r] \in Nat /\ M[r] + least \in Nat
  BY <1>1
<1>3. PICK N \in Placements(secs) :
         N[r + 1] = M[r] + least /\ \A i \in 1 .. Len(secs) + 1 : i # r + 1 => N[i] = M[i]
  <2> DEFINE N == [M EXCEPT ![r + 1] = M[r] + least]
  <2>1. /\ N \in Placements(secs) /\ N[r + 1] = M[r] + least
        /\ \A i \in 1 .. Len(secs) + 1 : i # r + 1 => N[i] = M[i]
    BY <1>1, <1>2 DEF Placements
  <2> QED BY <2>1
<1>4. \A i \in 1 .. r : N[i] = M[i] /\ M[i] \in Nat
  BY <1>1, <1>3
<1>5. M[1] = 0 /\ (\A i, j \in 1 .. r : i <= j => M[i] <= M[j])
      /\ \A k \in 1 .. r - 1 : M[k + 1] = M[k] + MinCompiledSize(secs[k])
  BY DEF Minimal, Ascends
<1>6. Ascends(N, r + 1)
  <2>1. N[1] = 0
    BY <1>1, <1>4, <1>5
  <2>2. ASSUME NEW i \in 1 .. r + 1, NEW j \in 1 .. r + 1, i <= j PROVE N[i] <= N[j]
    <3>1. CASE j <= r
      <4>1. i \in 1 .. r /\ j \in 1 .. r
        BY <1>1, <2>2, <3>1
      <4> QED BY <1>4, <1>5, <2>2, <4>1
    <3>2. CASE j = r + 1 /\ i <= r
      <4>1. i \in 1 .. r /\ i <= r
        BY <1>1, <3>2
      <4>2. M[i] <= M[r] /\ N[i] = M[i] /\ M[i] \in Nat
        BY <1>1, <1>4, <1>5, <4>1
      <4> QED BY <1>2, <1>3, <3>2, <4>2
    <3>3. CASE i = r + 1 /\ j = r + 1
      BY <1>2, <1>3, <3>3
    <3> QED BY <1>1, <2>2, <3>1, <3>2, <3>3
  <2> QED BY <2>1, <2>2 DEF Ascends
<1>7. ASSUME NEW k \in 1 .. r PROVE N[k + 1] = N[k] + MinCompiledSize(secs[k])
  <2>1. CASE k = r
    BY <1>1, <1>3, <1>4, <2>1
  <2>2. CASE k # r
    <3>1. k \in 1 .. r - 1 /\ k + 1 \in 1 .. r
      BY <1>1, <2>2
    <3> QED BY <1>4, <1>5, <3>1
  <2> QED BY <2>1, <2>2
<1>8. Minimal(secs, N, r + 1)
  <2>1. r + 1 - 1 = r
    BY <1>1
  <2> QED BY <1>6, <1>7, <2>1 DEF Minimal
<1> QED BY <1>3, <1>4, <1>8

-----------------------------------------------------------------------------
(* A contract can be seen to be steady before it is assembled.  No pass    *)
(* lays a mark out below its least offset M, or more than four bytes for   *)
(* each reference before it above.                                         *)
Within(secs, M, off) ==
    \A i \in MarkIndices(secs) :
        M[i] <= off[secs[i].id] /\ off[secs[i].id] <= M[i] + 4 * RefsBefore(secs, i)

(* No section before the n-th can change its size between two passes. *)
Still(secs, M, n) ==
    \A r \in 1 .. n - 1 : \A o1, o2 \in [Marks -> Nat] :
        Within(secs, M, o1) /\ Within(secs, M, o2)
            => CompiledSize(secs[r], o1) = CompiledSize(secs[r], o2)

(* So it is, in particular, if no byte boundary lies in the range of any   *)
(* reference pushed before the start of a span.                            *)
Calm(secs) ==
    \A M \in Placements(secs), i \in MarkIndices(secs) :
        Minimal(secs, M, Len(secs) + 1) /\ StartsSpan(secs, i) => Still(secs, M, i)

(* What the pass before, at P, has left to see that. *)
Bounded(secs, M, P, old, n) ==
    /\ \A i \in 1 .. Len(secs) + 1 : M[i] <= P[i] /\ P[i] <= M[i] + 4 * RefsBefore(secs, i)
    /\ n > 1 =>
          /\ \A i \in MarkIndices(secs) : 0 <= old[secs[i].id]
          /\ \A r \in 1 .. Len(secs) : \E o \in [Marks -> Nat] :
                Within(secs, M, o) /\ P[r + 1] = P[r] + CompiledSize(secs[r], o)

(* What lies behind sections that cannot change does not move again. *)
Kept(secs, M, P, n, C) ==
    n > 1 => \A i \in 1 .. Len(C) : Still(secs, M, i) => C[i] = P[i]

LEMMA FirstIsBounded ==
    ASSUME NEW secs \in Seq(Sections), NEW M \in Placements(secs), NEW old
    PROVE  Bounded(secs, M, M, old, 1)
<1>1. ASSUME NEW i \in 1 .. Len(secs) + 1
      PROVE  M[i] <= M[i] /\ M[i] <= M[i] + 4 * RefsBefore(secs, i)
  <2>1. PICK m \in Nat, refs \in Nat : m = M[i] /\ refs = RefsBefore(secs, i)
    <3>1. i \in Nat \ {0}
      BY PlacementsAreNat
    <3> QED BY <3>1, PlacementsAreNat, RefCount
  <2>2. m <= m /\ m <= m + 4 * refs
    OBVIOUS
  <2> QED BY <2>1, <2>2
<1> QED BY <1>1 DEF Bounded

LEMMA KeptBegins ==
    ASSUME NEW secs, NEW M, NEW P, NEW n, P[1] = 0
    PROVE  Kept(secs, M, P, n, <<0>>)
BY DEF Kept

(* The offsets in the middle of a pass. *)
LEMMA MixedIsWithin ==
    ASSUME NEW secs \in Seq(Sections), NEW M \in Placements(secs), NEW P \in Placements(secs),
           NEW old, NEW n \in Nat, NEW C \in Seq(Nat), NEW off, NEW str, NEW conv,
           Len(C) \in 1 .. Len(secs) + 1, NEW k \in 0 .. Len(C),
           Previous(secs, M, P, old, n), Passing(secs, M, P, old, n, C, off, str, conv),
           Bounded(secs, M, P, old, n), NEW o \in [Marks -> Nat], Mixed(secs, o, C, P, k)
    PROVE  Within(secs, M, o)
<1> SUFFICES ASSUME NEW i \in MarkIndices(secs)
             PROVE  M[i] <= o[secs[i].id] /\ o[secs[i].id] <= M[i] + 4 * RefsBefore(secs, i)
  BY DEF Within
<1>1. /\ i \in Nat \ {0} /\ i \in 1 .. Len(secs) + 1 /\ M[i] \in Nat /\ P[i] \in Nat
      /\ RefsBefore(secs, i) \in Nat
  <2>1. i \in Nat \ {0} /\ i \in 1 .. Len(secs) + 1
    BY PlacementsAreNat DEF MarkIndices
  <2> QED BY <2>1, PlacementsAreNat, RefCount
<1>2. M[i] <= P[i] /\ P[i] <= M[i] + 4 * RefsBefore(secs, i)
  BY <1>1 DEF Bounded
<1>3. CASE i <= k
  <2>1. i \in 1 .. Len(C) /\ 1 \in 1 .. Len(C) /\ 1 <= i
    BY <1>1, <1>3
  <2>2. C[i] \in Nat
    BY <2>1, ElementOfSeq
  <2>3. P[1] = 0 /\ C[1] = 0
    BY DEF Previous, Ascends, Passing
  <2>4. P[i] - P[1] <= C[i] - C[1] /\ C[i] <= M[i] + 4 * RefsBefore(secs, i)
    BY <2>1 DEF Passing
  <2>5. P[i] <= C[i]
    BY <1>1, <2>2, <2>3, <2>4
  <2>6. o[secs[i].id] = C[i]
    BY <1>3 DEF Mixed
  <2>7. M[i] <= C[i]
    BY <1>1, <1>2, <2>2, <2>5
  <2> QED BY <2>4, <2>6, <2>7
<1>4. CASE ~(i <= k)
  <2>1. o[secs[i].id] = P[i]
    BY <1>4 DEF Mixed
  <2> QED BY <1>2, <2>1
<1> QED BY <1>3, <1>4

LEMMA NextIsBounded ==
    ASSUME NEW secs \in Seq(Sections), WellFormed(secs),
           NEW M \in Placements(secs), NEW P \in Placements(secs),
           NEW n \in Nat, NEW C \in Seq(Nat), Len(C) = Len(secs) + 1,
           NEW off \in [Marks -> Nat], NEW old, NEW str,
           Previous(secs, M, P, old, n), Passing(secs, M, P, old, n, C, off, str, FALSE),
           Bounded(secs, M, P, old, n)
    PROVE  Bounded(secs, M, C, str, n + 1)
<1>1. /\ C \in Placements(secs) /\ \A i \in 1 .. Len(secs) + 1 : P[i] <= C[i]
      /\ Len(C) \in 1 .. Len(secs) + 1 /\ Len(secs) \in Nat
  BY WalkEnds, PlacementsAreNat
<1>2. ASSUME NEW i \in 1 .. Len(secs) + 1
      PROVE  M[i] <= C[i] /\ C[i] <= M[i] + 4 * RefsBefore(secs, i)
  <2>1. M[i] \in Nat /\ P[i] \in Nat /\ C[i] \in Nat
    BY <1>1, PlacementsAreNat
  <2>2. M[i] <= P[i] /\ P[i] <= C[i]
    BY <1>1 DEF Bounded
  <2>3. C[i] <= M[i] + 4 * RefsBefore(secs, i)
    BY DEF Passing
  <2> QED BY <2>1, <2>2, <2>3
<1>3. ASSUME NEW i \in MarkIndices(secs) PROVE 0 <= str[secs[i].id]
  <2>1. i \in 1 .. Len(secs) + 1 /\ i <= Len(C) - 1
    BY PlacementsAreNat
  <2>2. str[secs[i].id] = C[i] - P[i]
    BY <2>1 DEF Passing, Moving
  <2>3. P[i] <= C[i] /\ P[i] \in Nat /\ C[i] \in Nat
    BY <1>1, <2>1, PlacementsAreNat
  <2> QED BY <2>2, <2>3
<1>4. ASSUME NEW r \in 1 .. Len(secs)
      PROVE  \E o \in [Marks -> Nat] :
                Within(secs, M, o) /\ C[r + 1] = C[r] + CompiledSize(secs[r], o)
  <2>1. r \in 1 .. Len(C) - 1 /\ r \in 0 .. Len(C)
    BY <1>1
  <2>2. PICK o \in [Marks -> Nat] :
           C[r + 1] = C[r] + CompiledSize(secs[r], o) /\ Mixed(secs, o, C, P, r)
    BY <2>1 DEF Passing
  <2>3. Within(secs, M, o)
    BY <1>1, <2>1, <2>2, MixedIsWithin
  <2> QED BY <2>2, <2>3
<1> QED BY <1>2, <1>3, <1>4 DEF Bounded

LEMMA KeptGrows ==
    ASSUME NEW secs, NEW M, NEW P, NEW old, NEW n, NEW C, NEW r, NEW off, NEW off2, NEW size,
           NEW str, NEW str2, NEW conv, NEW conv2, NEW steady2, steady2,
           WalkStep(secs, M, P, old, n, C, r, off, off2, size, str, str2, conv, conv2, steady2),
           Bounded(secs, M, P, old, n), Kept(secs, M, P, n, C)
    PROVE  Kept(secs, M, P, n, Append(C, C[r] + size))
<1>1. PICK D : D = Append(C, C[r] + size)
  OBVIOUS
<1>2. /\ secs \in Seq(Sections) /\ M \in Placements(secs) /\ P \in Placements(secs) /\ n \in Nat
      /\ C \in Seq(Nat) /\ r \in 1 .. Len(secs) /\ Len(C) = r /\ Len(secs) \in Nat
      /\ off2 \in [Marks -> Nat] /\ size = CompiledSize(secs[r], off2) /\ size \in Nat
      /\ Previous(secs, M, P, old, n)
  BY DEF WalkStep, Walks
<1>3. /\ D \in Seq(Nat) /\ Len(D) = r + 1 /\ D[r + 1] = C[r] + size
      /\ \A i \in 1 .. r : D[i] = C[i]
  <2>1. r \in 1 .. Len(C)
    BY <1>2
  <2>2. C[r] + size \in Nat
    BY <1>2, <2>1, ElementOfSeq
  <2>3. PICK x \in Nat : x = C[r] + size
    BY <2>2
  <2> QED BY <1>1, <1>2, <2>3, AppendProperties
<1>4. Passing(secs, M, P, old, n, D, off2, str2, conv2)
  BY <1>1, WalkGrows
<1>5. Within(secs, M, off2)
  <2>1. Mixed(secs, off2, D, P, Len(D) - 1)
    BY <1>4 DEF Passing
  <2>2. Len(D) \in 1 .. Len(secs) + 1 /\ Len(D) - 1 \in 0 .. Len(D)
    BY <1>2, <1>3
  <2> QED BY <1>2, <1>3, <1>4, <2>1, <2>2, MixedIsWithin
<1>6. ASSUME n > 1, NEW i \in 1 .. r + 1, Still(secs, M, i) PROVE D[i] = P[i]
  <2>1. CASE i <= r
    <3>1. i \in 1 .. r
      BY <1>2, <2>1
    <3> QED BY <1>2, <1>3, <1>6, <3>1 DEF Kept
  <2>2. CASE i = r + 1
    <3>1. r \in 1 .. r /\ r \in 1 .. i - 1 /\ 1 .. r - 1 \subseteq 1 .. i - 1
      BY <1>2, <2>2
    <3>2. Still(secs, M, r)
      BY <1>6, <3>1 DEF Still
    <3>3. C[r] = P[r]
      BY <1>2, <1>6, <3>1, <3>2 DEF Kept
    <3>4. PICK o \in [Marks -> Nat] :
             Within(secs, M, o) /\ P[r + 1] = P[r] + CompiledSize(secs[r], o)
      BY <1>2, <1>6 DEF Bounded
    <3>5. CompiledSize(secs[r], o) = size
      BY <1>2, <1>5, <1>6, <3>1, <3>4 DEF Still
    <3> QED BY <1>3, <2>2, <3>3, <3>4, <3>5
  <2> QED BY <1>2, <2>1, <2>2
<1> QED BY <1>1, <1>3, <1>6 DEF Kept

-----------------------------------------------------------------------------
(* The invariant. *)

FirstWalk(secs, n, h, off) ==
    \E M \in Placements(secs) :
        /\ Minimal(secs, M, n) /\ h = M[n]
        /\ \A i \in MarkIndices(secs) : i < n => off[secs[i].id] = M[i]

Walk(secs, n, st, h, off, str, conv) ==
    \E M, P \in Placements(secs), old \in [Marks -> Int] :
        /\ Previous(secs, M, P, old, n)
        /\ Passing(secs, M, P, old, n, Append(st, h), off, str, conv)
        /\ Bounded(secs, M, P, old, n) /\ Kept(secs, M, P, n, Append(st, h))

GrowInv ==
    /\ phase = "minimum" => FirstWalk(asm.sections, index, here, offset)
    /\ phase = "pass" /\ steady
          => Walk(asm.sections, passes, starts, here, offset, stride, converged)
    /\ phase = "no_convergence" /\ steady
          => MaxPasses <= 4 * RefsBefore(asm.sections, Len_ + 1)

LEMMA GrowFacts ==
    ASSUME IInv
    PROVE  /\ asm.sections \in Seq(Sections) /\ Len_ = Len(asm.sections) /\ Len_ \in Nat
           /\ index \in 1 .. Len_ + 1 /\ index \in Nat /\ passes \in Nat
           /\ here \in Nat /\ offset \in [Marks -> Nat] /\ starts \in Seq(Nat)
           /\ converged \in BOOLEAN
           /\ phase # "push" => WellFormed(asm.sections)
           /\ phase = "pass" => Len(starts) = index - 1
<1>1. passes \in Nat
  BY MaxPassesAssumption DEF IInv, TypeInv, AssemblerTypeOK
<1> QED BY <1>1, Facts DEF IInv, TypeInv, AssemblerTypeOK, LayoutInv, Len_

LEMMA StrideType == ASSUME IInv PROVE stride \in [Marks -> Int]
BY DEF IInv, TypeInv, AssemblerTypeOK

LEMMA AssembleGrows == ASSUME IInv, Assemble PROVE FirstWalk(asm.sections, 1, 0, offset')
<1> DEFINE M == [i \in 1 .. Len(asm.sections) + 1 |-> 0]
<1>1. Len(asm.sections) \in Nat /\ asm.sections \in Seq(Sections)
  BY GrowFacts
<1>2. M \in Placements(asm.sections) /\ M[1] = 0
  BY <1>1 DEF Placements
<1> HIDE DEF M
<1>3. Minimal(asm.sections, M, 1)
  BY <1>2 DEF Minimal, Ascends
<1>4. \A i \in MarkIndices(asm.sections) : ~(i < 1)
  BY <1>1 DEF MarkIndices
<1> QED BY <1>2, <1>3, <1>4 DEF FirstWalk

LEMMA PlaceMinimumGrows ==
    ASSUME IInv, PlaceMinimum, FirstWalk(asm.sections, index, here, offset)
    PROVE  FirstWalk(asm.sections, index + 1, here', offset')
<1>1. PICK secs \in Seq(Sections), r \in Nat, off \in [Marks -> Nat], off2 \in [Marks -> Nat] :
         /\ secs = asm.sections /\ r = index /\ r \in 1 .. Len(secs)
         /\ off = offset /\ off2 = offset'
         /\ off2 = IF secs[r].kind = "mark" THEN [off EXCEPT ![secs[r].id] = here] ELSE off
  <2>1. index \in 1 .. Len(asm.sections) /\ index <= Len_
    BY GrowFacts DEF PlaceMinimum
  <2>2. /\ offset' = IF Section.kind = "mark" THEN [offset EXCEPT ![Section.id] = here] ELSE offset
        /\ offset' \in [Marks -> Nat]
    BY <2>1, OffsetsType DEF IInv, PlaceMinimum, TypeInv, AssemblerTypeOK
  <2> QED BY <2>1, <2>2, GrowFacts DEF Section
<1>2. PICK least \in Nat : least = MinCompiledSize(secs[r])
  <2>1. MinCompiledSize(Section) \in Nat /\ Section = secs[r]
    BY <1>1, OffsetsType DEF IInv, PlaceMinimum, Section
  <2> QED BY <2>1
<1>3. here' = here + least
  BY <1>1, <1>2 DEF PlaceMinimum, Section
<1>4. PICK M \in Placements(secs) :
         /\ Minimal(secs, M, r) /\ here = M[r]
         /\ \A i \in MarkIndices(secs) : i < r => off[secs[i].id] = M[i]
  BY <1>1 DEF FirstWalk
<1>5. PICK N \in Placements(secs) :
         /\ Minimal(secs, N, r + 1) /\ N[r + 1] = M[r] + least
         /\ \A i \in 1 .. r : N[i] = M[i]
  <2>1. r \in 1 .. Len(secs)
    BY <1>1
  <2> QED BY <1>2, <1>4, <2>1, FirstWalkGrows
<1>6. WellFormed(secs)
  BY <1>1, GrowFacts DEF PlaceMinimum
<1>7. ASSUME NEW i \in MarkIndices(secs), i < r + 1 PROVE off2[secs[i].id] = N[i]
  <2>1. i \in 1 .. r /\ i \in 1 .. Len(secs) /\ secs[i].kind = "mark" /\ secs[i].id \in Marks
    BY <1>7, MarkIds DEF MarkIndices
  <2>2. CASE i = r
    BY <1>1, <1>4, <1>5, <2>1, <2>2
  <2>3. CASE i # r
    <3>1. i < r
      BY <2>1, <2>3
    <3>2. off[secs[i].id] = M[i]
      BY <1>4, <3>1
    <3>3. off2[secs[i].id] = off[secs[i].id]
      BY <1>1, <1>6, <2>1, <2>3 DEF WellFormed
    <3> QED BY <1>5, <2>1, <3>2, <3>3
  <2> QED BY <2>2, <2>3
<1>8. FirstWalk(secs, r + 1, here', off2)
  <2>1. here' = N[r + 1]
    BY <1>3, <1>4, <1>5
  <2> QED BY <1>5, <1>7, <2>1 DEF FirstWalk
<1> QED BY <1>1, <1>8

LEMMA EmptyWalk == Append(<<>>, 0) = <<0>>
OBVIOUS

LEMMA FirstPassGrows ==
    ASSUME IInv, FirstPass, FirstWalk(asm.sections, index, here, offset)
    PROVE  Walk(asm.sections, 1, <<>>, 0, offset, stride, TRUE)
<1>0. stride \in [Marks -> Int]
  BY StrideType
<1>1. PICK secs \in Seq(Sections), off \in [Marks -> Nat] :
         secs = asm.sections /\ off = offset /\ index = Len(secs) + 1
  BY GrowFacts DEF FirstPass
<1>2. PICK M \in Placements(secs) :
         /\ Minimal(secs, M, Len(secs) + 1)
         /\ \A i \in MarkIndices(secs) : i < Len(secs) + 1 => off[secs[i].id] = M[i]
  BY <1>1 DEF FirstWalk
<1>3. \A i \in MarkIndices(secs) : i < Len(secs) + 1
  BY <1>2, PlacementsAreNat
<1>4. Follows(secs, off, M) /\ Ascends(M, Len(secs) + 1)
  BY <1>2, <1>3 DEF Follows, Minimal
<1>5. Previous(secs, M, M, stride, 1)
  BY <1>2, FirstPassBegins
<1>6. Passing(secs, M, M, stride, 1, <<0>>, off, stride, TRUE)
  BY <1>0, <1>4, WalkBegins
<1>7. Bounded(secs, M, M, stride, 1) /\ Kept(secs, M, M, 1, <<0>>)
  BY <1>4, FirstIsBounded, KeptBegins DEF Ascends
<1> QED BY <1>0, <1>1, <1>2, <1>5, <1>6, <1>7, EmptyWalk DEF Walk

LEMMA AppendIsSeq ==
    ASSUME NEW st \in Seq(Nat), NEW h \in Nat
    PROVE  /\ Append(st, h) \in Seq(Nat) /\ Len(Append(st, h)) = Len(st) + 1
           /\ Append(st, h)[Len(st) + 1] = h
BY AppendProperties

LEMMA NextPassGrows ==
    ASSUME IInv, NextPass,
           Walk(asm.sections, passes, starts, here, offset, stride, converged)
    PROVE  Walk(asm.sections, passes + 1, <<>>, 0, offset, stride, TRUE)
<1>0. PICK str \in [Marks -> Int] : str = stride
  BY StrideType
<1>1. PICK secs \in Seq(Sections), off \in [Marks -> Nat], n \in Nat, C \in Seq(Nat) :
         /\ secs = asm.sections /\ off = offset /\ n = passes /\ C = Append(starts, here)
         /\ Len(C) = Len(secs) + 1 /\ ~converged /\ WellFormed(secs)
  <2>1. Len(starts) + 1 = Len(asm.sections) + 1 /\ ~converged /\ WellFormed(asm.sections)
    BY GrowFacts DEF NextPass
  <2> QED BY <2>1, GrowFacts, AppendIsSeq
<1>2. PICK M \in Placements(secs), P \in Placements(secs), old \in [Marks -> Int] :
         /\ Previous(secs, M, P, old, n) /\ Passing(secs, M, P, old, n, C, off, str, FALSE)
         /\ Bounded(secs, M, P, old, n)
  <2>1. PICK M \in Placements(secs), P \in Placements(secs), old \in [Marks -> Int] :
           /\ Previous(secs, M, P, old, n)
           /\ Passing(secs, M, P, old, n, C, off, str, converged)
           /\ Bounded(secs, M, P, old, n)
    BY <1>0, <1>1 DEF Walk
  <2>2. Passing(secs, M, P, old, n, C, off, str, FALSE)
    BY <1>1, <2>1 DEF Passing
  <2> QED BY <2>1, <2>2
<1>4. Previous(secs, M, C, str, n + 1) /\ Bounded(secs, M, C, str, n + 1)
  BY <1>1, <1>2, NextPassBegins, NextIsBounded
<1>5. C \in Placements(secs) /\ Ascends(C, Len(secs) + 1) /\ Follows(secs, off, C)
  BY <1>1, <1>2, WalkEnds
<1>6. Passing(secs, M, C, str, n + 1, <<0>>, off, str, TRUE)
  BY <1>5, WalkBegins
<1>7. Kept(secs, M, C, n + 1, <<0>>)
  BY <1>5, KeptBegins DEF Ascends
<1> QED BY <1>0, <1>1, <1>4, <1>5, <1>6, <1>7, EmptyWalk DEF Walk

LEMMA NoConvergenceGrows ==
    ASSUME IInv, NoConvergence, Walk(asm.sections, passes, starts, here, offset, stride, converged)
    PROVE  MaxPasses <= 4 * RefsBefore(asm.sections, Len_ + 1)
<1>0. PICK str \in [Marks -> Int] : str = stride
  BY StrideType
<1>1. PICK secs \in Seq(Sections), off \in [Marks -> Nat], n \in Nat, C \in Seq(Nat) :
         /\ secs = asm.sections /\ off = offset /\ n = passes /\ C = Append(starts, here)
         /\ Len(C) = Len(secs) + 1 /\ ~converged /\ n = MaxPasses /\ Len_ = Len(secs)
  <2>1. Len(starts) + 1 = Len(asm.sections) + 1 /\ ~converged /\ passes = MaxPasses
    BY GrowFacts DEF NoConvergence
  <2> QED BY <2>1, GrowFacts, AppendIsSeq
<1>2. PICK M \in Placements(secs), P \in Placements(secs), old \in [Marks -> Int] :
         Previous(secs, M, P, old, n) /\ Passing(secs, M, P, old, n, C, off, str, FALSE)
  <2>1. PICK M \in Placements(secs), P \in Placements(secs), old \in [Marks -> Int] :
           /\ Previous(secs, M, P, old, n)
           /\ Passing(secs, M, P, old, n, C, off, str, converged)
    BY <1>0, <1>1 DEF Walk
  <2>2. Passing(secs, M, P, old, n, C, off, str, FALSE)
    BY <1>1, <2>1 DEF Passing
  <2> QED BY <2>1, <2>2
<1>3. n <= 4 * RefsBefore(secs, Len(secs) + 1)
  BY <1>1, <1>2, PassesAreFew
<1> QED BY <1>1, <1>3

(* In a pass no offset decreases. *)
LEMMA PlaceGrows ==
    ASSUME IInv, Place,
           Walk(asm.sections, passes, starts, here, offset, stride, converged)
    PROVE  /\ \A m \in Marks : offset[m] <= offset'[m]
           /\ phase' = "pass" /\ steady'
                 => Walk(asm.sections, passes, starts', here', offset', stride', converged')
<1>0. PICK str \in [Marks -> Int] : str = stride
  BY StrideType
<1>1. PICK secs \in Seq(Sections), off \in [Marks -> Nat], off2 \in [Marks -> Nat],
           n \in Nat, C \in Seq(Nat), r \in Nat, size \in Nat :
         /\ r \in 1 .. Len(secs) /\ secs = asm.sections /\ off = offset /\ n = passes /\ C = Append(starts, here)
         /\ off2 = offset' /\ off2 = Offsets /\ r = index
         /\ Len(C) = r /\ C[r] = here /\ WellFormed(secs)
         /\ size = CompiledSize(secs[r], off2)
  <2>1. /\ Len(starts) + 1 = index /\ index \in 1 .. Len(asm.sections) /\ index <= Len_
        /\ WellFormed(asm.sections) /\ offset' = Offsets
    BY GrowFacts DEF Place
  <2>2. PICK off2 \in [Marks -> Nat], size \in Nat :
           off2 = Offsets /\ size = CompiledSize(asm.sections[index], off2)
    BY <2>1, OffsetsType DEF IInv, Section
  <2>3. PICK C \in Seq(Nat) : C = Append(starts, here) /\ Len(C) = index /\ C[index] = here
    BY <2>1, GrowFacts, AppendIsSeq
  <2> QED BY <2>1, <2>2, <2>3, GrowFacts
<1>2. PICK M \in Placements(secs), P \in Placements(secs), old \in [Marks -> Int] :
         /\ Previous(secs, M, P, old, n) /\ Passing(secs, M, P, old, n, C, off, str, converged)
         /\ Bounded(secs, M, P, old, n) /\ Kept(secs, M, P, n, C)
  BY <1>0, <1>1 DEF Walk
<1>3. WellFormed(secs) /\ r \in 1 .. Len(secs) /\ Len(C) = r
  BY <1>1
<1>4. Walks(secs, r, C[r], off, off2, size, converged, converged')
  BY <1>1 DEF Walks, Place, Offsets, Moved, Section
<1>5. /\ \A m \in Marks : off[m] <= off2[m]
      /\ steady' => /\ Passing(secs, M, P, old, n, Append(C, C[r] + size),
                               off2, stride', converged')
                    /\ Kept(secs, M, P, n, Append(C, C[r] + size))
  <2>1. Records(secs, n, r, C[r], off, str, stride', steady')
    BY <1>0, <1>1 DEF Records, Place, RecordMove, Section, history
  <2>2. WalkStep(secs, M, P, old, n, C, r, off, off2, size, str, stride',
                 converged, converged', steady')
    BY <1>2, <1>3, <1>4, <2>1 DEF WalkStep
  <2>3. steady' => Kept(secs, M, P, n, Append(C, C[r] + size))
    BY <1>2, <2>2, KeptGrows
  <2> QED BY <2>2, <2>3, WalkGrows
<1>6. ASSUME phase' = "pass" PROVE Append(starts', here') = Append(C, C[r] + size)
  <2>1. ~TooSmall(Section, Offsets)
    BY <1>6 DEF Place
  <2>2. starts' = Append(starts, here) /\ here' = here + CompiledSize(Section, Offsets)
    BY <2>1 DEF Place
  <2> QED BY <1>1, <2>2 DEF Section
<1>7. ASSUME phase' = "pass", steady'
      PROVE  Walk(secs, n, starts', here', off2, stride', converged')
  BY <1>2, <1>5, <1>6, <1>7 DEF Walk
<1> QED BY <1>1, <1>5, <1>7

LEMMA GrowStep == IInv /\ GrowInv /\ [Next]_asmVars => GrowInv'
<1> SUFFICES ASSUME IInv, GrowInv, [Next]_asmVars PROVE GrowInv'
  OBVIOUS
<1>1. CASE ClientMark \/ ClientOp \/ ClientData \/ ClientReference
  BY <1>1 DEF ClientMark, ClientOp, ClientData, ClientReference, Client, GrowInv
<1>2. CASE ClientAssemble
  <2>1. FirstWalk(asm.sections, 1, 0, offset')
    BY <1>2, AssembleGrows DEF ClientAssemble
  <2>2. phase' = "minimum" /\ index' = 1 /\ here' = 0 /\ asm' = asm
    BY <1>2 DEF ClientAssemble, Assemble
  <2> QED BY <2>1, <2>2 DEF GrowInv
<1>3. CASE PlaceMinimum
  <2>1. FirstWalk(asm.sections, index + 1, here', offset')
    BY <1>3, PlaceMinimumGrows DEF GrowInv, PlaceMinimum
  <2>2. phase' = "minimum" /\ index' = index + 1 /\ asm' = asm
    BY <1>3 DEF PlaceMinimum
  <2> QED BY <2>1, <2>2 DEF GrowInv
<1>4. CASE FirstPass
  <2>1. Walk(asm.sections, 1, <<>>, 0, offset, stride, TRUE)
    BY <1>4, FirstPassGrows DEF GrowInv, FirstPass
  <2>2. passes = 0
    BY <1>4 DEF FirstPass, IInv, TypeInv
  <2>3. /\ phase' = "pass" /\ starts' = <<>> /\ here' = 0 /\ converged' = TRUE /\ passes' = 1
        /\ UNCHANGED <<asm, offset, stride>>
    BY <1>4, <2>2 DEF FirstPass, BeginPass, history
  <2> QED BY <2>1, <2>3 DEF GrowInv
<1>5. CASE Place
  <2>1. ASSUME phase' = "pass", steady'
        PROVE  Walk(asm.sections, passes, starts', here', offset', stride', converged')
    <3>1. steady
      BY <1>5, <2>1 DEF Place, RecordMove, history
    <3> QED BY <1>5, <2>1, <3>1, PlaceGrows DEF GrowInv, Place
  <2>2. phase' \in {"pass", "too_small"} /\ UNCHANGED <<asm, passes>>
    BY <1>5 DEF Place
  <2> QED BY <2>1, <2>2 DEF GrowInv
<1>6. CASE NextPass
  <2>1. ASSUME steady
        PROVE  Walk(asm.sections, passes + 1, <<>>, 0, offset, stride, TRUE)
    BY <1>6, <2>1, NextPassGrows DEF GrowInv, NextPass
  <2>2. /\ phase' = "pass" /\ starts' = <<>> /\ here' = 0 /\ converged' = TRUE
        /\ passes' = passes + 1 /\ UNCHANGED <<asm, offset, stride, steady>>
    BY <1>6 DEF NextPass, BeginPass, history
  <2> QED BY <2>1, <2>2 DEF GrowInv
<1>7. CASE NoConvergence
  <2>1. ASSUME steady
        PROVE  MaxPasses <= 4 * RefsBefore(asm.sections, Len_ + 1)
    BY <1>7, <2>1, NoConvergenceGrows DEF GrowInv, NoConvergence
  <2>2. phase' = "no_convergence" /\ asm' = asm /\ steady' = steady
    BY <1>7 DEF NoConvergence, layoutVars, history
  <2> QED BY <2>1, <2>2 DEF GrowInv, Len_
<1>8. CASE Converged \/ EmitPlain \/ EmitReference \/ Finish
  <2>1. phase' \in {"emit", "done", "delta_underflow", "invalid_ref_size"}
    BY <1>8 DEF Converged, EmitPlain, EmitReference, Finish
  <2> QED BY <2>1 DEF GrowInv
<1>9. CASE UNCHANGED asmVars
  BY <1>9 DEF asmVars, layoutVars, history, GrowInv, Len_
<1> QED BY <1>1, <1>2, <1>3, <1>4, <1>5, <1>6, <1>7, <1>8, <1>9 DEF Next, LayoutStep

LEMMA GrowInvariance == Spec => [](IInv /\ GrowInv)
<1>1. AssemblerInit => IInv /\ GrowInv
  <2>1. AssemblerInit => IInv
    BY TypeInit, LayoutInit DEF IInv
  <2>2. AssemblerInit => GrowInv
    BY DEF AssemblerInit, GrowInv
  <2> QED BY <2>1, <2>2
<1>2. (IInv /\ GrowInv) /\ [Next]_asmVars => (IInv /\ GrowInv)'
  BY TypeStep, LayoutStepInv, GrowStep DEF IInv
<1> QED BY <1>1, <1>2, PTL DEF Spec

(* Offsets only grow from pass to pass of `assemble`, whatever the number  *)
(* of marks and references, as long as no start of a span speeds up.       *)
THEOREM LayoutOnlyGrows == Spec => OffsetsGrow
<1>1. IInv /\ GrowInv /\ [Next]_asmVars
         => [steady /\ phase = "pass" => \A m \in Marks : offset'[m] >= offset[m]]_asmVars
  <2> SUFFICES ASSUME IInv, GrowInv, Next, steady, phase = "pass", NEW m \in Marks
               PROVE  offset'[m] >= offset[m]
    OBVIOUS
  <2>1. offset[m] \in Nat
    BY Facts
  <2>2. CASE Place
    <3>1. offset[m] <= offset'[m] /\ offset'[m] \in Nat
      <4>1. index <= Len_ /\ offset' = Offsets
        BY <2>2 DEF Place
      <4> QED BY <2>2, <4>1, PlaceGrows, OffsetsType DEF GrowInv, IInv
    <3> QED BY <2>1, <3>1
  <2>3. CASE ~Place
    <3>1. offset' = offset
      BY <2>3 DEF Next, ClientMark, ClientOp, ClientData, ClientReference, Client, ClientAssemble,
                  Assemble, LayoutStep, PlaceMinimum, FirstPass, NextPass, BeginPass,
                  NoConvergence, Converged, EmitPlain, EmitReference, Finish, layoutVars
    <3> QED BY <2>1, <3>1
  <2> QED BY <2>2, <2>3
<1> QED BY <1>1, GrowInvariance, PTL DEF Spec, OffsetsGrow

(* `unreachable!("assembly didn't converge")` is not reached as long as    *)
(* the limit on passes is more than four for each reference and no start   *)
(* of a span speeds up: then 1024 passes are enough for 255 references.    *)
PassesSuffice ==
    phase = "no_convergence" /\ steady => MaxPasses <= 4 * Cardinality(RefIndices)

THEOREM PassesAreEnough == Spec => []PassesSuffice
<1>1. IInv /\ GrowInv => PassesSuffice
  <2> SUFFICES ASSUME IInv, GrowInv PROVE PassesSuffice
    OBVIOUS
  <2>1. RefsBefore(asm.sections, Len_ + 1) = Cardinality(RefIndices)
    BY GrowFacts, AllRefs DEF RefIndices
  <2> QED BY <2>1 DEF GrowInv, PassesSuffice
<1> QED BY <1>1, GrowInvariance, PTL

(* Behind sections that cannot change their size, the start of a span does *)
(* not move again.                                                         *)
LEMMA CalmPlace ==
    ASSUME IInv, Place, steady, Calm(asm.sections),
           Walk(asm.sections, passes, starts, here, offset, stride, converged)
    PROVE  steady'
<1> SUFFICES ASSUME Section.kind = "mark", passes > 1, StartsSpan(asm.sections, index)
             PROVE  here - offset[Section.id] <= stride[Section.id]
  BY DEF Place, RecordMove, history
<1>0. PICK str \in [Marks -> Int] : str = stride
  BY StrideType
<1>1. PICK secs \in Seq(Sections), off \in [Marks -> Nat], n \in Nat, C \in Seq(Nat), r \in Nat :
         /\ r \in 1 .. Len(secs) /\ secs = asm.sections /\ off = offset /\ n = passes
         /\ C = Append(starts, here) /\ r = index /\ Len(C) = r /\ C[r] = here
         /\ n > 1 /\ secs[r] = Section /\ StartsSpan(secs, r)
  <2>1. Len(starts) + 1 = index /\ index \in 1 .. Len(asm.sections)
    BY GrowFacts DEF Place
  <2>2. PICK C \in Seq(Nat) : C = Append(starts, here) /\ Len(C) = index /\ C[index] = here
    BY <2>1, GrowFacts, AppendIsSeq
  <2> QED BY <2>1, <2>2, GrowFacts DEF Section
<1>2. PICK M \in Placements(secs), P \in Placements(secs), old \in [Marks -> Int] :
         /\ Previous(secs, M, P, old, n) /\ Passing(secs, M, P, old, n, C, off, str, converged)
         /\ Bounded(secs, M, P, old, n) /\ Kept(secs, M, P, n, C)
  BY <1>0, <1>1 DEF Walk
<1>3. r \in MarkIndices(secs) /\ ~(r <= Len(C) - 1) /\ r \in 1 .. Len(C)
  BY <1>1 DEF MarkIndices
<1>4. off[secs[r].id] = P[r] /\ str[secs[r].id] = old[secs[r].id]
  BY <1>2, <1>3 DEF Passing, Mixed, Moving
<1>5. Still(secs, M, r)
  <2>1. Minimal(secs, M, Len(secs) + 1)
    BY <1>2 DEF Previous
  <2> QED BY <1>1, <1>3, <2>1 DEF Calm
<1>6. C[r] = P[r] /\ 0 <= old[secs[r].id]
  BY <1>1, <1>2, <1>3, <1>5 DEF Kept, Bounded
<1>7. P[r] \in Nat /\ old[secs[r].id] \in Int
  BY <1>3, MarkIds, PlacementsAreNat
<1>8. P[r] - P[r] <= old[secs[r].id]
  BY <1>6, <1>7
<1> QED BY <1>0, <1>1, <1>4, <1>6, <1>8

CalmIsSteady == Calm(asm.sections) => steady

CalmInv ==
    /\ phase \in {"push", "minimum"} => steady
    /\ CalmIsSteady

LEMMA CalmStep == IInv /\ GrowInv /\ CalmInv /\ [Next]_asmVars => CalmInv'
<1> SUFFICES ASSUME IInv, GrowInv, CalmInv, [Next]_asmVars PROVE CalmInv'
  OBVIOUS
<1>1. CASE ClientMark \/ ClientOp \/ ClientData \/ ClientReference
  <2>1. steady' = steady /\ phase = "push"
    BY <1>1 DEF ClientMark, ClientOp, ClientData, ClientReference, Client, layoutVars, history
  <2> QED BY <2>1 DEF CalmInv, CalmIsSteady
<1>2. CASE ClientAssemble \/ PlaceMinimum
  <2>1. steady' = steady /\ phase \in {"push", "minimum"}
    BY <1>2 DEF ClientAssemble, Assemble, PlaceMinimum, history
  <2> QED BY <2>1 DEF CalmInv, CalmIsSteady
<1>3. CASE Place
  <2>1. phase = "pass" /\ phase' \in {"pass", "too_small"} /\ asm' = asm
    BY <1>3 DEF Place
  <2>2. ASSUME Calm(asm.sections) PROVE steady'
    <3>1. steady
      BY <2>2 DEF CalmInv, CalmIsSteady
    <3>2. Walk(asm.sections, passes, starts, here, offset, stride, converged)
      BY <2>1, <3>1 DEF GrowInv
    <3> QED BY <1>3, <2>2, <3>1, <3>2, CalmPlace
  <2> QED BY <2>1, <2>2 DEF CalmInv, CalmIsSteady
<1>4. CASE FirstPass \/ NextPass \/ NoConvergence \/ Converged \/ EmitPlain \/ EmitReference \/ Finish
  <2>1. /\ steady' = steady /\ asm' = asm
        /\ phase' \notin {"push", "minimum"}
    BY <1>4 DEF FirstPass, NextPass, BeginPass, NoConvergence, Converged, EmitPlain, EmitReference,
                Finish, layoutVars, history
  <2> QED BY <2>1 DEF CalmInv, CalmIsSteady
<1>5. CASE UNCHANGED asmVars
  BY <1>5 DEF asmVars, layoutVars, history, CalmInv, CalmIsSteady
<1> QED BY <1>1, <1>2, <1>3, <1>4, <1>5 DEF Next, LayoutStep

(* No start of a span speeds up in a contract all of whose references      *)
(* before it stay the same size whatever lies in the range of its layouts: *)
(* what holds of a steady assembly holds of every such contract.           *)
THEOREM CalmContractsAreSteady == Spec => []CalmIsSteady
<1>1. AssemblerInit => CalmInv
  BY DEF AssemblerInit, CalmInv, CalmIsSteady
<1>2. Spec => [](IInv /\ GrowInv)
  BY GrowInvariance
<1>3. (IInv /\ GrowInv) /\ CalmInv /\ [Next]_asmVars => CalmInv'
  BY CalmStep
<1>4. CalmInv => CalmIsSteady
  BY DEF CalmInv
<1> QED BY <1>1, <1>2, <1>3, <1>4, PTL DEF Spec

-----------------------------------------------------------------------------
(* The least layout.  Q and off are a layout that the sizes of all         *)
(* sections agree with; what a walk lays out is nowhere wider.             *)
Consistent(secs, Q, off) ==
    /\ Q[1] = 0 /\ Follows(secs, off, Q)
    /\ \A k \in 1 .. Len(secs) :
          Q[k + 1] = Q[k] + CompiledSize(secs[k], off) /\ ~TooSmall(secs[k], off)

Beneath(secs, at, n) ==
    /\ Ascends(at, n)
    /\ \A Q \in Placements(secs), off \in [Marks -> Nat] : Consistent(secs, Q, off) =>
          \A i, j \in 1 .. n : i <= j => at[j] - at[i] <= Q[j] - Q[i]

LeastInv ==
    /\ phase = "minimum" => \E M \in Placements(asm.sections) :
          /\ Beneath(asm.sections, M, index) /\ here = M[index]
          /\ \A i \in MarkIndices(asm.sections) : i < index => offset[asm.sections[i].id] = M[i]
    /\ phase = "pass" /\ steady => \E P \in Placements(asm.sections) :
          /\ Beneath(asm.sections, P, Len_ + 1)
          /\ \A i \in MarkIndices(asm.sections) : i < index => P[i] <= starts[i]
          /\ Beneath(asm.sections, Append(starts, here), index)
          /\ Mixed(asm.sections, offset, Append(starts, here), P, index - 1)
    /\ phase \in {"emit", "done"} /\ steady => \E C \in Placements(asm.sections) :
          Beneath(asm.sections, C, Len_ + 1) /\ Follows(asm.sections, offset, C)
    /\ phase = "too_small" /\ steady =>
          \A Q \in Placements(asm.sections), off \in [Marks -> Nat] :
              ~Consistent(asm.sections, Q, off)

LEMMA BeneathGrows ==
    ASSUME NEW secs \in Seq(Sections), NEW r \in 1 .. Len(secs), NEW C, NEW C2,
           Beneath(secs, C, r), \A i \in 1 .. r : C[i] \in Nat /\ C2[i] = C[i],
           NEW size \in Nat, C2[r + 1] = C[r] + size,
           \A Q \in Placements(secs), off \in [Marks -> Nat] : Consistent(secs, Q, off) =>
              size <= CompiledSize(secs[r], off)
    PROVE  Beneath(secs, C2, r + 1)
<1>1. r \in Nat /\ r \in 1 .. r /\ 1 \in 1 .. r
      /\ \A i \in 1 .. r + 1 : i \in 1 .. r \/ i = r + 1
  OBVIOUS
<1>2. C[1] = 0 /\ \A i, j \in 1 .. r : i <= j => C[i] <= C[j]
  BY DEF Beneath, Ascends
<1>3. C[r] \in Nat /\ C2[r] = C[r]
  BY <1>1
<1>4. Ascends(C2, r + 1)
  <2>1. ASSUME NEW i \in 1 .. r + 1, NEW j \in 1 .. r + 1, i <= j PROVE C2[i] <= C2[j]
    <3>1. CASE j \in 1 .. r
      <4>1. i \in 1 .. r
        BY <2>1, <3>1
      <4> QED BY <1>2, <2>1, <3>1, <4>1
    <3>2. CASE j = r + 1 /\ i \in 1 .. r
      <4>1. C[i] <= C[r] /\ C2[i] = C[i] /\ C[i] \in Nat
        BY <1>1, <1>2, <3>2
      <4> QED BY <1>3, <3>2, <4>1
    <3>3. CASE j = r + 1 /\ i = r + 1
      <4>1. C2[j] \in Nat /\ C2[i] = C2[j]
        BY <1>3, <3>3
      <4> QED BY <4>1
    <3> QED BY <1>1, <3>1, <3>2, <3>3
  <2> QED BY <1>1, <1>2, <2>1 DEF Ascends
<1>5. ASSUME NEW Q \in Placements(secs), NEW off \in [Marks -> Nat], Consistent(secs, Q, off),
             NEW i \in 1 .. r + 1, NEW j \in 1 .. r + 1, i <= j
      PROVE  C2[j] - C2[i] <= Q[j] - Q[i]
  <2>1. \A k, l \in 1 .. r : k <= l => C[l] - C[k] <= Q[l] - Q[k]
    BY <1>5 DEF Beneath
  <2>2. \A k \in 1 .. r + 1 : Q[k] \in Nat
    <3>1. \A k \in 1 .. r + 1 : k \in 1 .. Len(secs) + 1
      OBVIOUS
    <3> QED BY <3>1, PlacementsAreNat
  <2>3. CASE j \in 1 .. r
    <3>1. i \in 1 .. r
      BY <1>5, <2>3
    <3> QED BY <1>5, <2>1, <2>3, <3>1
  <2>4. CASE j = r + 1 /\ i \in 1 .. r
    <3>1. C[r] - C[i] <= Q[r] - Q[i] /\ C2[i] = C[i] /\ C[i] \in Nat
      BY <1>1, <2>1, <2>4
    <3>2. Q[r + 1] = Q[r] + CompiledSize(secs[r], off) /\ size <= CompiledSize(secs[r], off)
      BY <1>5 DEF Consistent
    <3>3. CompiledSize(secs[r], off) \in Int /\ Q[r] \in Nat /\ Q[i] \in Nat
      <4>1. r \in 1 .. r + 1 /\ i \in 1 .. r + 1
        BY <1>1
      <4> QED BY <2>2, <4>1, SizeBounds
    <3>4. PICK a \in Nat, b \in Nat, c \in Nat, d \in Nat, s \in Int :
             a = C[r] /\ b = C[i] /\ c = Q[r] /\ d = Q[i] /\ s = CompiledSize(secs[r], off)
      BY <1>3, <3>1, <3>3
    <3>5. a - b <= c - d /\ size <= s
      BY <3>1, <3>2, <3>4
    <3>6. (a + size) - b <= (c + s) - d
      BY <3>5
    <3> QED BY <2>4, <3>1, <3>2, <3>4, <3>6
  <2>5. CASE j = r + 1 /\ i = r + 1
    <3>1. C2[j] \in Nat /\ Q[j] \in Nat
      BY <1>3, <2>2, <2>5
    <3> QED BY <2>5, <3>1
  <2> QED BY <1>1, <2>3, <2>4, <2>5
<1> QED BY <1>4, <1>5 DEF Beneath

(* Section r, between walked sections at C and others at P.                *)
LEMMA WalkIsBeneath ==
    ASSUME NEW secs \in Seq(Sections), WellFormed(secs),
           NEW P \in Placements(secs), NEW r \in 1 .. Len(secs), NEW C \in Seq(Nat), Len(C) = r,
           \A i \in MarkIndices(secs) : i < r => P[i] <= C[i],
           NEW off2 \in [Marks -> Nat], Mixed(secs, off2, C, P, r),
           Beneath(secs, P, Len(secs) + 1), Beneath(secs, C, r),
           NEW Q \in Placements(secs), NEW off \in [Marks -> Nat], Consistent(secs, Q, off)
    PROVE  CompiledSize(secs[r], off2) <= CompiledSize(secs[r], off) /\ ~TooSmall(secs[r], off2)
<1>1. \A i \in MarkIndices(secs) : /\ i \in 1 .. Len(secs) + 1 /\ i \in Nat
                                   /\ P[i] \in Nat /\ Q[i] \in Nat
                                   /\ i <= r => i \in 1 .. r /\ C[i] \in Nat
  <2>1. ASSUME NEW i \in MarkIndices(secs), i <= r PROVE i \in 1 .. r /\ C[i] \in Nat
    <3>1. i \in 1 .. r
      BY <2>1, PlacementsAreNat
    <3> QED BY <3>1, ElementOfSeq
  <2> QED BY <2>1, PlacementsAreNat
<1>2. \A i \in MarkIndices(secs) : /\ off2[secs[i].id] = IF i <= r THEN C[i] ELSE P[i]
                                   /\ off[secs[i].id] = Q[i]
  BY DEF Mixed, Consistent, Follows
<1>3. P[1] = 0 /\ C[1] = 0 /\ Q[1] = 0
  BY DEF Beneath, Ascends, Consistent
<1>4. 1 \in 1 .. r /\ 1 \in 1 .. Len(secs) + 1 /\ r \in Nat
  BY PlacementsAreNat
<1>5. /\ \A i, j \in 1 .. r : i <= j => C[i] <= C[j] /\ C[j] - C[i] <= Q[j] - Q[i]
      /\ \A i, j \in 1 .. Len(secs) + 1 : i <= j => P[i] <= P[j] /\ P[j] - P[i] <= Q[j] - Q[i]
  BY DEF Beneath, Ascends
<1>6. ASSUME NEW i \in MarkIndices(secs) PROVE off2[secs[i].id] <= off[secs[i].id]
  <2>1. CASE i <= r
    <3>1. C[i] - C[1] <= Q[i] - Q[1] /\ C[i] \in Nat /\ Q[i] \in Nat
      <4>1. 1 <= i
        BY <1>1
      <4> QED BY <1>1, <1>4, <1>5, <2>1, <4>1
    <3> QED BY <1>2, <1>3, <2>1, <3>1
  <2>2. CASE ~(i <= r)
    <3>1. P[i] - P[1] <= Q[i] - Q[1] /\ P[i] \in Nat /\ Q[i] \in Nat
      <4>1. 1 <= i
        BY <1>1
      <4> QED BY <1>1, <1>4, <1>5, <4>1
    <3> QED BY <1>2, <1>3, <2>2, <3>1
  <2> QED BY <2>1, <2>2
<1>7. ASSUME NEW i \in MarkIndices(secs), NEW j \in MarkIndices(secs), Encodes(secs, r, i, j)
      PROVE  off2[secs[j].id] - off2[secs[i].id] <= off[secs[j].id] - off[secs[i].id]
  <2>1. /\ i \in Nat /\ j \in Nat /\ i < j /\ i <= j
        /\ i \in 1 .. Len(secs) + 1 /\ j \in 1 .. Len(secs) + 1
    BY <1>1, <1>7 DEF Encodes
  <2>2. CASE j < r
    <3>1. i <= r /\ j <= r
      BY <1>4, <2>1, <2>2
    <3>2. i \in 1 .. r /\ j \in 1 .. r
      BY <1>1, <3>1
    <3> QED BY <1>2, <1>5, <2>1, <3>1, <3>2
  <2>3. CASE r < i
    <3>1. ~(i <= r) /\ ~(j <= r)
      BY <1>4, <2>1, <2>3
    <3> QED BY <1>2, <1>5, <2>1, <3>1
  <2>4. CASE Spans(secs, r, i, j)
    <3>1. i < r /\ i <= r /\ ~(j <= r)
      BY <1>4, <2>1, <2>4 DEF Spans
    <3>2. /\ P[i] <= C[i] /\ C[i] \in Nat
          /\ P[i] \in Nat /\ P[j] \in Nat /\ Q[i] \in Nat /\ Q[j] \in Nat
      BY <1>1, <3>1
    <3>4. P[j] - P[i] <= Q[j] - Q[i]
      BY <1>5, <2>1
    <3>3. /\ off2[secs[i].id] = C[i] /\ off2[secs[j].id] = P[j]
          /\ off[secs[i].id] = Q[i] /\ off[secs[j].id] = Q[j]
      BY <1>2, <3>1
    <3>5. P[j] - C[i] <= Q[j] - Q[i]
      <4>1. PICK a \in Nat, b \in Nat, c \in Nat, p \in Nat, q \in Nat :
               a = P[i] /\ b = P[j] /\ c = C[i] /\ p = Q[i] /\ q = Q[j]
        BY <3>2
      <4>2. b - a <= q - p /\ a <= c
        BY <3>2, <3>4, <4>1
      <4>3. b - c <= q - p
        BY <4>2
      <4> QED BY <4>1, <4>3, Zenon
    <3> QED BY <3>3, <3>5
  <2> QED BY <1>7, <2>2, <2>3, <2>4, Standings
<1>8. Wider(secs, r, off2, off)
  BY <1>6, <1>7 DEF Wider
<1>9. ~TooSmall(secs[r], off)
  BY DEF Consistent
<1> QED BY <1>8, <1>9, SectionGrows

LEMMA AssembleIsBeneath ==
    ASSUME IInv, Assemble PROVE LeastInv'
<1> DEFINE M == [i \in 1 .. Len(asm.sections) + 1 |-> 0]
<1>1. Len(asm.sections) \in Nat /\ asm.sections \in Seq(Sections)
  BY GrowFacts
<1>2. M \in Placements(asm.sections) /\ M[1] = 0
  BY <1>1 DEF Placements
<1> HIDE DEF M
<1>3. Beneath(asm.sections, M, 1)
  <2>1. Ascends(M, 1)
    BY <1>2 DEF Ascends
  <2>2. ASSUME NEW Q \in Placements(asm.sections) PROVE M[1] - M[1] <= Q[1] - Q[1]
    BY <1>1, <1>2, PlacementsAreNat
  <2>3. \A i \in 1 .. 1 : i = 1
    OBVIOUS
  <2> QED BY <2>1, <2>2, <2>3 DEF Beneath
<1>4. \A i \in MarkIndices(asm.sections) : ~(i < 1)
  BY <1>1 DEF MarkIndices
<1>5. phase' = "minimum" /\ index' = 1 /\ here' = 0 /\ asm' = asm
  BY DEF Assemble
<1> QED BY <1>2, <1>3, <1>4, <1>5 DEF LeastInv

LEMMA PlaceMinimumIsBeneath ==
    ASSUME IInv, PlaceMinimum, LeastInv PROVE LeastInv'
<1>1. PICK secs \in Seq(Sections), r \in Nat, off \in [Marks -> Nat], off2 \in [Marks -> Nat] :
         /\ secs = asm.sections /\ r = index /\ r \in 1 .. Len(secs)
         /\ off = offset /\ off2 = offset'
         /\ off2 = IF secs[r].kind = "mark" THEN [off EXCEPT ![secs[r].id] = here] ELSE off
  <2>1. index \in 1 .. Len(asm.sections) /\ index <= Len_
    BY GrowFacts DEF PlaceMinimum
  <2>2. /\ offset' = IF Section.kind = "mark" THEN [offset EXCEPT ![Section.id] = here] ELSE offset
        /\ offset' \in [Marks -> Nat]
    BY <2>1, OffsetsType DEF IInv, PlaceMinimum, TypeInv, AssemblerTypeOK
  <2> QED BY <2>1, <2>2, GrowFacts DEF Section
<1>2. PICK least \in Nat : least = MinCompiledSize(secs[r])
  <2>1. MinCompiledSize(Section) \in Nat /\ Section = secs[r]
    BY <1>1, OffsetsType DEF IInv, PlaceMinimum, Section
  <2> QED BY <2>1
<1>3. /\ here' = here + least /\ index' = r + 1 /\ phase' = "minimum" /\ phase = "minimum"
      /\ asm' = asm
  BY <1>1, <1>2 DEF PlaceMinimum, Section
<1>4. PICK M \in Placements(secs) :
         /\ Beneath(secs, M, r) /\ here = M[r]
         /\ \A i \in MarkIndices(secs) : i < r => off[secs[i].id] = M[i]
  BY <1>1, <1>3 DEF LeastInv
<1>5. /\ r \in 1 .. r /\ r + 1 \in 1 .. Len(secs) + 1 /\ r \in 1 .. Len(secs) + 1
      /\ \A i \in 1 .. r : i \in 1 .. Len(secs) + 1 /\ i # r + 1
  <2>1. Len(secs) \in Nat /\ r \in 1 .. Len(secs)
    BY <1>1
  <2> QED BY <2>1
<1>6. M[r] + least \in Nat
  BY <1>5, PlacementsAreNat
<1>7. PICK N \in Placements(secs) :
         N[r + 1] = M[r] + least /\ \A i \in 1 .. r : N[i] = M[i] /\ M[i] \in Nat
  <2> DEFINE N == [M EXCEPT ![r + 1] = M[r] + least]
  <2>1. N \in Placements(secs) /\ N[r + 1] = M[r] + least
    BY <1>5, <1>6 DEF Placements
  <2>2. \A i \in 1 .. r : N[i] = M[i] /\ M[i] \in Nat
    BY <1>5 DEF Placements
  <2> QED BY <2>1, <2>2
<1>8. Beneath(secs, N, r + 1)
  <2>1. ASSUME NEW o \in [Marks -> Nat] PROVE least <= CompiledSize(secs[r], o)
    <3>1. secs[r] \in Sections
      BY <1>1
    <3> QED BY <1>2, <3>1, SizeBounds
  <2>2. r \in 1 .. Len(secs)
    BY <1>1
  <2> QED BY <1>4, <1>7, <2>1, <2>2, BeneathGrows
<1>9. WellFormed(secs)
  BY <1>1, GrowFacts DEF PlaceMinimum
<1>10. ASSUME NEW i \in MarkIndices(secs), i < r + 1 PROVE off2[secs[i].id] = N[i]
  <2>1. i \in 1 .. r /\ i \in 1 .. Len(secs) /\ secs[i].kind = "mark" /\ secs[i].id \in Marks
    BY <1>10, MarkIds DEF MarkIndices
  <2>2. CASE i = r
    BY <1>1, <1>4, <1>7, <2>1, <2>2
  <2>3. CASE i # r
    <3>1. i < r
      BY <2>1, <2>3
    <3>2. off[secs[i].id] = M[i]
      BY <1>4, <3>1
    <3>3. off2[secs[i].id] = off[secs[i].id]
      BY <1>1, <1>9, <2>1, <2>3 DEF WellFormed
    <3> QED BY <1>7, <2>1, <3>2, <3>3
  <2> QED BY <2>2, <2>3
<1>11. here' = N[r + 1]
  BY <1>3, <1>4, <1>7
<1> QED BY <1>1, <1>3, <1>8, <1>10, <1>11 DEF LeastInv

(* At the beginning of a walk nothing is laid out. *)
LEMMA NothingIsBeneath ==
    ASSUME NEW secs \in Seq(Sections) PROVE Beneath(secs, <<0>>, 1)
<1>1. <<0>>[1] = 0
  OBVIOUS
<1>2. ASSUME NEW Q \in Placements(secs) PROVE <<0>>[1] - <<0>>[1] <= Q[1] - Q[1]
  BY <1>1, PlacementsAreNat
<1>3. \A i \in 1 .. 1 : i = 1
  OBVIOUS
<1>4. Ascends(<<0>>, 1)
  BY <1>1, <1>3 DEF Ascends
<1> QED BY <1>2, <1>3, <1>4 DEF Beneath

LEMMA BeginPassIsBeneath ==
    ASSUME IInv, BeginPass,
           NEW P \in Placements(asm.sections), Beneath(asm.sections, P, Len_ + 1),
           Follows(asm.sections, offset, P)
    PROVE  LeastInv'
<1>1. PICK secs \in Seq(Sections), off \in [Marks -> Nat], len \in Nat :
         /\ secs = asm.sections /\ off = offset /\ len = Len_
         /\ P \in Placements(secs) /\ Beneath(secs, P, len + 1) /\ Follows(secs, off, P)
  BY GrowFacts
<1>2. Mixed(secs, off, <<0>>, P, 1 - 1)
  <2>1. \A i \in MarkIndices(secs) : ~(i <= 1 - 1)
    BY <1>1, PlacementsAreNat
  <2> QED BY <1>1, <2>1 DEF Mixed, Follows
<1>3. Beneath(secs, <<0>>, 1)
  BY NothingIsBeneath
<1>4. /\ phase' = "pass" /\ starts' = <<>> /\ here' = 0 /\ index' = 1
      /\ UNCHANGED <<asm, offset>>
  BY DEF BeginPass
<1>5. Append(starts', here') = <<0>>
  BY <1>4, EmptyWalk
<1>6. asm'.sections = secs /\ offset' = off /\ Len_' = len
  BY <1>1, <1>4 DEF Len_
<1>7. \A i \in MarkIndices(secs) : ~(i < 1)
  BY <1>1, PlacementsAreNat
<1> QED BY <1>1, <1>2, <1>3, <1>4, <1>5, <1>6, <1>7 DEF LeastInv

LEMMA FirstPassIsBeneath ==
    ASSUME IInv, FirstPass, LeastInv PROVE LeastInv'
<1>1. PICK secs \in Seq(Sections), off \in [Marks -> Nat], len \in Nat :
         /\ secs = asm.sections /\ off = offset /\ len = Len_ /\ index = len + 1 /\ len = Len(secs)
  BY GrowFacts DEF FirstPass
<1>2. PICK M \in Placements(secs) :
         /\ Beneath(secs, M, len + 1)
         /\ \A i \in MarkIndices(secs) : i < len + 1 => off[secs[i].id] = M[i]
  BY <1>1 DEF LeastInv, FirstPass
<1>3. \A i \in MarkIndices(secs) : i < len + 1
  BY <1>1, <1>2, PlacementsAreNat
<1>4. Follows(secs, off, M)
  BY <1>2, <1>3 DEF Follows
<1> QED BY <1>1, <1>2, <1>4, BeginPassIsBeneath DEF FirstPass

(* All sections are walked: their offsets are beneath every layout. *)
LEMMA PassEndsBeneath ==
    ASSUME IInv, phase = "pass", index > Len_, steady, LeastInv
    PROVE  \E C \in Placements(asm.sections) :
              Beneath(asm.sections, C, Len_ + 1) /\ Follows(asm.sections, offset, C)
<1>1. PICK secs \in Seq(Sections), off \in [Marks -> Nat], len \in Nat, C \in Seq(Nat) :
         /\ secs = asm.sections /\ off = offset /\ len = Len_ /\ index = len + 1 /\ len = Len(secs)
         /\ C = Append(starts, here) /\ Len(C) = len + 1
  <2>1. index = Len_ + 1 /\ Len(starts) + 1 = Len_ + 1
    BY GrowFacts
  <2>2. PICK C \in Seq(Nat) : C = Append(starts, here) /\ Len(C) = Len_ + 1
    <3>1. starts \in Seq(Nat) /\ here \in Nat
      BY GrowFacts
    <3> QED BY <2>1, <3>1, AppendIsSeq
  <2> QED BY <2>1, <2>2, GrowFacts
<1>2. PICK P \in Placements(secs) : Beneath(secs, C, len + 1) /\ Mixed(secs, off, C, P, len + 1 - 1)
  BY <1>1 DEF LeastInv
<1>3. C \in Placements(secs)
  <2>1. C \in [1 .. Len(C) -> Nat]
    BY LenProperties
  <2> QED BY <1>1, <2>1 DEF Placements
<1>4. \A i \in MarkIndices(secs) : i <= len + 1 - 1
  BY <1>1, <1>2, PlacementsAreNat
<1>5. Follows(secs, off, C)
  BY <1>2, <1>4 DEF Mixed, Follows
<1> QED BY <1>1, <1>2, <1>3, <1>5

LEMMA PlaceIsBeneath ==
    ASSUME IInv, GrowInv, Place, LeastInv PROVE LeastInv'
<1>1. PICK secs \in Seq(Sections), off \in [Marks -> Nat], off2 \in [Marks -> Nat],
           C \in Seq(Nat), r \in Nat, size \in Nat :
         /\ r \in 1 .. Len(secs) /\ secs = asm.sections /\ off = offset
         /\ C = Append(starts, here) /\ off2 = offset' /\ off2 = Offsets /\ r = index
         /\ Len(C) = r /\ C[r] = here /\ WellFormed(secs)
         /\ size = CompiledSize(secs[r], off2)
  <2>1. /\ Len(starts) + 1 = index /\ index \in 1 .. Len(asm.sections) /\ index <= Len_
        /\ WellFormed(asm.sections) /\ offset' = Offsets
    BY GrowFacts DEF Place
  <2>2. PICK off2 \in [Marks -> Nat], size \in Nat :
           off2 = Offsets /\ size = CompiledSize(asm.sections[index], off2)
    BY <2>1, OffsetsType DEF IInv, Section
  <2>3. PICK C \in Seq(Nat) : C = Append(starts, here) /\ Len(C) = index /\ C[index] = here
    BY <2>1, GrowFacts, AppendIsSeq
  <2> QED BY <2>1, <2>2, <2>3, GrowFacts
<1>2. /\ phase = "pass" /\ asm' = asm /\ phase' \in {"pass", "too_small"}
      /\ phase' = "pass" <=> ~TooSmall(secs[r], off2)
  BY <1>1 DEF Place, Section
<1>3. CASE ~steady
  <2>1. ~steady'
    BY <1>3 DEF Place, RecordMove, history
  <2> QED BY <1>1, <1>2, <2>1 DEF LeastInv
<1>4. CASE steady
  <2>1. PICK P \in Placements(secs) :
           /\ Beneath(secs, P, Len(secs) + 1) /\ Beneath(secs, C, r)
           /\ \A i \in MarkIndices(secs) : i < r => P[i] <= starts[i]
           /\ Mixed(secs, off, C, P, r - 1)
    BY <1>1, <1>2, <1>4 DEF LeastInv, Len_
  <2>0. \A i \in MarkIndices(secs) : i < r => P[i] <= C[i] /\ C[i] = starts[i]
    <3>1. \A i \in MarkIndices(secs) : i < r => i \in 1 .. Len(starts)
      BY <1>1, GrowFacts, PlacementsAreNat DEF Place
    <3>2. \A i \in 1 .. Len(starts) : C[i] = starts[i]
      BY <1>1, GrowFacts, AppendProperties
    <3> QED BY <2>1, <3>1, <3>2
  <2>2. PICK C2 \in Seq(Nat) :
           /\ C2 = Append(C, here + size) /\ Len(C2) = r + 1 /\ C2[r + 1] = C[r] + size
           /\ \A i \in 1 .. r : C2[i] = C[i] /\ C[i] \in Nat
    <3>1. here + size \in Nat /\ \A i \in 1 .. r : C[i] \in Nat
      BY <1>1, GrowFacts, ElementOfSeq, SMTT(30)
    <3>2. PICK x \in Nat : x = here + size
      BY <3>1
    <3>3. /\ Append(C, x) \in Seq(Nat) /\ Len(Append(C, x)) = Len(C) + 1
          /\ \A i \in 1 .. Len(C) : Append(C, x)[i] = C[i]
          /\ Append(C, x)[Len(C) + 1] = x
      BY AppendProperties
    <3> QED BY <1>1, <3>1, <3>2, <3>3
  <2>3. Mixed(secs, off2, C2, P, r)
    <3> SUFFICES ASSUME NEW i \in MarkIndices(secs)
                 PROVE  off2[secs[i].id] = IF i <= r THEN C2[i] ELSE P[i]
      BY DEF Mixed
    <3>1. secs[i].id \in Marks /\ i \in 1 .. Len(secs) /\ secs[i].kind = "mark"
      BY MarkIds DEF MarkIndices
    <3>2. off2 = IF secs[r].kind = "mark" THEN [off EXCEPT ![secs[r].id] = C[r]] ELSE off
      BY <1>1 DEF Offsets, Section
    <3>3. r \in 1 .. r /\ r \in 1 .. Len(secs)
      BY <1>1
    <3>4. CASE i = r
      BY <2>2, <3>1, <3>2, <3>3, <3>4
    <3>5. CASE i # r
      <4>1. off2[secs[i].id] = off[secs[i].id]
        BY <1>1, <3>1, <3>2, <3>3, <3>5 DEF WellFormed
      <4>2. off[secs[i].id] = IF i <= r - 1 THEN C[i] ELSE P[i]
        BY <2>1 DEF Mixed
      <4> QED BY <2>2, <3>1, <3>3, <3>5, <4>1, <4>2
    <3> QED BY <3>4, <3>5
  <2>4. Mixed(secs, off2, C, P, r)
    <3>1. \A i \in MarkIndices(secs) : i <= r => i \in 1 .. r
      BY PlacementsAreNat
    <3> QED BY <2>2, <2>3, <3>1 DEF Mixed
  <2>5. ASSUME NEW Q \in Placements(secs), NEW o \in [Marks -> Nat], Consistent(secs, Q, o)
        PROVE  size <= CompiledSize(secs[r], o) /\ ~TooSmall(secs[r], off2)
    <3>1. r \in 1 .. Len(secs) /\ Len(C) = r /\ WellFormed(secs)
      BY <1>1
    <3>2. CompiledSize(secs[r], off2) <= CompiledSize(secs[r], o) /\ ~TooSmall(secs[r], off2)
      BY <2>0, <2>1, <2>4, <2>5, <3>1, WalkIsBeneath
    <3> QED BY <1>1, <3>2
  <2>6. CASE phase' = "too_small"
    <3>1. TooSmall(secs[r], off2)
      BY <1>2, <2>6
    <3> QED BY <1>1, <1>2, <2>5, <2>6, <3>1 DEF LeastInv
  <2>7. CASE phase' = "pass"
    <3>1. Beneath(secs, C2, r + 1)
      <4>1. r \in 1 .. Len(secs)
        BY <1>1
      <4> QED BY <2>1, <2>2, <2>5, <4>1, BeneathGrows
    <3>2. starts' = C /\ here' = here + size /\ index' = r + 1
      BY <1>1, <1>2, <2>7 DEF Place, Section
    <3>3. Append(starts', here') = C2 /\ index' - 1 = r
      BY <2>2, <3>2
    <3>4. Len_' = Len(secs) /\ asm'.sections = secs
      BY <1>1, <1>2 DEF Len_
    <3>5. ASSUME NEW i \in MarkIndices(secs), i < r + 1 PROVE P[i] <= starts'[i]
      <4>1. CASE i < r
        <5>1. starts'[i] = C[i]
          BY <3>2
        <5> QED BY <2>0, <4>1, <5>1
      <4>2. CASE i = r
        <5>1. off[secs[r].id] <= off2[secs[r].id]
          <6>1. Walk(asm.sections, passes, starts, here, offset, stride, converged)
            BY <1>2, <1>4 DEF GrowInv
          <6>2. secs[r].id \in Marks
            BY <3>5, <4>2, MarkIds
          <6> QED BY <1>1, <6>1, <6>2, PlaceGrows
        <5>2. off[secs[r].id] = P[r] /\ off2[secs[r].id] = C2[r]
          BY <1>1, <2>1, <2>3, <3>5, <4>2 DEF Mixed
        <5>3. C2[r] = C[r] /\ starts'[r] = C[r]
          BY <1>1, <2>2, <3>2
        <5> QED BY <4>2, <5>1, <5>2, <5>3
      <4>3. i \in Nat /\ r \in Nat
        BY <1>1, <3>5, PlacementsAreNat
      <4> QED BY <3>5, <4>1, <4>2, <4>3
    <3> QED BY <1>1, <2>1, <2>3, <2>7, <3>1, <3>2, <3>3, <3>4, <3>5 DEF LeastInv
  <2> QED BY <1>2, <2>6, <2>7
<1> QED BY <1>3, <1>4

LEMMA LeastStep == IInv /\ GrowInv /\ LeastInv /\ [Next]_asmVars => LeastInv'
<1> SUFFICES ASSUME IInv, GrowInv, LeastInv, [Next]_asmVars PROVE LeastInv'
  OBVIOUS
<1>1. CASE ClientMark \/ ClientOp \/ ClientData \/ ClientReference
  <2>1. phase' = "push"
    BY <1>1 DEF ClientMark, ClientOp, ClientData, ClientReference, Client
  <2> QED BY <2>1 DEF LeastInv
<1>2. CASE NextPass
  <2>1. BeginPass /\ phase = "pass" /\ index > Len_
    BY <1>2 DEF NextPass
  <2>2. CASE steady
    BY <2>1, <2>2, PassEndsBeneath, BeginPassIsBeneath
  <2>3. CASE ~steady
    BY <2>1, <2>3 DEF LeastInv, BeginPass, history
  <2> QED BY <2>2, <2>3
<1>3. CASE Converged
  <2>1. phase = "pass" /\ index > Len_ /\ phase' = "emit" /\ UNCHANGED <<asm, offset, steady>>
    BY <1>3 DEF Converged, history
  <2>2. steady => \E C \in Placements(asm.sections) :
           Beneath(asm.sections, C, Len_ + 1) /\ Follows(asm.sections, offset, C)
    BY <2>1, PassEndsBeneath
  <2> QED BY <2>1, <2>2 DEF LeastInv, Len_
<1>4. CASE EmitPlain \/ EmitReference \/ Finish
  <2>1. /\ phase = "emit" /\ phase' \in {"emit", "done", "delta_underflow", "invalid_ref_size"}
        /\ UNCHANGED <<asm, offset, steady>>
    BY <1>4 DEF EmitPlain, EmitReference, Finish, layoutVars, history
  <2> QED BY <2>1 DEF LeastInv, Len_
<1>5. CASE NoConvergence
  <2>1. phase' = "no_convergence"
    BY <1>5 DEF NoConvergence
  <2> QED BY <2>1 DEF LeastInv
<1>6. CASE UNCHANGED asmVars
  BY <1>6 DEF asmVars, layoutVars, history, LeastInv, Len_
<1> QED BY <1>1, <1>2, <1>3, <1>4, <1>5, <1>6, AssembleIsBeneath, PlaceMinimumIsBeneath,
           FirstPassIsBeneath, PlaceIsBeneath DEF Next, LayoutStep, ClientAssemble

LEMMA LeastInvariance == Spec => [](IInv /\ LeastInv)
<1>1. AssemblerInit => LeastInv
  BY DEF AssemblerInit, LeastInv
<1>2. (IInv /\ GrowInv) /\ LeastInv /\ [Next]_asmVars => LeastInv'
  BY LeastStep
<1> QED BY <1>1, <1>2, GrowInvariance, PTL DEF Spec

(* The layout by hypothesis is the one its sizes add up to. *)
LEMMA OffsetsOfSizes ==
    ASSUME IInv, phase # "push", NEW size \in [Refs -> Nat]
    PROVE  \E Q \in Placements(asm.sections) :
              /\ Q[1] = 0
              /\ \A k \in 1 .. Len_ :
                    Q[k + 1] = Q[k] + IF asm.sections[k] \in Refs THEN size[asm.sections[k]]
                                      ELSE MinCompiledSize(asm.sections[k])
              /\ PlacedOffsets(size) \in [Marks -> Nat]
              /\ Follows(asm.sections, PlacedOffsets(size), Q)
<1> DEFINE len == Len(asm.sections)
           secs == asm.sections
           Step(s) == IF s \in Refs THEN size[s] ELSE MinCompiledSize(s)
           step == [k \in 1 .. len |-> [x \in Nat |-> x + Step(secs[k])]]
           IsAt(at) == at = [i \in 1 .. len + 1 |-> IF i = 1 THEN 0 ELSE at[i - 1] + Step(secs[i - 1])]
           at == CHOOSE at : IsAt(at)
<1>1. secs \in Seq(Sections) /\ len \in Nat /\ Len_ = len /\ WellFormed(secs)
  BY GrowFacts
<1>2. \A k \in 1 .. len : Step(secs[k]) \in Nat
  <2>1. ASSUME NEW k \in 1 .. len, secs[k] \notin Refs PROVE MinCompiledSize(secs[k]) \in Nat
    <3>1. secs[k] \in Sections /\ (secs[k].kind \in {"ops", "data"} => secs[k].start <= secs[k].end)
      BY <1>1 DEF IInv, TypeInv, AssemblerTypeOK, IsAsm
    <3>2. offset \in [Marks -> Nat]
      BY GrowFacts
    <3> QED BY <3>1, <3>2, SizesAreNat
  <2> QED BY <2>1
<1> HIDE DEF Step
<1>3. step \in [1 .. len -> [Nat -> Nat]]
  <2>1. \A k \in 1 .. len : \A x \in Nat : x + Step(secs[k]) \in Nat
    BY <1>2
  <2> QED BY <2>1
<1>4. PICK f \in [0 .. len -> Nat] : f[0] = 0 /\ \A k \in 1 .. len : f[k] = f[k - 1] + Step(secs[k])
  <2>1. PICK f \in Recursions(len, Nat, 0, step) : TRUE
    <3> HIDE DEF step
    <3>1. Recursions(len, Nat, 0, step) # {}
      <4>1. len \in Nat /\ 0 \in Nat
        BY <1>1
      <4> HIDE DEF len
      <4> QED BY <1>3, <4>1, RecursionUpTo
    <3> QED BY <3>1
  <2>2. f \in [0 .. len -> Nat] /\ f[0] = 0 /\ \A k \in 1 .. len : f[k] = step[k][f[k - 1]]
    BY <2>1 DEF Recursions
  <2>3. \A k \in 1 .. len : f[k - 1] \in Nat
    BY <1>1, <2>2, SMTT(30)
  <2> QED BY <2>2, <2>3
<1>5. \E g : IsAt(g)
  <2> DEFINE g == [i \in 1 .. len + 1 |-> f[i - 1]]
  <2>1. ASSUME NEW i \in 1 .. len + 1
        PROVE  g[i] = IF i = 1 THEN 0 ELSE g[i - 1] + Step(secs[i - 1])
    <3>1. CASE i = 1
      BY <1>4, <3>1
    <3>2. CASE i # 1
      <4>1. i - 1 \in 1 .. len /\ i - 1 \in 1 .. len + 1
        BY <1>1, <3>2
      <4>2. f[i - 1] = f[i - 1 - 1] + Step(secs[i - 1])
        BY <1>4, <4>1
      <4> QED BY <3>2, <4>1, <4>2
    <3> QED BY <3>1, <3>2
  <2>2. IsAt(g)
    BY <2>1
  <2> QED BY <2>2
<1>6. IsAt(at)
  BY <1>5
<1> HIDE DEF at
<1>7. \A i \in 1 .. len + 1 : at[i] = IF i = 1 THEN 0 ELSE at[i - 1] + Step(secs[i - 1])
  BY <1>6
<1>8. at[1] = 0 /\ \A k \in 1 .. len : at[k + 1] = at[k] + Step(secs[k])
  <2>1. 1 \in 1 .. len + 1
    BY <1>1
  <2>2. ASSUME NEW k \in 1 .. len PROVE at[k + 1] = at[k] + Step(secs[k])
    <3>1. k + 1 \in 1 .. len + 1 /\ k + 1 # 1 /\ k + 1 - 1 = k
      BY <1>1
    <3> QED BY <1>7, <3>1
  <2> QED BY <1>7, <2>1, <2>2
<1>9. at \in Placements(secs)
  <2> DEFINE T == {n \in 0 .. len : at[n + 1] \in Nat}
  <2>1. 0 \in T
    BY <1>1, <1>8
  <2>2. ASSUME NEW n \in 1 .. len, n - 1 \in T PROVE n \in T
    BY <1>1, <1>2, <1>8, <2>2
  <2> HIDE DEF T
  <2>3. 0 .. len \subseteq T
    BY <1>1, <2>1, <2>2, InductionUpTo
  <2>4. ASSUME NEW i \in 1 .. len + 1 PROVE at[i] \in Nat
    <3>1. i - 1 \in 0 .. len /\ i - 1 + 1 = i
      BY <1>1
    <3>2. i - 1 \in T
      BY <2>3, <3>1
    <3> QED BY <3>1, <3>2 DEF T
  <2>5. at = [i \in 1 .. len + 1 |-> at[i]]
    BY <1>6
  <2> QED BY <2>4, <2>5 DEF Placements
<1>10. PlacedOffsets(size) = [m \in Marks |-> IF Placed(m)
                              THEN at[CHOOSE i \in 1 .. Len_ : PlacedAt(secs, m, i)] ELSE 0]
  BY <1>1 DEF PlacedOffsets, at, Step
<1>11. ASSUME NEW m \in Marks, Placed(m)
       PROVE  (CHOOSE i \in 1 .. Len_ : PlacedAt(secs, m, i)) \in 1 .. Len_
  BY <1>11 DEF Placed
<1>12. PlacedOffsets(size) \in [Marks -> Nat]
  <2>1. \A i \in 1 .. Len_ : at[i] \in Nat
    BY <1>1, <1>9, PlacementsAreNat
  <2>2. ASSUME NEW m \in Marks
        PROVE  (IF Placed(m) THEN at[CHOOSE i \in 1 .. Len_ : PlacedAt(secs, m, i)] ELSE 0) \in Nat
    BY <1>11, <2>1
  <2> QED BY <1>10, <2>2
<1>13. ASSUME NEW i \in MarkIndices(secs) PROVE PlacedOffsets(size)[secs[i].id] = at[i]
  <2>1. /\ secs[i].id \in Marks /\ i \in 1 .. Len_ /\ PlacedAt(secs, secs[i].id, i)
    BY <1>1, MarkIds DEF MarkIndices, PlacedAt
  <2>2. \A j \in 1 .. Len_ : PlacedAt(secs, secs[i].id, j) => j = i
    BY <1>1, <2>1 DEF WellFormed, PlacedAt
  <2>3. (CHOOSE j \in 1 .. Len_ : PlacedAt(secs, secs[i].id, j)) = i
    BY <2>1, <2>2
  <2>4. Placed(secs[i].id)
    BY <2>1 DEF Placed
  <2> QED BY <1>10, <2>1, <2>3, <2>4
<1> QED BY <1>1, <1>8, <1>9, <1>12, <1>13 DEF Follows, Step

LEMMA LayoutsAreConsistent ==
    ASSUME IInv, phase # "push", NEW off \in ConsistentLayouts
    PROVE  /\ off \in [Marks -> Nat]
           /\ \E Q \in Placements(asm.sections) : Consistent(asm.sections, Q, off)
<1>1. PICK size \in [Refs -> 1 .. 5] : off = PlacedOffsets(size)
  BY DEF ConsistentLayouts
<1>2. size \in [Refs -> Nat]
  BY <1>1
<1>3. off \in [Marks -> Nat]
  BY <1>1, <1>2, OffsetsOfSizes
<1> DEFINE least == [ref \in Refs |-> CompiledSize(ref, off)]
<1>4. (\A ref \in Refs : ~TooSmall(ref, off)) /\ PlacedOffsets(least) = off
  BY DEF ConsistentLayouts
<1>5. asm.sections \in Seq(Sections) /\ Len_ \in Nat /\ Len_ = Len(asm.sections)
  BY GrowFacts
<1>6. \A ref \in Refs : ref \in References /\ ref.kind = "ref"
  BY <1>5, KindIsType DEF Refs, RefIndices
<1>7. least \in [Refs -> Nat]
  <2>1. ASSUME NEW ref \in Refs PROVE CompiledSize(ref, off) \in Nat
    <3>1. ref \in Sections /\ ref.kind = "ref"
      BY <1>6 DEF Sections
    <3> QED BY <1>3, <3>1, SizesAreNat
  <2> QED BY <2>1
<1>8. PICK Q \in Placements(asm.sections) :
         /\ Q[1] = 0
         /\ \A k \in 1 .. Len_ :
               Q[k + 1] = Q[k] + IF asm.sections[k] \in Refs THEN least[asm.sections[k]]
                                 ELSE MinCompiledSize(asm.sections[k])
         /\ Follows(asm.sections, off, Q)
  <2> HIDE DEF least
  <2> QED BY <1>4, <1>7, OffsetsOfSizes
<1>9. ASSUME NEW k \in 1 .. Len_
      PROVE  /\ Q[k + 1] = Q[k] + CompiledSize(asm.sections[k], off)
             /\ ~TooSmall(asm.sections[k], off)
  <2>1. asm.sections[k] \in Sections
    BY <1>5
  <2>2. CASE asm.sections[k] \in Refs
    BY <1>4, <1>8, <2>2
  <2>3. CASE asm.sections[k] \notin Refs
    <3>1. asm.sections[k].kind # "ref"
      BY <2>3 DEF Refs, RefIndices
    <3>2. CompiledSize(asm.sections[k], off) = MinCompiledSize(asm.sections[k])
      BY <1>3, <2>1, <3>1, SizeBounds
    <3> QED BY <1>8, <2>3, <3>1, <3>2 DEF TooSmall
  <2> QED BY <2>2, <2>3
<1>10. Consistent(asm.sections, Q, off)
  BY <1>5, <1>8, <1>9 DEF Consistent
<1> QED BY <1>3, <1>10

(* RefHasTooSmallSetSize is reported only if there is no layout, and the   *)
(* layout found is the least there is, as long as no start of a span       *)
(* speeds up.                                                              *)
LayoutIsBest == steady => LayoutIsLeast /\ ErrorIsReal

THEOREM LayoutStands == Spec => []LayoutIsBest
<1>1. IInv /\ LeastInv => LayoutIsBest
  <2> SUFFICES ASSUME IInv, LeastInv, steady, NEW off \in ConsistentLayouts,
                      phase \in {"done", "too_small"}
               PROVE  /\ phase = "done" => \A m \in Marks : Placed(m) => offset[m] <= off[m]
                      /\ phase # "too_small"
    BY DEF LayoutIsBest, LayoutIsLeast, ErrorIsReal
  <2>1. PICK Q \in Placements(asm.sections) :
           off \in [Marks -> Nat] /\ Consistent(asm.sections, Q, off)
    BY LayoutsAreConsistent
  <2>2. phase # "too_small"
    BY <2>1 DEF LeastInv
  <2>3. ASSUME phase = "done", NEW m \in Marks, Placed(m) PROVE offset[m] <= off[m]
    <3>1. PICK i \in MarkIndices(asm.sections) : asm.sections[i].id = m
      BY <2>3, GrowFacts DEF Placed, PlacedAt, MarkIndices
    <3>2. PICK C \in Placements(asm.sections) :
             Beneath(asm.sections, C, Len_ + 1) /\ Follows(asm.sections, offset, C)
      BY <2>3 DEF LeastInv
    <3>3. offset[m] = C[i] /\ off[m] = Q[i]
      BY <2>1, <3>1, <3>2 DEF Follows, Consistent
    <3>4. /\ i \in 1 .. Len_ + 1 /\ 1 \in 1 .. Len_ + 1 /\ 1 <= i
          /\ C[i] \in Nat /\ Q[i] \in Nat
      BY GrowFacts, PlacementsAreNat
    <3>5. C[i] - C[1] <= Q[i] - Q[1]
      BY <2>1, <3>2, <3>4 DEF Beneath
    <3>6. C[1] = 0 /\ Q[1] = 0
      BY <2>1, <3>2 DEF Beneath, Ascends, Consistent
    <3> QED BY <3>3, <3>4, <3>5, <3>6
  <2> QED BY <2>2, <2>3
<1> QED BY <1>1, LeastInvariance, PTL

-----------------------------------------------------------------------------
(* The emitted code read back. *)

LEMMA Quotients ==
    ASSUME NEW v \in Nat, NEW d \in Nat \ {0}
    PROVE  v \div d \in Nat /\ v % d \in 0 .. d - 1 /\ v = (v \div d) * d + (v % d)
OBVIOUS

LEMMA QuotientOfQuotient ==
    ASSUME NEW v \in Nat, NEW a \in Nat \ {0}, NEW b \in Nat \ {0}
    PROVE  v \div (a * b) = (v \div a) \div b
OBVIOUS

LEMMA SmallQuotient ==
    ASSUME NEW v \in Nat, NEW a \in Nat, NEW b \in Nat \ {0}, v < a * b
    PROVE  v \div b < a
OBVIOUS

LEMMA SmallRemainder ==
    ASSUME NEW v \in Nat, NEW d \in Nat \ {0}, v < d
    PROVE  v % d = v
OBVIOUS

(* Decode is a loop over the digits. *)
LEMMA DecodeSteps ==
    ASSUME NEW digits \in Seq(Bytes)
    PROVE  \E f \in [0 .. Len(digits) -> Nat] :
              /\ f[0] = 0 /\ Decode(digits) = f[Len(digits)]
              /\ \A n \in 1 .. Len(digits) : f[n] = f[n - 1] * Radix + digits[n][2]
<1> DEFINE len == Len(digits)
           step == [n \in 1 .. len |-> [x \in Nat |-> x * Radix + digits[n][2]]]
           IsValue(value) ==
              value = [n \in 0 .. len |-> IF n = 0 THEN 0 ELSE value[n - 1] * Radix + digits[n][2]]
           value == CHOOSE value : IsValue(value)
<1>1. len \in Nat /\ \A n \in 1 .. len : digits[n][2] \in Nat
  BY DEF Bytes
<1>2. step \in [1 .. len -> [Nat -> Nat]]
  <2>1. \A n \in 1 .. len : \A x \in Nat : x * Radix + digits[n][2] \in Nat
    BY <1>1, RadixAssumption
  <2> QED BY <2>1
<1>3. PICK f \in [0 .. len -> Nat] :
         f[0] = 0 /\ \A n \in 1 .. len : f[n] = f[n - 1] * Radix + digits[n][2]
  <2>1. PICK f \in Recursions(len, Nat, 0, step) : TRUE
    <3> HIDE DEF step, len
    <3>1. Recursions(len, Nat, 0, step) # {}
      BY <1>1, <1>2, RecursionUpTo
    <3> QED BY <3>1
  <2>2. f \in [0 .. len -> Nat] /\ f[0] = 0 /\ \A n \in 1 .. len : f[n] = step[n][f[n - 1]]
    BY <2>1 DEF Recursions
  <2>3. ASSUME NEW n \in 1 .. len PROVE f[n - 1] \in Nat
    <3>1. n - 1 \in 0 .. len
      BY <1>1
    <3> QED BY <2>2, <3>1
  <2> QED BY <2>2, <2>3
<1>4. \E g : IsValue(g)
  <2>1. f = [n \in 0 .. len |-> IF n = 0 THEN 0 ELSE f[n - 1] * Radix + digits[n][2]]
    <3>1. ASSUME NEW n \in 0 .. len
          PROVE  f[n] = IF n = 0 THEN 0 ELSE f[n - 1] * Radix + digits[n][2]
      <4>1. CASE n = 0
        BY <1>3, <4>1
      <4>2. CASE n # 0
        <5>1. n \in 1 .. len
          BY <1>1, <4>2
        <5> QED BY <1>3, <4>2, <5>1
      <4> QED BY <4>1, <4>2
    <3>2. f = [n \in 0 .. len |-> f[n]]
      BY <1>3
    <3> QED BY <3>1, <3>2
  <2> QED BY <2>1
<1>5. IsValue(value)
  BY <1>4
<1>6. Decode(digits) = value[len]
  BY DEF Decode
<1> HIDE DEF value
<1>7. value[0] = 0 /\ \A n \in 1 .. len : value[n] = value[n - 1] * Radix + digits[n][2]
  <2>1. 0 \in 0 .. len /\ \A n \in 1 .. len : n \in 0 .. len /\ n # 0
    BY <1>1
  <2> QED BY <1>5, <2>1
<1>8. value \in [0 .. len -> Nat]
  <2> DEFINE T == {n \in 0 .. len : value[n] = f[n]}
  <2>1. 0 \in T
    BY <1>1, <1>3, <1>7
  <2>2. ASSUME NEW n \in 1 .. len, n - 1 \in T PROVE n \in T
    BY <1>1, <1>3, <1>7, <2>2
  <2> HIDE DEF T
  <2>3. 0 .. len \subseteq T
    BY <1>1, <2>1, <2>2, InductionUpTo
  <2>4. \A n \in 0 .. len : value[n] \in Nat
    BY <1>3, <2>3 DEF T
  <2>5. value = [n \in 0 .. len |-> value[n]]
    BY <1>5
  <2> QED BY <2>4, <2>5
<1> QED BY <1>6, <1>7, <1>8

LEMMA Powers ==
    /\ Power[0] = 1 /\ \A n \in 0 .. 2 : Power[n + 1] = Power[n] * Radix
    /\ Power[3] * Radix = Radix * Radix * Radix * Radix
<1>1. Power[0] = 1 /\ Power[1] = Radix /\ Power[2] = Radix * Radix
      /\ Power[3] = Radix * Radix * Radix
  BY DEF Power
<1>2. 1 * Radix = Radix
  BY RadixAssumption
<1>3. ASSUME NEW n \in 0 .. 2 PROVE Power[n + 1] = Power[n] * Radix
  <2>1. CASE n = 0
    BY <1>1, <1>2, <2>1
  <2>2. CASE n = 1
    BY <1>1, <2>2
  <2>3. CASE n = 2
    BY <1>1, <2>3
  <2> QED BY <2>1, <2>2, <2>3
<1> QED BY <1>1, <1>3

(* Digits are read back as the value that was written, if it has so few. *)
LEMMA DigitsReadBack ==
    ASSUME NEW value \in Nat, NEW size \in RefSize, value < Radix * Power[size - 1]
    PROVE  Decode(Digits(value, size)) = value
<1> DEFINE digits == Digits(value, size)
           Upper(n) == value \div Power[size - n]
<1>1. digits \in Seq(Bytes) /\ Len(digits) = size /\ size \in Nat /\ size >= 1 /\ size <= 4
  <2>1. digits \in Seq(Bytes) /\ Len(digits) = size
    BY DigitsType
  <2> HIDE DEF digits
  <2> QED BY <2>1 DEF RefSize
<1>2. \A n \in 1 .. size : digits[n][2] = Upper(n) % Radix
  BY DEF Digits
<1> HIDE DEF digits
<1>3. PICK f \in [0 .. size -> Nat] :
         /\ f[0] = 0 /\ Decode(digits) = f[size]
         /\ \A n \in 1 .. size : f[n] = f[n - 1] * Radix + (Upper(n) % Radix)
  <2> HIDE DEF Upper
  <2>1. PICK f \in [0 .. Len(digits) -> Nat] :
              /\ f[0] = 0 /\ Decode(digits) = f[Len(digits)]
              /\ \A n \in 1 .. Len(digits) : f[n] = f[n - 1] * Radix + digits[n][2]
    BY <1>1, DecodeSteps
  <2> QED BY <1>1, <1>2, <2>1
<1>4. \A n \in 1 .. size : Upper(n) \in Nat
  <2> TAKE n \in 1 .. size
  <2>1. size - n \in 0 .. 3
    BY <1>1
  <2>2. PICK d \in Nat \ {0} : d = Power[size - n]
    BY <2>1, PowerType
  <2> QED BY <2>2, Quotients
<1>5. \A n \in 2 .. size : Upper(n - 1) = Upper(n) \div Radix
  <2> TAKE n \in 2 .. size
  <2>1. size - n \in 0 .. 2 /\ size - (n - 1) = (size - n) + 1 /\ size - n \in 0 .. 3
    BY <1>1
  <2>2. PICK d \in Nat \ {0} : d = Power[size - n]
    BY <2>1, PowerType
  <2>3. Power[size - (n - 1)] = d * Radix
    BY <2>1, <2>2, Powers
  <2>4. value \div (d * Radix) = (value \div d) \div Radix
    BY <2>2, QuotientOfQuotient, RadixAssumption
  <2> QED BY <2>2, <2>3, <2>4
<1>6. Upper(1) < Radix
  <2>1. size - 1 \in 0 .. 3
    BY <1>1
  <2>2. PICK d \in Nat \ {0} : d = Power[size - 1]
    BY <2>1, PowerType
  <2> QED BY <2>2, SmallQuotient, RadixAssumption
<1>7. Upper(size) = value
  <2>1. size - size = 0
    BY <1>1
  <2>2. value \div 1 = value
    OBVIOUS
  <2> QED BY <2>1, <2>2, Powers
<1> HIDE DEF Upper
<1> DEFINE T == {n \in 0 .. size : n = 0 \/ f[n] = Upper(n)}
<1>8. 0 \in T
  BY <1>1
<1>9. ASSUME NEW n \in 1 .. size, n - 1 \in T PROVE n \in T
  <2>1. PICK u \in Nat : u = Upper(n)
    BY <1>4
  <2>2. f[n] = f[n - 1] * Radix + (u % Radix)
    BY <1>3, <2>1
  <2>3. CASE n = 1
    <3>1. f[n - 1] = 0 /\ u < Radix
      BY <1>3, <1>6, <2>1, <2>3
    <3>2. u % Radix = u
      BY <3>1, SmallRemainder, RadixAssumption
    <3>3. 0 * Radix + u = u
      BY RadixAssumption
    <3> QED BY <1>1, <2>1, <2>2, <3>1, <3>2, <3>3
  <2>4. CASE n # 1
    <3>1. n \in 2 .. size /\ n - 1 # 0
      BY <1>1, <2>4
    <3>2. f[n - 1] = u \div Radix
      BY <1>5, <1>9, <2>1, <3>1
    <3>3. u = (u \div Radix) * Radix + (u % Radix)
      <4>1. Radix \in Nat \ {0}
        BY RadixAssumption
      <4> QED BY <2>1, <4>1, Quotients
    <3> QED BY <1>1, <2>1, <2>2, <3>2, <3>3
  <2> QED BY <2>3, <2>4
<1> HIDE DEF T
<1>10. 0 .. size \subseteq T
  BY <1>1, <1>8, <1>9, InductionUpTo
<1>11. f[size] = Upper(size)
  BY <1>1, <1>10 DEF T
<1> QED BY <1>3, <1>7, <1>11 DEF digits

(* A reference that is not too small has room for its value. *)
LEMMA RoomForValue ==
    ASSUME NEW ref \in References, ref.kind = "ref", NEW off \in [Marks -> Nat],
           ~TooSmall(ref, off), Value(ref, off) < Radix * Radix * Radix * Radix
    PROVE  Value(ref, off) < Radix * Power[ImmediateSize(ref, off) - 1]
<1>1. PICK v \in Nat : v = Value(ref, off)
  BY ReferenceTypes
<1>2. PICK size \in RefSize : size = ImmediateSize(ref, off)
  BY ReferenceTypes
<1>3. BytesToHold(v) <= size /\ BytesToHold(v) \in RefSize
  BY <1>1, <1>2, BytesToHoldType DEF TooSmall, ImmediateSize, References, RefSize, Unsized
<1>4. Power[0] = 1 /\ Power[1] = Radix /\ Power[2] = Radix * Radix
      /\ Power[3] = Radix * Radix * Radix
  BY DEF Power
<1>5. /\ Radix * 1 = Radix /\ Radix <= Radix * Radix
      /\ Radix * Radix \in Nat /\ Radix * Radix * Radix \in Nat
      /\ Radix * Radix <= Radix * Radix * Radix
      /\ Radix * (Radix * Radix) = Radix * Radix * Radix
      /\ Radix * (Radix * Radix * Radix) = Radix * Radix * Radix * Radix
  BY RadixAssumption
<1> DEFINE two == Radix * Radix
           three == Radix * Radix * Radix
           four == Radix * Radix * Radix * Radix
<1>6. size \in {1, 2, 3, 4}
  BY DEF RefSize
<1>7. /\ BytesToHold(v) = IF v < Radix THEN 1 ELSE IF v < two THEN 2
                          ELSE IF v < three THEN 3 ELSE 4
      /\ v < four /\ two \in Nat /\ three \in Nat /\ Radix \in Nat
      /\ Radix <= two /\ two <= three
      /\ Radix * Power[0] = Radix /\ Radix * Power[1] = two
      /\ Radix * Power[2] = three /\ Radix * Power[3] = four
  BY <1>1, <1>4, <1>5, RadixAssumption DEF BytesToHold
<1> HIDE DEF two, three, four
<1>8. CASE size = 1
  BY <1>1, <1>2, <1>3, <1>7, <1>8
<1>9. CASE size = 2
  BY <1>1, <1>2, <1>3, <1>7, <1>9
<1>10. CASE size = 3
  BY <1>1, <1>2, <1>3, <1>7, <1>10
<1>11. CASE size = 4
  BY <1>1, <1>2, <1>3, <1>7, <1>11
<1> QED BY <1>6, <1>8, <1>9, <1>10, <1>11

LEMMA ReferenceReadsBack ==
    ASSUME NEW ref \in References, ref.kind = "ref", offset \in [Marks -> Nat],
           ~TooSmall(ref, offset), Value(ref, offset) < Radix * Radix * Radix * Radix
    PROVE  ReadsAs(Emitted(ref), ref, Value(ref, offset))
<1>1. PICK v \in Nat : v = Value(ref, offset)
  BY ReferenceTypes
<1>2. PICK size \in RefSize : size = ImmediateSize(ref, offset)
  BY ReferenceTypes
<1>3. CASE IsPush0(ref, offset)
  <2>1. Emitted(ref) = << <<"push", 0>> >> /\ ref.pushed /\ v = 0 /\ ref.setSize = Unsized
    BY <1>1, <1>3 DEF Emitted, IsPush0
  <2>2. Tail(Emitted(ref)) = <<>> /\ Len(<<>>) = 0 /\ <<>> \in Seq(Bytes)
    BY <2>1
  <2>3. Decode(<<>>) = 0
    BY <2>2, DecodeSteps
  <2> QED BY <1>1, <2>1, <2>2, <2>3 DEF ReadsAs
<1>4. CASE ~IsPush0(ref, offset)
  <2> DEFINE digits == Digits(v, size)
             opcode == << <<"push", size>> >>
  <2>1. digits \in Seq(Bytes) /\ Len(digits) = size /\ size \in Nat
    <3>1. digits \in Seq(Bytes) /\ Len(digits) = size
      BY DigitsType
    <3> HIDE DEF digits
    <3> QED BY <3>1 DEF RefSize
  <2>2. \A d \in 1 .. size : digits[d][1] = "digit"
    BY DEF Digits
  <2>3. Decode(digits) = v
    BY <1>1, <1>2, RoomForValue, DigitsReadBack
  <2>4. ref.setSize # Unsized => size = ref.setSize
    BY <1>2 DEF ImmediateSize
  <2>5. Emitted(ref) = (IF ref.pushed THEN opcode ELSE <<>>) \o digits
    BY <1>1, <1>2, <1>4 DEF Emitted
  <2> HIDE DEF digits
  <2>6. CASE ref.pushed
    <3>1. opcode \in Seq(Bytes) /\ Len(opcode) = 1 /\ opcode[1] = <<"push", size>>
      BY <2>1 DEF Bytes
    <3> HIDE DEF opcode
    <3>2. /\ opcode \o digits \in Seq(Bytes) /\ Len(opcode \o digits) = 1 + size
          /\ (opcode \o digits)[1] = <<"push", size>>
          /\ \A k \in 1 .. size : (opcode \o digits)[k + 1] = digits[k]
      <4>1. /\ opcode \o digits \in Seq(Bytes)
            /\ Len(opcode \o digits) = Len(opcode) + Len(digits)
            /\ \A k \in 1 .. Len(opcode) + Len(digits) :
                  (opcode \o digits)[k] = IF k <= Len(opcode) THEN opcode[k]
                                          ELSE digits[k - Len(opcode)]
        BY <2>1, <3>1, ConcatProperties
      <4>2. (opcode \o digits)[1] = <<"push", size>>
        BY <2>1, <3>1, <4>1
      <4>3. ASSUME NEW k \in 1 .. size PROVE (opcode \o digits)[k + 1] = digits[k]
        <5>1. k + 1 \in 1 .. 1 + size /\ ~(k + 1 <= 1) /\ k + 1 - 1 = k
          BY <2>1
        <5> QED BY <2>1, <3>1, <4>1, <5>1
      <4> QED BY <2>1, <3>1, <4>1, <4>2, <4>3
    <3>4. Emitted(ref) \in Seq(Bytes) /\ Emitted(ref)[1] = <<"push", size>>
      BY <2>1, <2>5, <2>6, <3>1, <3>2
    <3> DEFINE rest == Tail(Emitted(ref))
    <3>5. rest \in Seq(Bytes) /\ Len(rest) = size /\ \A k \in 1 .. size : rest[k] = digits[k]
      <4>1. Emitted(ref) # <<>> /\ Len(Emitted(ref)) = 1 + size
        BY <2>1, <2>5, <2>6, <3>2
      <4>2. rest \in Seq(Bytes) /\ Len(rest) = size
            /\ \A k \in 1 .. size : rest[k] = Emitted(ref)[k + 1]
        BY <2>1, <3>4, <4>1, HeadTailProperties
      <4>3. ASSUME NEW k \in 1 .. size PROVE Emitted(ref)[k + 1] = digits[k]
        BY <2>1, <2>5, <2>6, <3>2
      <4> QED BY <4>2, <4>3
    <3>3. rest = digits
      BY <2>1, <3>5, SeqEqual
    <3> HIDE DEF rest
    <3> QED BY <1>1, <2>1, <2>2, <2>3, <2>4, <2>6, <3>3, <3>4 DEF ReadsAs, rest
  <2>7. CASE ~ref.pushed
    <3>1. Emitted(ref) = digits
      BY <2>1, <2>5, <2>7, ConcatEmptySeq
    <3> QED BY <1>1, <2>1, <2>2, <2>3, <2>4, <2>7, <3>1 DEF ReadsAs
  <2> QED BY <2>6, <2>7
<1> QED BY <1>3, <1>4

(* What has been emitted of each section is where the layout put it.       *)
WrittenInv ==
    phase \in {"emit", "done"} =>
        \A i \in 1 .. Len_ : i < index =>
            \A k \in 1 .. CompiledSize(asm.sections[i], offset) :
                result[Pos(starts, here, i) + k] = EmissionOf(asm.sections[i])[k]

LEMMA ConcatParts ==
    ASSUME NEW s \in Seq(Bytes), NEW t \in Seq(Bytes)
    PROVE  /\ s \o t \in Seq(Bytes) /\ Len(s) \in Nat /\ Len(t) \in Nat
           /\ Len(s \o t) = Len(s) + Len(t)
           /\ \A p \in 1 .. Len(s) : (s \o t)[p] = s[p]
           /\ \A k \in 1 .. Len(t) : (s \o t)[Len(s) + k] = t[k]
<1>1. /\ s \o t \in Seq(Bytes) /\ Len(s \o t) = Len(s) + Len(t)
      /\ \A p \in 1 .. Len(s) + Len(t) :
            (s \o t)[p] = IF p <= Len(s) THEN s[p] ELSE t[p - Len(s)]
  BY ConcatProperties
<1>2. Len(s) \in Nat /\ Len(t) \in Nat
  BY LenProperties
<1>3. ASSUME NEW k \in 1 .. Len(t) PROVE (s \o t)[Len(s) + k] = t[k]
  <2>1. Len(s) + k \in 1 .. Len(s) + Len(t) /\ ~(Len(s) + k <= Len(s)) /\ Len(s) + k - Len(s) = k
    BY <1>2
  <2> QED BY <1>1, <2>1
<1>4. \A p \in 1 .. Len(s) : p \in 1 .. Len(s) + Len(t) /\ p <= Len(s)
  BY <1>2
<1> QED BY <1>1, <1>2, <1>3, <1>4

LEMMA EmissionUnchanged ==
    ASSUME UNCHANGED offset, NEW s PROVE EmissionOf(s)' = EmissionOf(s)
BY DEF EmissionOf, Emitted

LEMMA WrittenStep == ASSUME IInv, WrittenInv, EmitPlain \/ EmitReference PROVE WrittenInv'
<1>1. /\ phase = "emit" /\ index <= Len_ /\ phase' = "emit" /\ index' = index + 1
      /\ UNCHANGED <<asm, here, offset, converged, starts>>
      /\ result' = result \o EmissionOf(Section)
  BY EmitAppends
<1>2. EmissionOf(Section) \in Seq(Bytes) /\ Len(EmissionOf(Section)) = CompiledSize(Section, offset)
  <2>1. Section \in Sections /\ (Section.kind \in {"ops", "data"} => Section.start <= Section.end)
    BY <1>1, SectionType DEF IInv, TypeInv, AssemblerTypeOK
  <2> QED BY <2>1, Facts, EmissionType
<1>3. PICK e \in Seq(Bytes), res \in Seq(Bytes) : e = EmissionOf(Section) /\ res = result
  BY <1>2, Facts
<1>4. /\ \A p \in 1 .. Len(res) : (res \o e)[p] = res[p]
      /\ \A k \in 1 .. Len(e) : (res \o e)[Len(res) + k] = e[k]
  BY ConcatParts
<1> SUFFICES ASSUME NEW i \in 1 .. Len_, i < index',
                    NEW k \in 1 .. CompiledSize(asm.sections[i], offset)
             PROVE  result'[Pos(starts, here, i) + k] = EmissionOf(asm.sections[i])[k]
  <2>1. /\ asm.sections' = asm.sections /\ Len_' = Len_ /\ phase' = "emit"
        /\ offset' = offset /\ starts' = starts /\ here' = here
    BY <1>1 DEF Len_
  <2>2. \A s : EmissionOf(s)' = EmissionOf(s)
    BY <2>1, EmissionUnchanged
  <2> QED BY <2>1, <2>2 DEF WrittenInv
<1>5. CASE i = index
  <2>1. asm.sections[i] = Section /\ Len(result) = Pos(starts, here, i)
    BY <1>1, <1>5, EmitFacts
  <2> QED BY <1>1, <1>2, <1>3, <1>4, <2>1
<1>6. CASE i # index
  <2>1. i < index /\ i \in Nat /\ i + 1 <= index /\ index \in Nat
    BY <1>1, <1>6, Facts
  <2>2. result[Pos(starts, here, i) + k] = EmissionOf(asm.sections[i])[k]
    BY <1>1, <2>1 DEF WrittenInv
  <2>3. /\ Pos(starts, here, i + 1) = Pos(starts, here, i) + CompiledSize(asm.sections[i], offset)
        /\ Len(starts) = Len_ /\ Sorted(starts, here)
        /\ Len(result) = Pos(starts, here, index) /\ index \in 1 .. Len(starts)
    BY <1>1, EmitFacts DEF Chained
  <2>4. Pos(starts, here, i + 1) <= Len(result)
    BY <2>1, <2>3 DEF Sorted
  <2>5. Pos(starts, here, i) \in Nat
    <3>1. i \in 1 .. Len(starts)
      BY <2>1, <2>3
    <3>2. starts[i] \in Nat
      BY <3>1, Facts
    <3>3. Pos(starts, here, i) = starts[i]
      BY <3>1 DEF Pos
    <3> QED BY <3>2, <3>3
  <2>6. CompiledSize(asm.sections[i], offset) \in Nat
    <3>1. asm.sections[i] \in Sections
          /\ (asm.sections[i].kind \in {"ops", "data"}
                => asm.sections[i].start <= asm.sections[i].end)
      BY Facts DEF IInv, TypeInv, AssemblerTypeOK, IsAsm, Len_
    <3> QED BY <3>1, Facts, SizesAreNat
  <2>7. Pos(starts, here, i) + k \in 1 .. Len(result)
    <3>1. PICK q \in Nat : q = CompiledSize(asm.sections[i], offset)
      BY <2>6
    <3>2. PICK p \in Nat : p = Pos(starts, here, i)
      BY <2>5
    <3>3. PICK n \in Nat : n = Len(result)
      BY Facts, LenProperties
    <3>4. p + q <= n /\ k \in 1 .. q
      BY <2>3, <2>4, <3>1, <3>2, <3>3
    <3> QED BY <3>2, <3>3, <3>4
  <2> QED BY <1>1, <1>3, <1>4, <2>2, <2>7
<1> QED BY <1>5, <1>6

LEMMA WrittenInvariance == Spec => []WrittenInv
<1>1. AssemblerInit => WrittenInv
  BY DEF AssemblerInit, WrittenInv
<1>2. IInv /\ WrittenInv /\ [Next]_asmVars => WrittenInv'
  <2> SUFFICES ASSUME IInv, WrittenInv, [Next]_asmVars PROVE WrittenInv'
    OBVIOUS
  <2>1. CASE ClientMark \/ ClientOp \/ ClientData \/ ClientReference
    BY <2>1 DEF ClientMark, ClientOp, ClientData, ClientReference, Client, WrittenInv
  <2>2. CASE ClientAssemble \/ FirstPass \/ NextPass \/ PlaceMinimum \/ NoConvergence
    BY <2>2 DEF ClientAssemble, Assemble, FirstPass, NextPass, BeginPass, PlaceMinimum,
                NoConvergence, WrittenInv
  <2>3. CASE Place
    BY <2>3 DEF Place, WrittenInv
  <2>4. CASE Converged
    <3>1. index' = 1
      BY <2>4 DEF Converged
    <3>2. \A i \in 1 .. Len_' : ~(i < index')
      BY <3>1
    <3> QED BY <3>2 DEF WrittenInv
  <2>5. CASE EmitPlain \/ EmitReference
    BY <2>5, WrittenStep
  <2>6. CASE Finish \/ UNCHANGED asmVars
    <3>1. UNCHANGED <<asm, index, here, offset, starts, result>> /\ (phase' = phase \/ phase = "emit")
      BY <2>6 DEF Finish, layoutVars, asmVars
    <3>2. \A s : EmissionOf(s)' = EmissionOf(s)
      BY <3>1, EmissionUnchanged
    <3> QED BY <3>1, <3>2 DEF WrittenInv, Len_
  <2> QED BY <2>1, <2>2, <2>3, <2>4, <2>5, <2>6 DEF Next, LayoutStep
<1> QED BY <1>1, <1>2, Invariance, PTL DEF Spec

-----------------------------------------------------------------------------
(* Literals.  The spans of the sections tile the bytes pushed: B gives the *)
(* bytes pushed before each section.                                       *)
Literal(s) == s.kind \in {"ops", "data"}

Tiles(secs, bytes, B) ==
    /\ B[1] = 0 /\ B[Len(secs) + 1] = bytes
    /\ \A k \in 1 .. Len(secs) :
          IF Literal(secs[k]) THEN secs[k].start = B[k] /\ secs[k].end = B[k + 1]
          ELSE B[k + 1] = B[k]

LiteralsUpTo(res, b) ==
    LET literals == {p \in 1 .. Len(res) : res[p][1] = "literal"}
    IN /\ {res[p][2] : p \in literals} = 0 .. b - 1
       /\ \A p, q \in literals : p < q => res[p][2] < res[q][2]

ByteInv ==
    \E B \in Placements(asm.sections) :
        /\ Tiles(asm.sections, asm.bytes, B)
        /\ phase \in {"emit", "done"} => LiteralsUpTo(result, B[index])

(* Sections are pushed behind the first c, which stay as they are.         *)
Continues(secs, B, c, secs2, bytes2) ==
    /\ c \in 0 .. Len(secs) /\ c <= Len(secs2)
    /\ \A k \in 1 .. c : secs2[k] = secs[k]
    /\ \/ bytes2 = B[c + 1] /\ \A k \in c + 1 .. Len(secs2) : ~Literal(secs2[k])
       \/ /\ Len(secs2) = c + 1 /\ Literal(secs2[c + 1])
          /\ secs2[c + 1].start = B[c + 1] /\ secs2[c + 1].end = bytes2

LEMMA TilesOn ==
    ASSUME NEW secs \in Seq(Sections), NEW secs2 \in Seq(Sections),
           NEW bytes \in Nat, NEW bytes2 \in Nat,
           NEW B \in Placements(secs), Tiles(secs, bytes, B),
           NEW c, Continues(secs, B, c, secs2, bytes2)
    PROVE  \E B2 \in Placements(secs2) : Tiles(secs2, bytes2, B2)
<1> DEFINE B2 == [k \in 1 .. Len(secs2) + 1 |-> IF k <= c + 1 THEN B[k] ELSE bytes2]
<1>1. /\ c \in Nat /\ Len(secs) \in Nat /\ Len(secs2) \in Nat /\ c <= Len(secs)
      /\ c <= Len(secs2) /\ \A k \in 1 .. c : secs2[k] = secs[k]
  BY DEF Continues
<1>2. \A k \in 1 .. c + 1 : B[k] \in Nat
  BY <1>1 DEF Placements
<1>3. B2 \in Placements(secs2)
  BY <1>1, <1>2 DEF Placements
<1>4. \A k \in 1 .. c + 1 : B2[k] = B[k]
  BY <1>1
<1>5. \A k \in c + 2 .. Len(secs2) + 1 : B2[k] = bytes2
  BY <1>1
<1> HIDE DEF B2
<1>6. B2[1] = 0
  BY <1>1, <1>4 DEF Tiles
<1>7. B2[Len(secs2) + 1] = bytes2
  <2>1. CASE Len(secs2) = c
    BY <1>1, <1>4, <2>1 DEF Continues
  <2>2. CASE Len(secs2) # c
    BY <1>1, <1>5, <2>2
  <2> QED BY <2>1, <2>2
<1>8. ASSUME NEW k \in 1 .. Len(secs2)
      PROVE  IF Literal(secs2[k]) THEN secs2[k].start = B2[k] /\ secs2[k].end = B2[k + 1]
             ELSE B2[k + 1] = B2[k]
  <2>1. CASE k <= c
    <3>1. /\ secs2[k] = secs[k] /\ k \in 1 .. Len(secs)
          /\ B2[k] = B[k] /\ B2[k + 1] = B[k + 1]
      BY <1>1, <1>4, <2>1
    <3> QED BY <3>1 DEF Tiles
  <2>2. CASE k > c
    <3>1. k \in c + 1 .. Len(secs2) /\ B2[k + 1] = bytes2 /\ B2[c + 1] = B[c + 1]
      <4>1. /\ k \in c + 1 .. Len(secs2) /\ k + 1 \in c + 2 .. Len(secs2) + 1
            /\ c + 1 \in 1 .. c + 1
        BY <1>1, <2>2
      <4> QED BY <1>4, <1>5, <4>1
    <3>2. k = c + 1 \/ B2[k] = bytes2
      BY <1>1, <1>5, <2>2
    <3> QED BY <1>1, <3>1, <3>2 DEF Continues
  <2> QED BY <1>1, <2>1, <2>2
<1> QED BY <1>3, <1>6, <1>7, <1>8 DEF Tiles

LEMMA ClientBytes ==
    ASSUME IInv, IInv', ByteInv, ClientMark \/ ClientOp \/ ClientData \/ ClientReference
    PROVE  ByteInv'
<1> DEFINE len == Len(asm.sections)
<1>1. /\ asm.sections \in Seq(Sections) /\ asm.bytes \in Nat /\ len \in Nat
      /\ asm.sections' \in Seq(Sections) /\ asm.bytes' \in Nat /\ phase' = "push"
  <2>1. phase' = "push"
    BY DEF ClientMark, ClientOp, ClientData, ClientReference, Client
  <2> QED BY <2>1 DEF IInv, TypeInv, AssemblerTypeOK, IsAsm
<1>2. PICK B \in Placements(asm.sections) : Tiles(asm.sections, asm.bytes, B)
  BY DEF ByteInv
<1>3. B[len + 1] = asm.bytes /\ len + 1 \in 1 .. len + 1
  BY <1>1, <1>2 DEF Tiles
<1>4. \E c : Continues(asm.sections, B, c, asm.sections', asm.bytes')
  <2>1. ASSUME NEW kind \in {"ops", "data"}, NEW n \in Nat, asm' = PushBytes(asm, kind, n)
        PROVE  \E c : Continues(asm.sections, B, c, asm.sections', asm.bytes')
    <3> DEFINE end == asm.bytes + n
               new == [kind |-> kind, start |-> asm.bytes, end |-> end]
    <3>1. asm.bytes' = end
      BY <2>1 DEF PushBytes
    <3>2. CASE len > 0 /\ asm.sections[len].kind = kind
      <4>1. asm.sections' = [asm.sections EXCEPT ![len] = [asm.sections[len] EXCEPT !.end = end]]
        BY <2>1, <3>2 DEF PushBytes
      <4>2. asm.sections[len] \in ByteSections /\ len \in 1 .. len
        BY <1>1, <3>2, KindIsType
      <4> DEFINE last == [asm.sections[len] EXCEPT !.end = end]
      <4>3. last.kind = kind /\ last.start = asm.sections[len].start /\ last.end = end
        BY <3>2, <4>2 DEF ByteSections
      <4>4. asm.sections[len].start = B[len]
        BY <1>2, <3>2, <4>2 DEF Tiles, Literal
      <4> HIDE DEF last
      <4>5. /\ Len(asm.sections') = len /\ asm.sections'[len] = last
            /\ \A k \in 1 .. len - 1 : asm.sections'[k] = asm.sections[k]
        BY <1>1, <4>1, <4>2 DEF last
      <4>6. Continues(asm.sections, B, len - 1, asm.sections', asm.bytes')
        <5>1. len - 1 \in 0 .. len /\ len - 1 <= len /\ len = len - 1 + 1
          BY <1>1, <3>2
        <5> HIDE DEF len
        <5> QED BY <3>1, <4>3, <4>4, <4>5, <5>1 DEF Continues, Literal, len
      <4> QED BY <4>6
    <3>3. CASE ~(len > 0 /\ asm.sections[len].kind = kind)
      <4>1. asm.sections' = Append(asm.sections, new)
        BY <2>1, <3>3 DEF PushBytes
      <4>2. /\ Len(asm.sections') = len + 1 /\ asm.sections'[len + 1] = new
            /\ \A k \in 1 .. len : asm.sections'[k] = asm.sections[k]
        BY <1>1, <4>1
      <4>3. new.kind = kind /\ new.start = asm.bytes /\ new.end = end
        OBVIOUS
      <4> HIDE DEF new
      <4>4. Continues(asm.sections, B, len, asm.sections', asm.bytes')
        BY <1>1, <1>3, <3>1, <4>2, <4>3 DEF Continues, Literal
      <4> QED BY <4>4
    <3> QED BY <3>2, <3>3
  <2>2. ASSUME NEW more \in Seq(Sections), \A k \in 1 .. Len(more) : ~Literal(more[k]),
               asm.sections' = asm.sections \o more, asm.bytes' = asm.bytes
        PROVE  \E c : Continues(asm.sections, B, c, asm.sections', asm.bytes')
    <3>1. /\ Len(asm.sections') = len + Len(more) /\ Len(more) \in Nat
          /\ \A k \in 1 .. len + Len(more) : asm.sections'[k] =
                IF k <= len THEN asm.sections[k] ELSE more[k - len]
      BY <1>1, <2>2, ConcatProperties
    <3>2. \A k \in 1 .. len : asm.sections'[k] = asm.sections[k]
      BY <1>1, <3>1
    <3>3. ASSUME NEW k \in len + 1 .. Len(asm.sections') PROVE ~Literal(asm.sections'[k])
      <4>1. k \in 1 .. len + Len(more) /\ ~(k <= len) /\ k - len \in 1 .. Len(more)
        BY <1>1, <3>1
      <4> QED BY <2>2, <3>1, <4>1
    <3>4. Continues(asm.sections, B, len, asm.sections', asm.bytes')
      BY <1>1, <1>3, <2>2, <3>1, <3>2, <3>3 DEF Continues
    <3> QED BY <3>4
  <2>3. CASE ClientMark
    <3>1. PICK id \in Marks : asm' = PushMark(asm, id)
      BY <2>3 DEF ClientMark, Client
    <3> DEFINE mark == [kind |-> "mark", id |-> id]
               more == <<mark>>
    <3>2. mark \in Sections /\ ~Literal(mark)
      BY DEF Sections, MarkSections, Literal
    <3>3. asm.sections' = Append(asm.sections, mark) /\ asm.bytes' = asm.bytes
      BY <3>1 DEF PushMark, PushSection, IInv, TypeInv, AssemblerTypeOK, IsAsm
    <3> HIDE DEF mark
    <3>4. more \in Seq(Sections) /\ Len(more) = 1 /\ more[1] = mark
      BY <3>2
    <3>5. asm.sections' = asm.sections \o more
      BY <1>1, <3>2, <3>3, AppendIsConcat
    <3> HIDE DEF more
    <3>6. \A k \in 1 .. Len(more) : ~Literal(more[k])
      BY <3>2, <3>4
    <3> QED BY <2>2, <3>3, <3>4, <3>5, <3>6
  <2>4. CASE ClientOp
    <3>1. asm' = PushBytes(asm, "ops", 1)
      BY <2>4 DEF ClientOp, Client, PushOps
    <3> QED BY <2>1, <3>1
  <2>5. CASE ClientData
    <3>1. PICK n \in Nat : asm' = PushBytes(asm, "data", n)
      BY <2>5, ClientAssumption DEF ClientData, Client, PushData
    <3> QED BY <2>1, <3>1
  <2>6. CASE ClientReference
    <3> DEFINE Ref(from, to, k) == [kind |-> "ref", from |-> from, to |-> to,
                                    setSize |-> k.setSize, pushed |-> k.pushed]
    <3>1. PICK from \in Marks \cup {Nowhere}, to \in Marks, k \in RefKinds :
             asm' = PushReferences(asm, Ref(from, to, k), k.times)
      BY <2>6 DEF ClientReference, Client
    <3>2. PICK ref \in Sections, n \in Nat :
             ref.kind = "ref" /\ asm' = PushReferences(asm, ref, n)
      <4>1. Ref(from, to, k) \in References /\ k.times \in Nat
        BY ClientAssumption DEF References
      <4>2. Ref(from, to, k).kind = "ref"
        OBVIOUS
      <4> QED BY <3>1, <4>1, <4>2 DEF Sections
    <3> DEFINE more == [i \in 1 .. n |-> ref]
    <3>3. more \in Seq(Sections) /\ Len(more) = n /\ \A i \in 1 .. n : more[i] = ref
      BY <3>2
    <3>4. asm.sections' = asm.sections \o more /\ asm.bytes' = asm.bytes
      BY <3>2 DEF PushReferences, IInv, TypeInv, AssemblerTypeOK, IsAsm
    <3>5. ~Literal(ref)
      BY <3>2 DEF Literal
    <3> HIDE DEF more
    <3>6. \A j \in 1 .. Len(more) : ~Literal(more[j])
      BY <3>3, <3>5
    <3> QED BY <2>2, <3>3, <3>4, <3>6
  <2> QED BY <2>3, <2>4, <2>5, <2>6
<1>5. \E B2 \in Placements(asm.sections') : Tiles(asm.sections', asm.bytes', B2)
  BY <1>1, <1>2, <1>4, TilesOn
<1> QED BY <1>1, <1>5 DEF ByteInv, Placements

LEMMA LiteralsStay ==
    ASSUME NEW res \in Seq(Bytes), NEW e \in Seq(Bytes), NEW b \in Nat,
           LiteralsUpTo(res, b), \A k \in 1 .. Len(e) : e[k][1] # "literal"
    PROVE  LiteralsUpTo(res \o e, b)
<1> DEFINE Lits(s) == {p \in 1 .. Len(s) : s[p][1] = "literal"}
           Values(s) == {s[p][2] : p \in Lits(s)}
<1>1. PICK out : out = res \o e
  OBVIOUS
<1>2. /\ Len(out) = Len(res) + Len(e) /\ Len(res) \in Nat /\ Len(e) \in Nat
      /\ \A p \in 1 .. Len(res) : out[p] = res[p]
      /\ \A k \in 1 .. Len(e) : out[Len(res) + k] = e[k]
  BY <1>1, ConcatParts
<1>3. \A p \in Lits(res) : p \in Lits(out) /\ out[p] = res[p]
  BY <1>2
<1>4. ASSUME NEW p \in Lits(out) PROVE p \in Lits(res)
  <2>1. CASE p <= Len(res)
    BY <1>2, <2>1
  <2>2. CASE ~(p <= Len(res))
    <3>1. p - Len(res) \in 1 .. Len(e) /\ Len(res) + (p - Len(res)) = p
      BY <1>2, <2>2
    <3>2. out[p] = e[p - Len(res)]
      BY <1>2, <3>1
    <3> QED BY <3>1, <3>2
  <2> QED BY <2>1, <2>2
<1>5. /\ Values(res) = 0 .. b - 1
      /\ \A p, q \in Lits(res) : p < q => res[p][2] < res[q][2]
  BY DEF LiteralsUpTo
<1> HIDE DEF Lits
<1>6. Lits(out) = Lits(res)
  BY <1>3, <1>4
<1>7. /\ Values(out) = 0 .. b - 1
      /\ \A p, q \in Lits(out) : p < q => out[p][2] < out[q][2]
  BY <1>3, <1>5, <1>6
<1> QED BY <1>1, <1>7 DEF LiteralsUpTo, Lits

LiteralsFrom(e, b, c) ==
    b <= c /\ Len(e) = c - b /\ \A k \in 1 .. Len(e) : e[k] = <<"literal", b + k - 1>>

LEMMA LiteralsGrow ==
    ASSUME NEW res \in Seq(Bytes), NEW e \in Seq(Bytes), NEW b \in Nat, NEW c \in Nat,
           LiteralsUpTo(res, b), LiteralsFrom(e, b, c)
    PROVE  LiteralsUpTo(res \o e, c)
<1> USE DEF LiteralsFrom
<1> DEFINE Lits(s) == {p \in 1 .. Len(s) : s[p][1] = "literal"}
<1>1. PICK out, len : out = res \o e /\ len = Len(res)
  OBVIOUS
<1>2. /\ len \in Nat /\ Len(out) = len + (c - b) /\ c - b \in Nat
      /\ \A p \in 1 .. len : out[p] = res[p]
      /\ \A k \in 1 .. c - b : out[len + k] = e[k]
  <2>1. /\ Len(res) \in Nat /\ Len(res \o e) = Len(res) + Len(e)
        /\ \A p \in 1 .. Len(res) : (res \o e)[p] = res[p]
        /\ \A k \in 1 .. Len(e) : (res \o e)[Len(res) + k] = e[k]
    BY ConcatParts
  <2> QED BY <1>1, <2>1
<1> DEFINE New == len + 1 .. len + (c - b)
<1>3. ASSUME NEW p \in New PROVE p \in Lits(out) /\ out[p][2] = b + (p - len) - 1
  <2>1. /\ p - len \in 1 .. c - b /\ p \in 1 .. Len(out) /\ len + (p - len) = p
    BY <1>2
  <2>2. out[p] = <<"literal", b + (p - len) - 1>>
    BY <1>2, <2>1
  <2> QED BY <2>1, <2>2
<1>4. ASSUME NEW p \in Lits(res) PROVE p \in Lits(out) /\ out[p] = res[p] /\ p \in 1 .. len
  <2>1. p \in 1 .. len /\ p \in 1 .. Len(out)
    BY <1>1, <1>2
  <2> QED BY <1>2, <2>1
<1>5. ASSUME NEW p \in Lits(out) PROVE p \in Lits(res) \/ p \in New
  <2>1. p \in 1 .. len \/ p \in New
    BY <1>2
  <2>2. p \in 1 .. len => p \in Lits(res)
    BY <1>1, <1>2
  <2> QED BY <2>1, <2>2
<1>6. /\ {res[p][2] : p \in Lits(res)} = 0 .. b - 1
      /\ \A p, q \in Lits(res) : p < q => res[p][2] < res[q][2]
  BY DEF LiteralsUpTo
<1>7. LiteralsUpTo(out, c) <=>
         /\ {out[p][2] : p \in Lits(out)} = 0 .. c - 1
         /\ \A p, q \in Lits(out) : p < q => out[p][2] < out[q][2]
  BY DEF LiteralsUpTo
<1> HIDE DEF Lits
<1> DEFINE val == [p \in Lits(out) |-> out[p][2]]
<1>8. \A p \in Lits(out) : val[p] = out[p][2]
  OBVIOUS
<1> HIDE DEF val
<1>9. ASSUME NEW p \in Lits(res) PROVE val[p] = res[p][2] /\ val[p] \in 0 .. b - 1
  BY <1>4, <1>6, <1>8
<1>10. ASSUME NEW p \in New PROVE val[p] = b + (p - len) - 1 /\ val[p] \in b .. c - 1
  <2>1. val[p] = b + (p - len) - 1
    BY <1>3, <1>8
  <2>2. p - len \in 1 .. c - b
    BY <1>2
  <2> QED BY <2>1, <2>2
<1>11. ASSUME NEW p \in Lits(out) PROVE val[p] \in 0 .. c - 1
  <2>1. val[p] \in 0 .. b - 1 \/ val[p] \in b .. c - 1
    BY <1>5, <1>9, <1>10
  <2> QED BY <2>1
<1>12. ASSUME NEW x \in 0 .. c - 1 PROVE \E p \in Lits(out) : val[p] = x
  <2>1. CASE x < b
    <3>1. x \in 0 .. b - 1
      BY <2>1
    <3>2. PICK p \in Lits(res) : res[p][2] = x
      BY <1>6, <3>1
    <3> QED BY <1>4, <1>9, <3>2
  <2>2. CASE x >= b
    <3>1. PICK p \in New : p = len + (1 + (x - b))
      BY <1>2, <2>2
    <3>2. b + (p - len) - 1 = x
      BY <1>2, <2>2, <3>1, SMTT(20)
    <3> QED BY <1>3, <1>10, <3>2
  <2> QED BY <2>1, <2>2
<1>13. ASSUME NEW p \in Lits(out), NEW q \in Lits(out), p < q PROVE val[p] < val[q]
  <2>1. CASE p \in Lits(res) /\ q \in Lits(res)
    BY <1>6, <1>9, <1>13, <2>1
  <2>2. CASE p \in Lits(res) /\ q \in New
    <3>1. val[p] \in 0 .. b - 1 /\ val[q] \in b .. c - 1
      BY <1>9, <1>10, <2>2
    <3> QED BY <3>1
  <2>3. CASE p \in New /\ q \in Lits(res)
    <3>1. q \in 1 .. len
      BY <1>4, <2>3
    <3> QED BY <1>2, <1>13, <2>3, <3>1
  <2>4. CASE p \in New /\ q \in New
    <3>1. val[p] = b + (p - len) - 1 /\ val[q] = b + (q - len) - 1
      BY <1>10, <2>4
    <3> QED BY <1>2, <1>13, <2>4, <3>1
  <2> QED BY <1>5, <2>1, <2>2, <2>3, <2>4
<1>14. {out[p][2] : p \in Lits(out)} = 0 .. c - 1
  <2>1. PICK range : range = 0 .. c - 1
    OBVIOUS
  <2>2. \A p \in Lits(out) : out[p][2] \in range
    BY <1>8, <1>11, <2>1
  <2>3. ASSUME NEW x \in range PROVE \E p \in Lits(out) : out[p][2] = x
    <3>1. PICK p \in Lits(out) : val[p] = x
      BY <1>12, <2>1
    <3> QED BY <1>8, <3>1
  <2>4. {out[p][2] : p \in Lits(out)} = range
    BY <2>2, <2>3, Zenon
  <2> QED BY <2>1, <2>4
<1> QED BY <1>1, <1>7, <1>8, <1>13, <1>14

LEMMA NoLiteralsInReferences ==
    ASSUME NEW ref \in References, ref.kind = "ref", offset \in [Marks -> Nat]
    PROVE  \A k \in 1 .. Len(Emitted(ref)) : Emitted(ref)[k][1] # "literal"
<1>1. CASE IsPush0(ref, offset)
  <2>1. Emitted(ref) = << <<"push", 0>> >>
    BY <1>1 DEF Emitted
  <2> QED BY <2>1
<1>2. CASE ~IsPush0(ref, offset)
  <2> DEFINE size == ImmediateSize(ref, offset)
             opcode == IF ref.pushed THEN << <<"push", size>> >> ELSE <<>>
             digits == Digits(Value(ref, offset), size)
  <2>1. Emitted(ref) = opcode \o digits
    BY <1>2 DEF Emitted
  <2>2. size \in RefSize /\ size \in Nat /\ Value(ref, offset) \in Nat
    BY ReferenceTypes DEF RefSize
  <2>3. digits \in Seq(Bytes) /\ Len(digits) = size
    BY <2>2, DigitsType
  <2>4. \A k \in 1 .. Len(digits) : digits[k][1] = "digit"
    BY <2>3 DEF Digits
  <2>5. opcode \in Seq(Bytes) /\ \A k \in 1 .. Len(opcode) : opcode[k][1] = "push"
    <3>1. <<"push", size>> \in Bytes
      BY <2>2 DEF Bytes
    <3> QED BY <3>1
  <2> HIDE DEF opcode, digits, size
  <2>6. /\ Len(opcode \o digits) = Len(opcode) + Len(digits)
        /\ \A k \in 1 .. Len(opcode) + Len(digits) : (opcode \o digits)[k] =
              IF k <= Len(opcode) THEN opcode[k] ELSE digits[k - Len(opcode)]
    BY <2>3, <2>5, ConcatProperties
  <2> SUFFICES ASSUME NEW k \in 1 .. Len(opcode) + Len(digits)
               PROVE  (opcode \o digits)[k][1] # "literal"
    BY <2>1, <2>6
  <2>7. Len(opcode) \in Nat /\ Len(digits) \in Nat
    BY <2>3, <2>5
  <2>8. CASE k <= Len(opcode)
    BY <2>5, <2>6, <2>7, <2>8
  <2>9. CASE ~(k <= Len(opcode))
    <3>1. k - Len(opcode) \in 1 .. Len(digits)
      BY <2>7, <2>9
    <3> QED BY <2>4, <2>6, <2>9, <3>1
  <2> QED BY <2>8, <2>9
<1> QED BY <1>1, <1>2

LEMMA EmitBytes == ASSUME IInv, ByteInv, EmitPlain \/ EmitReference PROVE ByteInv'
<1>1. /\ phase = "emit" /\ index <= Len_ /\ phase' = "emit" /\ index' = index + 1
      /\ UNCHANGED <<asm, here, offset, converged, starts>>
      /\ result' = result \o EmissionOf(Section)
  BY EmitAppends
<1>2. PICK B \in Placements(asm.sections) :
         Tiles(asm.sections, asm.bytes, B) /\ LiteralsUpTo(result, B[index])
  BY <1>1 DEF ByteInv
<1>3. /\ Section \in Sections /\ Section = asm.sections[index] /\ index \in 1 .. Len_
      /\ Literal(Section) => Section.start <= Section.end
  BY <1>1, SectionType, EmitFacts DEF IInv, TypeInv, AssemblerTypeOK, Literal
<1>4. /\ EmissionOf(Section) \in Seq(Bytes)
      /\ Len(EmissionOf(Section)) = CompiledSize(Section, offset)
  BY <1>3, Facts, EmissionType DEF Literal
<1>5. PICK e \in Seq(Bytes), res \in Seq(Bytes) : e = EmissionOf(Section) /\ res = result
  BY <1>4, Facts
<1>6. index \in 1 .. Len(asm.sections) + 1 /\ index + 1 \in 1 .. Len(asm.sections) + 1
  BY <1>3, Facts DEF Len_
<1>7. PICK b \in Nat, c \in Nat : b = B[index] /\ c = B[index + 1]
  <2>1. B[index] \in Nat /\ B[index + 1] \in Nat
    BY <1>6 DEF Placements
  <2> QED BY <2>1
<1>8. LiteralsUpTo(res \o e, c)
  <2>1. CASE Literal(Section)
    <3>1. Section.start = b /\ Section.end = c /\ b <= c
      BY <1>2, <1>3, <1>7, <2>1 DEF Tiles, Len_
    <3>2. e = [k \in 1 .. (c - b) |-> <<"literal", b + k - 1>>]
      BY <1>5, <2>1, <3>1 DEF EmissionOf, Literal
    <3>3. Len(e) = c - b /\ \A k \in 1 .. Len(e) : e[k] = <<"literal", b + k - 1>>
      BY <3>1, <3>2
    <3>4. LiteralsFrom(e, b, c) /\ LiteralsUpTo(res, b)
      BY <1>2, <1>5, <1>7, <3>1, <3>3 DEF LiteralsFrom
    <3> QED BY <3>4, LiteralsGrow
  <2>2. CASE ~Literal(Section)
    <3>1. c = b
      BY <1>2, <1>3, <1>7, <2>2 DEF Tiles, Len_
    <3>2. \A k \in 1 .. Len(e) : e[k][1] # "literal"
      <4>1. CASE Section.kind = "mark"
        <5>1. e = <<>>
          BY <1>5, <4>1 DEF EmissionOf
        <5> QED BY <5>1
      <4>2. CASE Section.kind = "ref"
        <5>1. Section \in References /\ e = Emitted(Section)
          BY <1>3, <1>5, <4>2, KindIsType DEF EmissionOf
        <5> QED BY <4>2, <5>1, Facts, NoLiteralsInReferences
      <4> QED BY <1>3, <2>2, <4>1, <4>2, KindIsType DEF Literal
    <3> QED BY <1>2, <1>5, <1>7, <3>1, <3>2, LiteralsStay
  <2> QED BY <2>1, <2>2
<1>9. LiteralsUpTo(result', B[index'])
  BY <1>1, <1>5, <1>7, <1>8
<1> QED BY <1>1, <1>2, <1>9 DEF ByteInv, LiteralsUpTo

LEMMA ByteInvariance == Spec => []ByteInv
<1>1. AssemblerInit => ByteInv
  <2> SUFFICES ASSUME AssemblerInit PROVE ByteInv
    OBVIOUS
  <2>1. asm.sections = <<>> /\ asm.bytes = 0 /\ phase = "push"
    BY DEF AssemblerInit, EmptyAsm
  <2> DEFINE B == [k \in 1 .. 1 |-> 0]
  <2>2. Len(<<>>) = 0
    OBVIOUS
  <2>3. B \in Placements(<<>>) /\ Tiles(<<>>, 0, B)
    BY <2>2 DEF Placements, Tiles
  <2> QED BY <2>1, <2>3 DEF ByteInv
<1>2. IInv /\ IInv' /\ ByteInv /\ [Next]_asmVars => ByteInv'
  <2> SUFFICES ASSUME IInv, IInv', ByteInv, [Next]_asmVars PROVE ByteInv'
    OBVIOUS
  <2>1. CASE ClientMark \/ ClientOp \/ ClientData \/ ClientReference
    BY <2>1, ClientBytes
  <2>2. CASE \/ ClientAssemble \/ FirstPass \/ NextPass \/ PlaceMinimum \/ NoConvergence
             \/ Place
    <3>1. UNCHANGED asm /\ phase' \notin {"emit", "done"}
      BY <2>2 DEF ClientAssemble, Assemble, FirstPass, NextPass, BeginPass, PlaceMinimum,
                  NoConvergence, Place
    <3> QED BY <3>1 DEF ByteInv, Placements
  <2>3. CASE Converged
    <3>1. UNCHANGED asm /\ phase = "pass" /\ index' = 1 /\ result' = result
      BY <2>3 DEF Converged
    <3>2. result = <<>>
      BY <3>1 DEF IInv, LayoutInv
    <3>3. PICK B \in Placements(asm.sections) : Tiles(asm.sections, asm.bytes, B)
      BY DEF ByteInv
    <3>4. B[1] = 0 /\ LiteralsUpTo(<<>>, 0)
      BY <3>3 DEF Tiles, LiteralsUpTo
    <3>5. LiteralsUpTo(result', B[index'])
      BY <3>1, <3>2, <3>4
    <3> QED BY <3>1, <3>3, <3>5 DEF ByteInv, LiteralsUpTo
  <2>4. CASE EmitPlain \/ EmitReference
    BY <2>4, EmitBytes
  <2>5. CASE Finish \/ UNCHANGED asmVars
    <3>1. UNCHANGED <<asm, index, result>> /\ (phase' = phase \/ phase = "emit")
      BY <2>5 DEF Finish, layoutVars, asmVars
    <3> QED BY <3>1 DEF ByteInv, LiteralsUpTo
  <2> QED BY <2>1, <2>2, <2>3, <2>4, <2>5 DEF Next, LayoutStep
<1> QED BY <1>1, <1>2, Invariance, PTL DEF Spec

-----------------------------------------------------------------------------
(* The finished code. *)
LEMMA DoneFacts ==
    ASSUME IInv, phase = "done"
    PROVE  /\ index = Len_ + 1 /\ Len_ = Len(asm.sections) /\ Len_ \in Nat
           /\ Len(starts) = Len_ /\ Len(result) = here
           /\ \A i \in 1 .. Len_ : Pos(starts, here, i) = starts[i] /\ starts[i] \in Nat
           /\ Pos(starts, here, Len_ + 1) = here
           /\ \A i \in 1 .. Len_ + 1 : Pos(starts, here, i) <= Len(result)
           /\ WellFormed(asm.sections) /\ MarksAt(asm.sections, starts, offset)
           /\ Sorted(starts, here) /\ Chained(asm.sections, starts, here, offset)
<1>1. /\ index = Len_ + 1 /\ Len_ = Len(asm.sections) /\ Len_ \in Nat
      /\ Len(starts) = Len_ /\ Len(result) = Pos(starts, here, index)
      /\ WellFormed(asm.sections) /\ MarksAt(asm.sections, starts, offset)
      /\ Sorted(starts, here) /\ Chained(asm.sections, starts, here, offset)
  BY Facts DEF IInv, LayoutInv, Len_
<1>2. \A i \in 1 .. Len_ : Pos(starts, here, i) = starts[i] /\ starts[i] \in Nat
  BY <1>1, Facts DEF Pos
<1>3. Pos(starts, here, Len_ + 1) = here
  BY <1>1 DEF Pos
<1>4. ASSUME NEW i \in 1 .. Len_ + 1 PROVE Pos(starts, here, i) <= Pos(starts, here, Len_ + 1)
  <2>1. i <= Len_ + 1 /\ Len_ + 1 \in 1 .. Len_ + 1
    BY <1>1
  <2> QED BY <1>1, <2>1 DEF Sorted
<1> QED BY <1>1, <1>2, <1>3, <1>4

LEMMA DoneEmission ==
    ASSUME IInv, WrittenInv, phase = "done", NEW i \in 1 .. Len_,
           asm.sections[i].kind = "ref"
    PROVE  Emission(i) = Emitted(asm.sections[i])
<1>1. PICK s \in References : s = asm.sections[i] /\ s.kind = "ref" /\ s \in Sections
  <2>1. asm.sections[i] \in Sections
    BY DoneFacts, Facts
  <2> QED BY <2>1, KindIsType
<1>2. Emitted(s) \in Seq(Bytes) /\ Len(Emitted(s)) = CompiledSize(s, offset)
  BY <1>1, Facts, EmittedType
<1>3. PICK e \in Seq(Bytes), res \in Seq(Bytes) : e = Emitted(s) /\ res = result
  BY <1>2, Facts
<1>4. Len(e) \in Nat /\ Len(res) \in Nat
  BY LenProperties
<1>5. i \in Nat /\ i + 1 \in 1 .. Len_ + 1 /\ i < index
  BY DoneFacts
<1>6. PICK from \in Nat : from = starts[i]
  BY DoneFacts
<1>7. Pos(starts, here, i + 1) = from + Len(e) /\ from + Len(e) <= Len(res)
  <2>1. Pos(starts, here, i + 1) = Pos(starts, here, i) + CompiledSize(s, offset)
    BY <1>1, DoneFacts DEF Chained
  <2> QED BY <1>2, <1>3, <1>5, <1>6, <2>1, DoneFacts
<1>8. \A k \in 1 .. Len(e) : res[from + k] = e[k]
  <2>1. EmissionOf(s) = Emitted(s)
    BY <1>1 DEF EmissionOf
  <2>2. \A k \in 1 .. CompiledSize(s, offset) :
            result[Pos(starts, here, i) + k] = EmissionOf(s)[k]
    BY <1>1, <1>5 DEF WrittenInv
  <2> QED BY <1>2, <1>3, <1>6, <2>1, <2>2, DoneFacts
<1>9. Emission(i) = SubSeq(res, from + 1, from + Len(e))
  <2>1. CASE i = Len_
    BY <1>3, <1>6, <1>7, <2>1, DoneFacts DEF Emission
  <2>2. CASE i # Len_
    <3>1. i + 1 \in 1 .. Len_
      BY <1>5, <2>2, DoneFacts
    <3> QED BY <1>3, <1>6, <1>7, <2>2, <3>1, DoneFacts DEF Emission
  <2> QED BY <2>1, <2>2
<1> DEFINE sub == SubSeq(res, from + 1, from + Len(e))
<1>10. /\ sub \in Seq(Bytes) /\ Len(sub) = Len(e)
       /\ \A k \in 1 .. Len(e) : sub[k] = res[from + k]
  <2>1. PICK m \in Int, n \in Int : m = from + 1 /\ n = from + Len(e)
    BY <1>4, <1>6
  <2>5. \A k \in m .. n : res[k] \in Bytes
    BY <1>4, <1>6, <1>7, <2>1
  <2>2. /\ SubSeq(res, m, n) \in Seq(Bytes)
        /\ Len(SubSeq(res, m, n)) = IF m <= n THEN n - m + 1 ELSE 0
        /\ \A k \in 1 .. n - m + 1 : SubSeq(res, m, n)[k] = res[m + k - 1]
    BY <2>5, SubSeqProperties
  <2>3. n - m + 1 = Len(e) /\ (IF m <= n THEN n - m + 1 ELSE 0) = Len(e)
    BY <1>4, <1>6, <2>1, SMTT(30)
  <2>4. ASSUME NEW k \in 1 .. Len(e) PROVE m + k - 1 = from + k
    BY <1>4, <1>6, <2>1
  <2> QED BY <2>1, <2>2, <2>3, <2>4
<1> HIDE DEF sub
<1>11. sub = e
  BY <1>8, <1>10, SeqEqual
<1> QED BY <1>1, <1>3, <1>9, <1>11 DEF sub

LEMMA DonePositions ==
    ASSUME IInv, phase = "done", NEW id \in Marks, Placed(id)
    PROVE  /\ PositionOf(id) = offset[id] /\ offset[id] \in Nat
           /\ offset[id] <= Len(result)
<1>1. PICK i \in 1 .. Len_ : PlacedAt(asm.sections, id, i)
  BY DEF Placed
<1>2. ASSUME NEW j \in 1 .. Len_, PlacedAt(asm.sections, id, j) PROVE j = i
  BY <1>1, <1>2, DoneFacts DEF WellFormed, PlacedAt
<1>3. (CHOOSE j \in 1 .. Len_ : PlacedAt(asm.sections, id, j)) = i
  BY <1>1, <1>2
<1>4. PositionOf(id) = starts[i]
  BY <1>3 DEF PositionOf
<1>5. offset[id] = starts[i]
  BY <1>1, DoneFacts DEF MarksAt, PlacedAt
<1>6. i \in 1 .. Len_ + 1
  BY DoneFacts
<1> QED BY <1>4, <1>5, <1>6, DoneFacts

LEMMA ReferenceValue ==
    ASSUME IInv, phase = "done", NEW r \in 1 .. Len_, asm.sections[r].kind = "ref",
           Len(result) < Radix * Radix * Radix * Radix
    PROVE  LET s == asm.sections[r]
           IN /\ s \in References /\ ~TooSmall(s, offset)
              /\ Value(s, offset) = PositionOf(s.to)
                                    - IF s.from = Nowhere THEN 0 ELSE PositionOf(s.from)
              /\ Value(s, offset) < Radix * Radix * Radix * Radix
<1>1. PICK s \in References : s = asm.sections[r] /\ s.kind = "ref"
  <2>1. asm.sections[r] \in Sections
    BY DoneFacts, Facts
  <2> QED BY <2>1, KindIsType
<1>2. s.to \in Marks /\ s.from \in Marks \cup {Nowhere}
  BY DEF References
<1>3. Placed(s.to) /\ (s.from # Nowhere => Placed(s.from))
  BY <1>1, DoneFacts DEF WellFormed, Placed, Precedes
<1>4. ~TooSmall(s, offset)
  BY <1>1, DoneFacts DEF Chained
<1>5. ~Underflows(s, offset)
  <2>1. /\ asm.sections \in Seq(Sections) /\ starts \in Seq(Nat) /\ here \in Nat
        /\ offset \in [Marks -> Nat]
    BY Facts
  <2> QED BY <1>1, <2>1, DoneFacts, NoUnderflow
<1>6. Value(s, offset) = offset[s.to] - Start(s, offset)
  BY <1>5 DEF Value
<1>7. PICK to \in Nat : to = offset[s.to] /\ to = PositionOf(s.to) /\ to <= Len(result)
  BY <1>2, <1>3, DonePositions
<1>8. PICK from \in Nat : /\ from = Start(s, offset)
                          /\ from = IF s.from = Nowhere THEN 0 ELSE PositionOf(s.from)
  <2>1. CASE s.from = Nowhere
    BY <2>1 DEF Start
  <2>2. CASE s.from # Nowhere
    BY <1>2, <1>3, <2>2, DonePositions DEF Start
  <2> QED BY <2>1, <2>2
<1>9. PICK limit : limit = Radix * Radix * Radix * Radix
  OBVIOUS
<1>10. limit \in Nat /\ Len(result) \in Nat
  <2>1. Power[3] \in Nat /\ limit = Power[3] * Radix
    BY <1>9, Powers, PowerType
  <2> QED BY <2>1, Facts, RadixAssumption, SMTT(30)
<1>11. to - from < limit
  BY <1>7, <1>8, <1>9, <1>10
<1> QED BY <1>1, <1>4, <1>6, <1>7, <1>8, <1>9, <1>11

(* Offsets are of four bytes at most, as code is that fits 32-bit offsets. *)
Addressable == Len(result) < Radix * Radix * Radix * Radix

LEMMA ReadsBack == IInv /\ WrittenInv /\ ByteInv /\ Addressable => CodeReadsBack
<1> SUFFICES ASSUME IInv, WrittenInv, ByteInv, Addressable, phase = "done" PROVE CodeReadsBack
  BY DEF CodeReadsBack
<1>1. ASSUME NEW i \in 1 .. Len_, asm.sections[i].kind = "ref"
      PROVE  ReadsAs(Emission(i), asm.sections[i],
                     PositionOf(asm.sections[i].to)
                     - IF asm.sections[i].from = Nowhere THEN 0
                       ELSE PositionOf(asm.sections[i].from))
  <2>1. PICK s, value :
           /\ s = asm.sections[i] /\ s \in References /\ ~TooSmall(s, offset)
           /\ value = Value(s, offset) /\ value < Radix * Radix * Radix * Radix
           /\ value = PositionOf(s.to) - IF s.from = Nowhere THEN 0 ELSE PositionOf(s.from)
    BY <1>1, ReferenceValue DEF Addressable
  <2>2. ReadsAs(Emitted(s), s, value)
    BY <1>1, <2>1, Facts, ReferenceReadsBack
  <2>3. Emission(i) = Emitted(s)
    BY <1>1, <2>1, DoneEmission
  <2> QED BY <2>1, <2>2, <2>3
<1>2. LiteralsUpTo(result, asm.bytes)
  <2>1. PICK B \in Placements(asm.sections) :
           Tiles(asm.sections, asm.bytes, B) /\ LiteralsUpTo(result, B[index])
    BY DEF ByteInv
  <2>2. B[index] = asm.bytes
    BY <2>1, DoneFacts DEF Tiles
  <2> QED BY <2>1, <2>2
<1> QED BY <1>1, <1>2 DEF CodeReadsBack, LiteralsUpTo

(* The emitted bytes read back as the references and literals that were    *)
(* pushed, for all code whose size its offsets can express.                *)
THEOREM CodeStands == Spec => [](Addressable => CodeReadsBack)
BY ReadsBack, Invariance, WrittenInvariance, ByteInvariance, PTL

(* With passes enough for the references, no start of a span that speeds   *)
(* up, and code that offsets of four bytes can address, assembly is        *)
(* correct in every respect.                                               *)
Roomy == MaxPasses > 4 * Cardinality(RefIndices) /\ Addressable
Ample == steady /\ Roomy

THEOREM AssemblyStands == Spec => [](Ample => AssemblyIsCorrect)
<1>1. /\ PassesSuffice /\ LayoutIsBest /\ (Addressable => CodeReadsBack) /\ IInv
      => (Ample => AssemblyIsCorrect)
  <2> SUFFICES ASSUME PassesSuffice, LayoutIsBest, Addressable => CodeReadsBack, IInv, Ample
               PROVE  AssemblyIsCorrect
    OBVIOUS
  <2>1. LayoutIsLeast /\ ErrorIsReal /\ CodeReadsBack
    BY DEF LayoutIsBest, Ample, Roomy
  <2>2. phase # "no_convergence"
    <3>1. PICK n \in Nat : n = Cardinality(RefIndices)
      <4>1. IsFiniteSet(RefIndices)
        <5>1. IsFiniteSet(1 .. Len_)
          BY Facts, FS_Interval
        <5>2. RefIndices \subseteq 1 .. Len_
          BY DEF RefIndices
        <5> QED BY <5>1, <5>2, FS_Subset
      <4> QED BY <4>1, FS_CardinalityType
    <3>2. ~(MaxPasses <= 4 * n)
      BY <3>1, MaxPassesAssumption DEF Ample, Roomy
    <3> QED BY <3>1, <3>2 DEF PassesSuffice, Ample
  <2> QED BY <2>1, <2>2 DEF AssemblyIsCorrect, SteadyConverges
<1> QED BY <1>1, PassesAreEnough, LayoutStands, CodeStands, Invariance, PTL

(* Whether the sections are calm, and few enough, can be told before they  *)
(* are assembled: then assembly is correct whatever the passes do.         *)
THEOREM CalmAssemblyStands == Spec => [](Calm(asm.sections) /\ Roomy => AssemblyIsCorrect)
<1>1. CalmIsSteady /\ (Ample => AssemblyIsCorrect)
      => (Calm(asm.sections) /\ Roomy => AssemblyIsCorrect)
  BY DEF CalmIsSteady, Ample
<1> QED BY <1>1, CalmContractsAreSteady, AssemblyStands, PTL
=============================================================================

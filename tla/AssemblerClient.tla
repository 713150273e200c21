-------------------------- MODULE AssemblerClient --------------------------
(* The assembler with a client that pushes any sections it likes and calls *)
(* `assemble` once they are well formed.                                   *)
EXTENDS Assembler, FiniteSets, TLC

CONSTANTS
    MaxSections,  \* bound on the sections pushed, repeated ones counted once
    MaxBytes,     \* bound on the literal bytes pushed
    DataSizes,    \* lengths given to push_data
    RefKinds      \* set_size and pushed of the references, and how often in a row they are pushed

ASSUME ClientAssumption ==
    /\ MaxSections \in Nat /\ MaxBytes \in Nat /\ DataSizes \subseteq Nat
    /\ RefKinds \subseteq [setSize : {Unsized} \cup RefSize, pushed : BOOLEAN, times : Nat]

Differs(secs, i) == i = 1 \/ secs[i - 1] # secs[i]

WithinBounds(a) ==
    /\ Cardinality({i \in 1 .. Len(a.sections) : Differs(a.sections, i)}) <= MaxSections
    /\ a.bytes <= MaxBytes

Client(a) ==
    /\ phase = "push" /\ WithinBounds(a)
    /\ asm' = a
    /\ UNCHANGED <<phase, layoutVars, result>>

(* push_reference, n times. *)
PushReferences(a, ref, n) == [a EXCEPT !.sections = @ \o [i \in 1 .. n |-> ref]]

ClientMark == \E id \in Marks : ~Placed(id) /\ Client(PushMark(asm, id))
ClientOp == Client(PushOps(asm, 1))
ClientData == \E n \in DataSizes : Client(PushData(asm, n))
ClientReference ==
    \E from \in Marks \cup {Nowhere}, to \in Marks, k \in RefKinds :
        LET ref == [kind |-> "ref", from |-> from, to |-> to,
                    setSize |-> k.setSize, pushed |-> k.pushed]
        IN /\ from # to
           /\ Len_ > 0 => asm.sections[Len_] # ref
           /\ Client(PushReferences(asm, ref, k.times))
ClientAssemble == WellFormed(asm.sections) /\ Assemble

Next == ClientMark \/ ClientOp \/ ClientData \/ ClientReference
        \/ ClientAssemble \/ LayoutStep

Spec == AssemblerInit /\ [][Next]_asmVars

-----------------------------------------------------------------------------
(* The constants of its run: bytes of three values, so offsets of one, two *)
(* and three digits meet in a handful of sections.                         *)
Kind(size, pushed, times) == [setSize |-> size, pushed |-> pushed, times |-> times]
MCRefKinds == {Kind(Unsized, TRUE, 1), Kind(Unsized, TRUE, 4), Kind(1, FALSE, 1)}
MarksAreAlike == Permutations(Marks)
=============================================================================

--------------------------- MODULE ReleaseBackend ---------------------------
(***************************************************************************)
(* Code generation of the optimising compiler (sir/crates/release-backend  *)
(* with sir/crates/static-memory-allocator): from blocks of scheduled      *)
(* stack operations to the sections of the assembler.                      *)
(*                                                                         *)
(* `ir_to_bytecode` runs, for the init entry point and then for the main   *)
(* entry point, the memory allocator and the emitter, both work-list       *)
(* traversals of the blocks reachable from the entry point.  Block and     *)
(* data ids are numbers because marks are allocated by arithmetic on them. *)
(***************************************************************************)
EXTENDS Assembler, FiniteSets, SequencesExt

CONSTANTS
    NumBlocks,   \* basic_blocks.len()
    NumDatas,    \* data_segments.len()
    Functions,   \* FunctionId
    Allocs,      \* StaticAllocId
    None,        \* an absent Option
    WordSize,    \* EVM_WORD_IN_BYTES: 32 in the code
    Programs     \* the programs considered

Blocks == 0 .. NumBlocks - 1
Datas == 0 .. NumDatas - 1

(* What the emitter does for a stack operation; `bytes` stands for every   *)
(* operation that becomes n literal bytes whatever the layout is.          *)
StackOps ==
    [op : {"bytes"}, n : Nat] \cup [op : {"store", "load"}, alloc : Allocs]
    \cup [op : {"ret_push"}, call : Nat] \cup [op : {"icall"}, call : Nat, fn : Functions]
    \cup [op : {"icall_never"}, fn : Functions]
    \cup [op : {"alloc"}, alloc : Allocs, size : Nat, zeroed : BOOLEAN]
    \cup [op : {"dyn_alloc"}, uses : {1, 2}, n : Nat]
    \cup [op : {"data"}, id : Datas]
    \cup [op : {"runtime_start", "init_end", "runtime_length"}]

Controls ==
    [kind : {"terminates", "return"}] \cup [kind : {"continues"}, to : Blocks]
    \cup [kind : {"branches"}, nonZero : Blocks, zero : Blocks]
    \cup [kind : {"switch"}, cases : Seq([value : Nat, to : Blocks]), fallback : Blocks \cup {None}]

Targets(cases) == [i \in DOMAIN cases |-> cases[i].to]

(* Control::iter_outgoing: the zero target comes before the non-zero one. *)
Successors(c) ==
    CASE c.kind \in {"terminates", "return"} -> <<>>
      [] c.kind = "continues" -> <<c.to>>
      [] c.kind = "branches" -> <<c.zero, c.nonZero>>
      [] OTHER -> Targets(c.cases) \o (IF c.fallback = None THEN <<>> ELSE <<c.fallback>>)

(* Critical edges have been split: a block with several successors is the  *)
(* only predecessor of each.                                               *)
NoCriticalEdges(p) ==
    \A b \in Blocks : Len(Successors(p.control[b])) > 1 =>
        \A c \in Blocks : Range(Successors(p.control[b])) \cap Range(Successors(p.control[c])) # {}
                           => b = c

(* What the scheduler makes of a block: a spilled word is stored before it  *)
(* is loaded, and calls and their return marks go in pairs.                *)
IsCallOf(op, call) == op.op = "icall" /\ op.call = call
IsReturnOf(op, call) == op.op = "ret_push" /\ op.call = call
IsScheduled(s) ==
    \A j \in 1 .. Len(s) :
        /\ s[j].op = "load" => \E i \in 1 .. j - 1 : s[i].op = "store" /\ s[i].alloc = s[j].alloc
        /\ s[j].op = "icall" =>
              \E i \in 1 .. j - 1 :
                  /\ IsReturnOf(s[i], s[j].call)
                  /\ \A k \in i .. j - 1 : ~IsCallOf(s[k], s[j].call)
        /\ s[j].op = "ret_push" =>
              \E i \in j + 1 .. Len(s) :
                  /\ IsCallOf(s[i], s[j].call)
                  /\ \A k \in j + 1 .. i : ~IsReturnOf(s[k], s[j].call)

(* The size of an allocation goes with its id; a spilled word has an id of *)
(* its own.                                                                *)
Takes(op, alloc) == op.op \in {"alloc", "store"} /\ op.alloc = alloc
SizeAsked(op) == IF op.op = "alloc" THEN op.size ELSE WordSize
SizesAgree(s, t) ==
    \A i \in 1 .. Len(s), j \in 1 .. Len(t) :
        s[i].op \in {"alloc", "store"} /\ Takes(t[j], s[i].alloc) => SizeAsked(s[i]) = SizeAsked(t[j])

IsProgram(p) ==
    /\ p.entry \in [Functions -> Blocks]
    /\ p.ops \in [Blocks -> Seq(StackOps)]
    /\ p.control \in [Blocks -> Controls]
    /\ p.data \in [Datas -> Nat]
    /\ p.init \in Functions
    /\ p.main \in Functions \cup {None}
    /\ NoCriticalEdges(p)
    /\ \A b \in Blocks : IsScheduled(p.ops[b])
    /\ \A b, c \in Blocks : SizesAgree(p.ops[b], p.ops[c])

ASSUME NumbersAssumption == NumBlocks \in Nat /\ NumDatas \in Nat /\ WordSize \in Nat
ASSUME NoneAssumption == None \notin Nat
ASSUME ProgramsAssumption == \A p \in Programs : IsProgram(p)
ASSUME MarksAssumption == Marks \subseteq Nat /\ Nowhere \notin Nat

VARIABLES
    ir,            \* the program (constant along a behaviour)
    target,        \* the entry point being compiled: "init" or "main"
    stage,         \* where ir_to_bytecode is
    memory,        \* the Layout, with the bump pointer
    fns,           \* allocator: function_worklist and seen_functions
    work,          \* block work-list and the blocks seen
    at, ops,       \* the block being visited and its operations left
    retMarks,      \* icall_return_marks, by operation
    nextMark,      \* mark_map.next_mark_id
    bbMarks,       \* start of the marks of blocks
    initOnly,      \* init_only_data
    runtimeDatas   \* runtime_datas

codegenVars == <<ir, target, stage, memory, fns, work, at, ops, retMarks, nextMark,
                 bbMarks, initOnly, runtimeDatas>>
vars == <<codegenVars, asmVars>>

-----------------------------------------------------------------------------
(* Work-lists. *)

NoWork == [todo |-> <<>>, seen |-> {}]

Enqueue(w, x) ==
    IF x \in w.seen THEN w ELSE [todo |-> Append(w.todo, x), seen |-> w.seen \cup {x}]
EnqueueAll(w, xs) ==
    LET after[i \in 0 .. Len(xs)] == IF i = 0 THEN w ELSE Enqueue(after[i - 1], xs[i])
    IN after[Len(xs)]

Pop(w) == [w EXCEPT !.todo = Front(@)]

IsCall(op) == op.op \in {"icall", "icall_never"}
EnqueueCallees(w, s) ==
    LET after[i \in 0 .. Len(s)] ==
            IF i = 0 THEN w
            ELSE IF IsCall(s[i]) THEN Enqueue(after[i - 1], ir.entry[s[i].fn]) ELSE after[i - 1]
    IN after[Len(s)]

EntryPoint == IF target = "init" THEN ir.init ELSE ir.main

-----------------------------------------------------------------------------
(* The memory allocator, BumpAllocateAll::generate. *)

NoMemory == [next |-> 0, freePointer |-> None, switchStore |-> None,
             start |-> [a \in Allocs |-> None], zeroing |-> {}]

Bump(mem, bytes) == [mem EXCEPT !.next = @ + bytes]

AllocStatic(mem, alloc, size, zeroing) ==
    IF mem.start[alloc] # None THEN mem
    ELSE [Bump(mem, size) EXCEPT !.start[alloc] = mem.next,
                                 !.zeroing = IF zeroing THEN @ \cup {alloc} ELSE @]

(* A block is walked twice: its operations, then its loads and stores. *)
IsSpill(op) == op.op \in {"store", "load"}
Ignored == [op |-> "bytes", n |-> 0]
AllocationOrder(block) ==
    LET s == ir.ops[block]
    IN [i \in 1 .. Len(s) |-> IF IsSpill(s[i]) THEN Ignored ELSE s[i]]
       \o [i \in 1 .. Len(s) |-> IF IsSpill(s[i]) THEN s[i] ELSE Ignored]

(* Mutation: a spilled word is given one byte. *)
Collected_SpillByte(mem, op) ==
    CASE op.op = "dyn_alloc" /\ mem.freePointer = None ->
            [Bump(mem, WordSize) EXCEPT !.freePointer = mem.next]
      [] op.op = "alloc" -> AllocStatic(mem, op.alloc, op.size, op.zeroed)
      [] op.op = "store" -> AllocStatic(mem, op.alloc, 1, FALSE)
      [] OTHER -> mem
Collected(mem, op) ==
    CASE op.op = "dyn_alloc" /\ mem.freePointer = None ->
            [Bump(mem, WordSize) EXCEPT !.freePointer = mem.next]
      [] op.op = "alloc" -> AllocStatic(mem, op.alloc, op.size, op.zeroed)
      [] op.op = "store" -> AllocStatic(mem, op.alloc, WordSize, FALSE)
      [] OTHER -> mem

CollectFunction ==
    /\ stage = "memory" /\ at = None /\ work.todo = <<>> /\ fns.todo # <<>>
    /\ fns' = Pop(fns)
    /\ LET entry == ir.entry[Last(fns.todo)]
       IN work' = [todo |-> <<entry>>, seen |-> work.seen \cup {entry}]
    /\ UNCHANGED <<ir, target, stage, memory, at, ops, retMarks, nextMark, bbMarks,
                   initOnly, runtimeDatas, asmVars>>

CollectBlock ==
    /\ stage = "memory" /\ at = None /\ work.todo # <<>>
    /\ at' = Last(work.todo)
    /\ ops' = AllocationOrder(Last(work.todo))
    /\ work' = Pop(work)
    /\ UNCHANGED <<ir, target, stage, memory, fns, retMarks, nextMark, bbMarks,
                   initOnly, runtimeDatas, asmVars>>

(* Mutation: functions called are not visited. *)
CollectOperation_NoCallees ==
    /\ stage = "memory" /\ at # None /\ ops # <<>>
    /\ LET op == Head(ops)
       IN /\ memory' = Collected(memory, op)
          /\ stage' = IF op.op = "load" /\ memory.start[op.alloc] = None
                      THEN "panic" ELSE stage
    /\ ops' = Tail(ops)
    /\ UNCHANGED <<ir, target, fns, work, at, retMarks, nextMark, bbMarks, initOnly,
                   runtimeDatas, asmVars>>

CollectOperation ==
    /\ stage = "memory" /\ at # None /\ ops # <<>>
    /\ LET op == Head(ops)
       IN /\ memory' = Collected(memory, op)
          /\ fns' = IF IsCall(op) THEN Enqueue(fns, op.fn) ELSE fns
          /\ stage' = IF op.op = "load" /\ memory.start[op.alloc] = None
                      THEN "panic" ELSE stage
    /\ ops' = Tail(ops)
    /\ UNCHANGED <<ir, target, work, at, retMarks, nextMark, bbMarks, initOnly,
                   runtimeDatas, asmVars>>

CollectControl ==
    /\ stage = "memory" /\ at # None /\ ops = <<>>
    /\ memory' = IF ir.control[at].kind = "switch" /\ memory.switchStore = None
                 THEN [Bump(memory, WordSize) EXCEPT !.switchStore = memory.next]
                 ELSE memory
    /\ work' = EnqueueAll(work, Successors(ir.control[at]))
    /\ at' = None
    /\ UNCHANGED <<ir, target, stage, fns, ops, retMarks, nextMark, bbMarks, initOnly,
                   runtimeDatas, asmVars>>

MemoryDone == stage = "memory" /\ at = None /\ work.todo = <<>> /\ fns.todo = <<>>

-----------------------------------------------------------------------------
(* Marks (mark_map). *)

runcode_start == 0
initcode_end == 1
DataMark(d) == 2 + d
FirstBbMark == 2 + NumDatas
BbMark(b) == bbMarks + b

(* Init code is not moved; run code is copied to where its start is 0. *)
MarkToRef(mark) == IF target = "init" THEN Direct(mark) ELSE Delta(runcode_start, mark)

-----------------------------------------------------------------------------
(* emit_init, first part: the data the run code refers to. *)

StartRuntimeDatas ==
    /\ MemoryDone /\ target = "init"
    /\ stage' = "runtime_datas"
    /\ work' = IF ir.main = None THEN NoWork ELSE Enqueue(NoWork, ir.entry[ir.main])
    /\ UNCHANGED <<ir, target, memory, fns, at, ops, retMarks, nextMark, bbMarks,
                   initOnly, runtimeDatas, asmVars>>

(* Mutation: data used only by functions called is not collected. *)
CollectRuntimeDatas_NoCallees ==
    /\ stage = "runtime_datas" /\ work.todo # <<>>
    /\ LET block == Last(work.todo)
       IN /\ runtimeDatas' = runtimeDatas
                \cup {op.id : op \in {o \in Range(ir.ops[block]) : o.op = "data"}}
          /\ work' = EnqueueAll(Pop(work), Successors(ir.control[block]))
    /\ UNCHANGED <<ir, target, stage, memory, fns, at, ops, retMarks, nextMark, bbMarks,
                   initOnly, asmVars>>

CollectRuntimeDatas ==
    /\ stage = "runtime_datas" /\ work.todo # <<>>
    /\ LET block == Last(work.todo)
       IN /\ runtimeDatas' = runtimeDatas
                \cup {op.id : op \in {o \in Range(ir.ops[block]) : o.op = "data"}}
          /\ work' = EnqueueAll(EnqueueCallees(Pop(work), ir.ops[block]),
                                Successors(ir.control[block]))
    /\ UNCHANGED <<ir, target, stage, memory, fns, at, ops, retMarks, nextMark, bbMarks,
                   initOnly, asmVars>>

-----------------------------------------------------------------------------
(* emit_from_entrypoint. *)

PushSize(value) == IF value = 0 THEN 1 ELSE 1 + BytesToHold(value)

Prologue(a) ==
    IF memory.freePointer = None THEN a
    ELSE PushOps(a, PushSize(memory.next) + PushSize(memory.freePointer) + 1)

StartCode(a) ==
    /\ stage' = "code"
    /\ bbMarks' = nextMark
    /\ nextMark' = nextMark + NumBlocks
    /\ retMarks' = <<>>
    /\ work' = Enqueue(NoWork, ir.entry[EntryPoint])
    /\ asm' = Prologue(a)
    /\ UNCHANGED <<ir, target, memory, fns, at, ops, initOnly, runtimeDatas,
                   phase, layoutVars, result>>

StartInitCode ==
    stage = "runtime_datas" /\ work.todo = <<>> /\ StartCode(asm)

StartRunCode == MemoryDone /\ target = "main" /\ StartCode(PushMark(asm, runcode_start))

EmitBlock ==
    /\ stage = "code" /\ at = None /\ work.todo # <<>>
    /\ at' = Last(work.todo)
    /\ ops' = ir.ops[Last(work.todo)]
    /\ work' = Pop(work)
    /\ asm' = PushOps(PushMark(asm, BbMark(Last(work.todo))), 1)
    /\ UNCHANGED <<ir, target, stage, memory, fns, retMarks, nextMark, bbMarks, initOnly,
                   runtimeDatas, phase, layoutVars, result>>

(* What an operation expects of the work done before it. *)
Expected(op) ==
    CASE op.op \in {"store", "load", "alloc"} -> memory.start[op.alloc] # None
      [] op.op = "dyn_alloc" -> memory.freePointer # None
      [] op.op = "icall" -> \E i \in 1 .. Len(retMarks) : retMarks[i].call = op.call
      [] OTHER -> TRUE

(* "use of .. when initcode introspection disallowed": only init code asks  *)
(* where the run code is in it.                                            *)
Introspects(op) == op.op \in {"runtime_start", "init_end"}

StageAfter(op) ==
    CASE Introspects(op) /\ target = "main" -> "refused"
      [] ~Introspects(op) /\ ~Expected(op) -> "panic"
      [] OTHER -> "code"

(* The literal bytes of an operation; addresses are pushed minimally. *)
LiteralSize(op) ==
    CASE op.op = "bytes" -> op.n
      [] op.op \in {"store", "load"} -> PushSize(memory.start[op.alloc]) + 1
      [] op.op = "alloc" -> PushSize(memory.start[op.alloc])
            + IF op.alloc \in memory.zeroing THEN PushSize(op.size) + 3 ELSE 0
      [] OTHER -> op.uses * PushSize(memory.freePointer) + op.n

ReturnIndex(call) ==
    CHOOSE i \in 1 .. Len(retMarks) :
        retMarks[i].call = call /\ \A j \in 1 .. i - 1 : retMarks[j].call # call
ReturnMark(call) == retMarks[ReturnIndex(call)].mark

(* swap_remove: the last mark takes the place of the one removed. *)
WithoutReturn(call) == Front([retMarks EXCEPT ![ReturnIndex(call)] = Last(retMarks)])

CallTarget(fn) == MarkToRef(BbMark(ir.entry[fn]))

Emit(op) ==
    CASE op.op \in {"bytes", "store", "load", "alloc", "dyn_alloc"} ->
            PushOps(asm, LiteralSize(op))
      [] op.op = "ret_push" -> PushReference(asm, MarkToRef(nextMark))
      [] op.op = "icall" ->
            PushOps(PushMark(PushOps(PushReference(asm, CallTarget(op.fn)), 1),
                             ReturnMark(op.call)), 1)
      [] op.op = "icall_never" -> PushOps(PushReference(asm, CallTarget(op.fn)), 1)
      [] op.op = "data" -> PushReference(asm, MarkToRef(DataMark(op.id)))
      [] op.op = "runtime_start" -> PushReference(asm, Direct(runcode_start))
      [] op.op = "init_end" -> PushReference(asm, Direct(initcode_end))
      [] OTHER -> PushReference(asm, Delta(runcode_start, initcode_end))

EmitOperation ==
    /\ stage = "code" /\ at # None /\ ops # <<>>
    /\ LET op == Head(ops)
       IN /\ stage' = StageAfter(op)
          /\ IF StageAfter(op) # "code"
             THEN UNCHANGED <<asm, work, retMarks, nextMark, initOnly>>
             ELSE
               /\ asm' = Emit(op)
               /\ work' = IF IsCall(op) THEN Enqueue(work, ir.entry[op.fn]) ELSE work
               /\ retMarks' = CASE op.op = "ret_push" ->
                                     Append(retMarks, [call |-> op.call, mark |-> nextMark])
                                [] op.op = "icall" -> WithoutReturn(op.call)
                                [] OTHER -> retMarks
               /\ nextMark' = IF op.op = "ret_push" THEN nextMark + 1 ELSE nextMark
               /\ initOnly' = IF op.op = "data" /\ target = "init" /\ op.id \notin runtimeDatas
                              THEN initOnly \cup {op.id} ELSE initOnly
    /\ ops' = Tail(ops)
    /\ UNCHANGED <<ir, target, memory, fns, at, bbMarks, runtimeDatas,
                   phase, layoutVars, result>>

Jump(a, b) == PushOps(PushReference(a, MarkToRef(BbMark(b))), 1)

(* A case: load the condition, push the value, EQ, push the target, JUMPI. *)
SwitchCase(a, case) ==
    Jump(PushOps(a, PushSize(memory.switchStore) + 1 + PushSize(case.value) + 1), case.to)

SwitchCases(a, cases) ==
    LET after[i \in 0 .. Len(cases)] == IF i = 0 THEN a ELSE SwitchCase(after[i - 1], cases[i])
    IN after[Len(cases)]

EmittedControl(c) ==
    CASE c.kind = "terminates" -> asm
      [] c.kind = "return" -> PushOps(asm, 1)
      [] c.kind = "continues" -> Jump(asm, c.to)
      [] c.kind = "branches" -> Jump(Jump(asm, c.nonZero), c.zero)
      [] OTHER -> LET cases == SwitchCases(PushOps(asm, PushSize(memory.switchStore) + 1), c.cases)
                  IN IF c.fallback = None THEN cases ELSE Jump(cases, c.fallback)

EmitControl ==
    /\ stage = "code" /\ at # None /\ ops = <<>>
    /\ LET c == ir.control[at]
       IN IF c.kind = "switch" /\ memory.switchStore = None
          THEN stage' = "panic" /\ UNCHANGED <<asm, work>>
          ELSE /\ stage' = stage
               /\ asm' = EmittedControl(c)
               /\ work' = EnqueueAll(work, Successors(c))
    /\ at' = None
    /\ UNCHANGED <<ir, target, memory, fns, ops, retMarks, nextMark, bbMarks, initOnly,
                   runtimeDatas, phase, layoutVars, result>>

-----------------------------------------------------------------------------
(* The data segments, each behind its mark, in the order of their ids. *)

PushSegment(a, d) == PushData(PushMark(a, DataMark(d)), ir.data[d])
PushSegments(a, ds) ==
    LET after[n \in 0 .. NumDatas] ==
            IF n = 0 THEN a
            ELSE IF n - 1 \in ds THEN PushSegment(after[n - 1], n - 1) ELSE after[n - 1]
    IN after[NumDatas]

CodeDone == stage = "code" /\ at = None /\ work.todo = <<>>

FinishInit ==
    /\ CodeDone /\ target = "init"
    /\ LET a == PushSegments(asm, initOnly)
       IN IF ir.main = None
          THEN /\ asm' = PushMark(PushMark(a, runcode_start), initcode_end)
               /\ stage' = "assemble"
               /\ UNCHANGED <<target, memory, fns, work>>
          ELSE /\ asm' = a
               /\ stage' = "memory" /\ target' = "main"
               /\ memory' = NoMemory
               /\ fns' = Enqueue(NoWork, ir.main)
               /\ work' = NoWork
    /\ UNCHANGED <<ir, at, ops, retMarks, nextMark, bbMarks, initOnly, runtimeDatas,
                   phase, layoutVars, result>>

FinishMain ==
    /\ CodeDone /\ target = "main"
    /\ asm' = PushMark(PushSegments(asm, runtimeDatas), initcode_end)
    /\ stage' = "assemble"
    /\ UNCHANGED <<ir, target, memory, fns, work, at, ops, retMarks, nextMark, bbMarks,
                   initOnly, runtimeDatas, phase, layoutVars, result>>

-----------------------------------------------------------------------------
Init ==
    /\ ir \in Programs
    /\ target = "init" /\ stage = "memory"
    /\ memory = NoMemory
    /\ fns = Enqueue(NoWork, ir.init)
    /\ work = NoWork
    /\ at = None /\ ops = <<>> /\ retMarks = <<>>
    /\ nextMark = FirstBbMark /\ bbMarks = 0
    /\ initOnly = {} /\ runtimeDatas = {}
    /\ AssemblerInit

Codegen ==
    \/ CollectFunction \/ CollectBlock \/ CollectOperation \/ CollectControl
    \/ StartRuntimeDatas \/ CollectRuntimeDatas
    \/ StartInitCode \/ StartRunCode
    \/ EmitBlock \/ EmitOperation \/ EmitControl
    \/ FinishInit \/ FinishMain

Assembling == stage = "assemble" /\ (Assemble \/ LayoutStep) /\ UNCHANGED codegenVars

Next == Codegen \/ Assembling

Spec == Init /\ [][Next]_vars

-----------------------------------------------------------------------------
(* What code generation promises, to the assembler and about the contract  *)
(* it produces.                                                            *)
(* ir_to_bytecode calls assemble. *)
AtAssembly == stage = "assemble" /\ phase = "push"

(* The sections handed to the assembler are what it relies on: every mark   *)
(* referenced is placed, none twice, and no distance is negative.          *)
SectionsAreWellFormed == AtAssembly => WellFormed(asm.sections)

(* No expect or assert of the emitter or of the allocator fails: what the   *)
(* emitter needs was allocated by a traversal of its own.                  *)
ExpectationsHold == stage # "panic"

-----------------------------------------------------------------------------
Position(id) == CHOOSE i \in 1 .. Len_ : PlacedAt(asm.sections, id, i)

(* The run code is copied out of the init code and must not need anything  *)
(* that stays behind: whatever it references lies in the copied range, and *)
(* is measured from the start of that range.                               *)
RunCodeIsSelfContained ==
    AtAssembly =>
        \A r \in Position(runcode_start) .. Len_ : asm.sections[r].kind = "ref" =>
            /\ asm.sections[r].from = runcode_start
            /\ Placed(asm.sections[r].to)
            /\ Position(asm.sections[r].to) > Position(runcode_start)
            /\ Position(asm.sections[r].to) <= Position(initcode_end)

-----------------------------------------------------------------------------
(* The blocks reachable from an entry point through jumps and calls: those *)
(* in every set of blocks that has the entry and that no block leaves.     *)
IsClosed(B) ==
    \A b \in B : /\ \A o \in Range(ir.ops[b]) : IsCall(o) => ir.entry[o.fn] \in B
                 /\ Range(Successors(ir.control[b])) \subseteq B
Reachable(function) ==
    {b \in Blocks : \A B \in SUBSET Blocks : ir.entry[function] \in B /\ IsClosed(B) => b \in B}

MarksOfBlocks(first) == {m - first : m \in {id \in first .. first + NumBlocks - 1 : Placed(id)}}

(* At the end, the init code and the run code hold each block reachable     *)
(* from their entry point, and no other; and each data segment is kept     *)
(* once, if some code refers to it.                                        *)
DataUsed(function) ==
    {d \in Datas : \E b \in Reachable(function) :
        \E o \in Range(ir.ops[b]) : o.op = "data" /\ o.id = d}
CodeIsComplete ==
    AtAssembly =>
        /\ MarksOfBlocks(FirstBbMark) = Reachable(ir.init)
        /\ ir.main # None => MarksOfBlocks(bbMarks) = Reachable(ir.main)
        /\ {d \in Datas : Placed(DataMark(d))}
              = DataUsed(ir.init) \cup IF ir.main = None THEN {} ELSE DataUsed(ir.main)

(* The sections handed over are a contract: the assembler can lay them     *)
(* out, the run code stands alone, and no code or data is missing.         *)
ContractIsWhole == SectionsAreWellFormed /\ RunCodeIsSelfContained /\ CodeIsComplete

-----------------------------------------------------------------------------
AllOps == UNION {Range(ir.ops[b]) : b \in Blocks}
SizeOf(alloc) == CHOOSE n \in {SizeAsked(o) : o \in {x \in AllOps : Takes(x, alloc)}} : TRUE

(* The memory laid out: what it is for, where it starts and how long it is. *)
Slot(for, start, size) == [for |-> for, start |-> start, size |-> size]
Slots(mem) ==
    {Slot(<<"alloc", a>>, mem.start[a], SizeOf(a)) : a \in {x \in Allocs : mem.start[x] # None}}
    \cup {Slot(<<"free pointer">>, s, WordSize) : s \in {mem.freePointer} \ {None}}
    \cup {Slot(<<"switch">>, s, WordSize) : s \in {mem.switchStore} \ {None}}

(* Static allocations, spilled values, the free pointer and the scratch     *)
(* word of switches never share memory, and dynamic memory, which begins   *)
(* at the bump pointer, comes after all of them.                           *)
MemoryIsDisjoint ==
    /\ \A s \in Slots(memory) : s.start + s.size <= memory.next
    /\ \A s, t \in Slots(memory) :
          s # t => s.start + s.size <= t.start \/ t.start + t.size <= s.start

(* MemoryIsProvided: the emitter finds all the memory it asks for, wherever *)
(* it meets the operation that needs it, and no two uses share a byte.     *)
MemoryIsProvided == ExpectationsHold /\ MemoryIsDisjoint
=============================================================================

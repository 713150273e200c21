---------------------------- MODULE DebugBackend ----------------------------
(***************************************************************************)
(* Code generation without optimisation (sir/crates/debug-backend): every  *)
(* local has a word of memory, and values go from block to block, and in   *)
(* and out of functions, through one area all of them share.  Init and run *)
(* code are made by two traversals and have blocks of their own.           *)
(*                                                                         *)
(* An instruction is a record; a `mark` takes no space.  Addresses count   *)
(* words (32 bytes in the code).                                           *)
(***************************************************************************)
EXTENDS SirSemantics, SirAnalyses

(* StaticMemoryLayout.                                                     *)
SwitchStore == 0
FreePointer == 1
TransferSlot(i) == 1 + i
TransferSize(p) == FoldLeft(LAMBDA n, b : LET m == IF Len(b.ins) > Len(b.outs) THEN Len(b.ins) ELSE Len(b.outs)
                                          IN IF n > m THEN n ELSE m, 0, p.blocks)
LocalAddr(p, l) == TransferSlot(TransferSize(p)) + l
ReturnDest(p, f) == LocalAddr(p, p.nextLocal - 1) + f
NextFree(p) == ReturnDest(p, Len(p.functions)) + 1

-----------------------------------------------------------------------------
(* Instructions.  Inside run code a place is measured from its start.      *)
Push(value) == [is |-> "push", value |-> value]
Mark(m) == [is |-> "mark", mark |-> m]
Do(instruction) == [is |-> instruction]
Evm1(o) == [is |-> "op", op |-> o]

Nowhere == <<"nowhere">>
RunStart == <<"run start">>
InitEnd == <<"init end">>
BlockMark(section, b) == <<section, b>>
ReturnMark(k) == <<"return", k>>
PushPlace(section, m) == [is |-> "place", from |-> IF section = "init" THEN Nowhere ELSE RunStart, to |-> m]

LoadFrom(address) == <<Push(address), Do("mload")>>
StoreTo(address) == <<Push(address), Do("mstore")>>
Load(p, l) == LoadFrom(LocalAddr(p, l))
Store(p, l) == StoreTo(LocalAddr(p, l))
HandOver(p, locals) == FlattenSeq([i \in DOMAIN locals |-> Load(p, locals[i]) \o StoreTo(TransferSlot(i))])
TakeOver(p, locals) == FlattenSeq([i \in DOMAIN locals |-> LoadFrom(TransferSlot(i)) \o Store(p, locals[i])])
JumpTo(section, b) == <<PushPlace(section, BlockMark(section, b)), Do("jump")>>
JumpIf(section, b) == <<PushPlace(section, BlockMark(section, b)), Do("jumpi")>>

(* What an operation becomes, if k return marks are in use.                *)
CallCode(p, section, o, k) ==
    HandOver(p, o.ins) \o <<PushPlace(section, ReturnMark(k + 1))>> \o StoreTo(ReturnDest(p, o.val))
    \o JumpTo(section, Entry(p, o.val)) \o <<Mark(ReturnMark(k + 1)), Do("jumpdest")>> \o TakeOver(p, o.outs)
OperationCode(p, section, o, k) ==
    CASE o.op = "noop" -> <<>>
      [] o.op = "const" -> <<Push(o.val)>> \o Store(p, o.outs[1])
      [] o.op = "copy" -> Load(p, o.ins[1]) \o Store(p, o.outs[1])
      [] o.op = "call" -> CallCode(p, section, o, k)
      [] o.op = "never" -> HandOver(p, o.ins) \o JumpTo(section, Entry(p, o.val))
      [] OTHER -> FlattenSeq([i \in DOMAIN o.ins |-> Load(p, Reverse(o.ins)[i])]) \o <<Evm1(o)>>
                  \o FlattenSeq([i \in DOMAIN o.outs |-> Store(p, o.outs[i])])

CaseCode(section, case) ==
    LoadFrom(SwitchStore) \o <<Push(case[1]), Do("eq")>> \o JumpIf(section, case[2])
(* Undefined behaviour is a revert with a word of its own.                 *)
ControlCode(p, section, f, ctl) ==
    CASE ctl.kind = "last" -> <<>>
      [] ctl.kind = "iret" -> LoadFrom(ReturnDest(p, f)) \o <<Do("jump")>>
      [] ctl.kind = "goto" -> JumpTo(section, ctl.to)
      [] ctl.kind = "branch" -> Load(p, ctl.cond) \o JumpIf(section, ctl.nonZero) \o JumpTo(section, ctl.zero)
      [] ctl.kind = "switch" ->
            Load(p, ctl.cond) \o StoreTo(SwitchStore)
            \o FlattenSeq([i \in DOMAIN ctl.cases |-> CaseCode(section, ctl.cases[i])])
            \o (IF ctl.fallback = None THEN <<Do("undefined behaviour")>> ELSE JumpTo(section, ctl.fallback))

-----------------------------------------------------------------------------
(* The traversal from an entry point: `todo` are the blocks to translate,  *)
(* each with the function it was reached in, the last one next.            *)
TranslateOperation(t, o) ==
    [t EXCEPT !.code = @ \o OperationCode(t.p, t.section, o, t.returns),
              !.returns = IF o.op = "call" THEN @ + 1 ELSE @,
              !.todo = IF IsCall(o) THEN Append(@, <<o.val, Entry(t.p, o.val)>>) ELSE @]
TranslateBlock(t, f, b) ==
    LET block == t.p.blocks[b]
        begun == [t EXCEPT !.done = @ \cup {b},
                           !.code = @ \o <<Mark(BlockMark(t.section, b)), Do("jumpdest")>> \o TakeOver(t.p, block.ins)]
        body == FoldLeft(TranslateOperation, begun, OpsOf(t.p, b))
    IN [body EXCEPT !.code = @ \o HandOver(t.p, block.outs) \o ControlCode(t.p, t.section, f, block.ctl),
                    !.todo = @ \o [i \in DOMAIN Successors(t.p, b) |-> <<f, Successors(t.p, b)[i]>>]]

RECURSIVE TranslateAll(_)
TranslateAll(t) ==
    IF t.todo = <<>> THEN t
    ELSE LET next == Last(t.todo)
             rest == [t EXCEPT !.todo = Front(@)]
         IN TranslateAll(IF next[2] \in t.done THEN rest ELSE TranslateBlock(rest, next[1], next[2]))
TranslateFrom(t, f) == TranslateAll([t EXCEPT !.todo = <<<<f, Entry(t.p, f)>>>>])

InitFreePointer(t) == [t EXCEPT !.code = @ \o <<Push(NextFree(t.p))>> \o StoreTo(FreePointer)]
(* ir_to_bytecode.  (Mutation: blocks translated for the init code are not *)
(* translated again.)                                                      *)
StartRun_KeepDone(t) ==
    InitFreePointer([t EXCEPT !.section = "run", !.code = Append(@, Mark(RunStart))])
StartRun(t) ==
    InitFreePointer([t EXCEPT !.done = {}, !.section = "run", !.code = Append(@, Mark(RunStart))])
DebugCode(p) ==
    LET empty == [p |-> p, section |-> "init", code |-> <<>>, returns |-> 0, done |-> {}, todo |-> <<>>]
        init == TranslateFrom(InitFreePointer(empty), p.init)
        run == IF p.main = None THEN StartRun(init) ELSE TranslateFrom(StartRun(init), p.main)
    IN Append(run.code, Mark(InitEnd))

-----------------------------------------------------------------------------
(* The machine that runs the code: memory is zero where nothing was        *)
(* stored.  A word is <<word>>, a place <<from, to>>.                      *)
Zero == <<0>>
PlaceOf(code, m) == CHOOSE i \in DOMAIN code : code[i] = Mark(m)
Boot(code, section) ==
    [status |-> "running", trace |-> <<>>, stack |-> <<>>, memory |-> <<>>,
     pc |-> IF section = "init" THEN 1 ELSE PlaceOf(code, RunStart)]
MemoryAt(run, address) == IF address \in DOMAIN run.memory THEN run.memory[address] ELSE Zero
(* A jump goes to a `jumpdest`, given as a place in the section that runs. *)
Jumped(code, section, run, place) ==
    IF Len(place) = 2 /\ place[1] = (IF section = "init" THEN Nowhere ELSE RunStart)
       /\ code[PlaceOf(code, place[2]) + 1] = Do("jumpdest")
    THEN [run EXCEPT !.pc = PlaceOf(code, place[2]) + 1] ELSE Halt(run, "bad jump")

RunEvm(env, run, o) ==
    LET n == Len(o.ins)
        args == [i \in 1 .. n |-> run.stack[i][1]]
        results == Results(env, o, args)
        below == SubSeq(run.stack, n + 1, Len(run.stack))
    IN CASE o.op \in {"stop", "invalid"} -> Halt(run, o.op)
         [] o.op = "sstore" -> [run EXCEPT !.trace = Append(@, args), !.stack = below]
         [] OTHER -> [run EXCEPT !.stack = [i \in DOMAIN results |-> <<results[i]>>] \o below]

RunInstruction(code, section, env, run) ==
    LET i == code[run.pc]
        top == run.stack
        next == [run EXCEPT !.pc = @ + 1]
        Below(n) == [next EXCEPT !.stack = SubSeq(@, n + 1, Len(@))]
    IN CASE i.is \in {"mark", "jumpdest"} -> next
         [] i.is = "push" -> [next EXCEPT !.stack = <<<<i.value>>>> \o @]
         [] i.is = "place" -> [next EXCEPT !.stack = <<<<i.from, i.to>>>> \o @]
         [] i.is = "mload" -> [next EXCEPT !.stack = <<MemoryAt(run, top[1][1])>> \o Tail(@)]
         [] i.is = "mstore" -> [Below(2) EXCEPT !.memory = (top[1][1] :> top[2]) @@ @]
         [] i.is = "eq" -> [next EXCEPT !.stack = <<IF top[1] = top[2] THEN <<1>> ELSE Zero>> \o SubSeq(@, 3, Len(@))]
         [] i.is = "jump" -> Jumped(code, section, Below(1), top[1])
         [] i.is = "jumpi" -> IF top[2] = Zero THEN Below(2) ELSE Jumped(code, section, Below(2), top[1])
         [] i.is = "op" -> RunEvm(env, next, i.op)
         [] i.is = "undefined behaviour" -> Halt(run, "no target")

(* n rounds of up to as many instructions as one operation takes.          *)
DebugExecution(code, section, env, n) ==
    LET Step1(run, i) == IF run.status = "running" THEN RunInstruction(code, section, env, run) ELSE run
        Round(run, i) == IF run.status = "running" THEN FoldLeft(Step1, run, [k \in 1 .. 16 |-> k]) ELSE run
    IN FoldLeft(Round, Boot(code, section), [k \in 1 .. n |-> k])

-----------------------------------------------------------------------------
(* What the assembler relies on: each mark is placed once, each place that *)
(* is pushed is marked, and the start of a distance comes before its end.  *)
PlacesAreMarked(code) ==
    LET marks == SelectSeq(code, LAMBDA i : i.is = "mark")
    IN /\ \A i, j \in DOMAIN marks : marks[i] = marks[j] => i = j
       /\ \A i \in DOMAIN code : code[i].is = "place" =>
            /\ Mark(code[i].to) \in ToSet(marks)
            /\ code[i].from # Nowhere => PlaceOf(code, code[i].from) < PlaceOf(code, code[i].to)

DoesAsProgram(p, code) ==
    \A env \in Environments :
        /\ SameRun(Execution(p, env, p.init, Steps), DebugExecution(code, "init", env, Steps))
        /\ p.main # None => SameRun(Execution(p, env, p.main, Steps), DebugExecution(code, "run", env, Steps))
=============================================================================

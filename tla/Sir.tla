-------------------------------- MODULE Sir --------------------------------
(***************************************************************************)
(* The intermediate representation SIR (sir/crates/data).                  *)
(*                                                                         *)
(* A program is a record of tables: functions, basic blocks, operations.   *)
(* A block passes its outputs to the inputs of the block it continues to.  *)
(* Spans into the tables of locals, cases and constants are the sequences  *)
(* they denote.                                                            *)
(***************************************************************************)
EXTENDS Integers, Sequences, SequencesExt

CONSTANTS
    None,
    WordCount,    \* values of a word: 2^256 in the code
    SmallWords,   \* how many of them fit a SetSmallConst: 2^32 in the code
    EvmKinds,     \* EvmConstKind
    NonZeroKinds  \* those SCCP takes to be never zero

ASSUME SirAssumption ==
    /\ WordCount \in Nat \ {0, 1} /\ SmallWords \in 1 .. WordCount
    /\ NonZeroKinds \subseteq EvmKinds
    /\ None \notin Nat /\ None \notin EvmKinds

Word == 0 .. WordCount - 1

(* The operations that stand for all of their kind: `add` and `iszero` for *)
(* those SCCP evaluates, `balance` for those it does not although they can *)
(* be removed, `sstore` for those that must stay, `stop` for terminators.  *)
(* `val` is the word of a const, the kind of an evm, the callee of a call. *)
Op(op, outs, ins, val) == [op |-> op, ins |-> ins, outs |-> outs, val |-> val]
IsCall(o) == o.op \in {"call", "never"}
SetConst(out, word) == Op("const", <<out>>, <<>>, word)

Foldable == {"add", "iszero"}

(* Mutation: an addition that does not wrap. *)
Evaluate_NoWrap(op, args) ==
    IF op = "add" THEN args[1] + args[2] ELSE IF args[1] = 0 THEN 1 ELSE 0

Evaluate(op, args) ==
    IF op = "add" THEN (args[1] + args[2]) % WordCount
    ELSE IF args[1] = 0 THEN 1 ELSE 0

(* Control. *)
LastOpTerminates == [kind |-> "last"]
InternalReturn == [kind |-> "iret"]
ContinuesTo(b) == [kind |-> "goto", to |-> b]
Branches(cond, nonZero, zero) ==
    [kind |-> "branch", cond |-> cond, nonZero |-> nonZero, zero |-> zero]
Switch(cond, cases, fallback) ==
    [kind |-> "switch", cond |-> cond, cases |-> cases, fallback |-> fallback]

Outgoing(ctl) ==
    CASE ctl.kind \in {"last", "iret"} -> <<>>
      [] ctl.kind = "goto" -> <<ctl.to>>
      [] ctl.kind = "branch" -> <<ctl.zero, ctl.nonZero>>
      [] ctl.kind = "switch" -> [i \in 1 .. Len(ctl.cases) |-> ctl.cases[i][2]]
                                \o (IF ctl.fallback = None THEN <<>> ELSE <<ctl.fallback>>)

Successors(p, b) == Outgoing(p.blocks[b].ctl)

(* The target of a switch: the first case of that value, or the fallback. *)
SwitchTarget(ctl, word) ==
    LET hits == {i \in 1 .. Len(ctl.cases) : ctl.cases[i][1] = word}
    IN IF hits = {} THEN ctl.fallback
       ELSE ctl.cases[CHOOSE i \in hits : \A j \in hits : i <= j][2]

BlockIds(p) == 1 .. Len(p.blocks)
FunctionIds(p) == 1 .. Len(p.functions)
Locals(p) == 1 .. p.nextLocal - 1
OpsOf(p, b) == [i \in 1 .. Len(p.blocks[b].ops) |-> p.ops[p.blocks[b].ops[i]]]
Entry(p, f) == p.functions[f].entry
Condition(ctl) == IF ctl.kind \in {"branch", "switch"} THEN {ctl.cond} ELSE {}

(* What the tables of a program are made of. *)
OpKinds == {"const", "evm", "copy", "noop", "balance", "sstore", "stop", "invalid", "call", "never"} \cup Foldable

Operations(p) ==
    {o \in [op : OpKinds, outs : Seq(Locals(p)), ins : Seq(Locals(p)),
            val : Word \cup EvmKinds \cup FunctionIds(p) \cup {None}] :
        /\ IsCall(o) => o.val \in FunctionIds(p)
        /\ o.op = "const" => o.val \in Word /\ Len(o.outs) = 1
        /\ o.op = "evm" => o.val \in EvmKinds /\ Len(o.outs) = 1
        /\ o.op \in Foldable \cup {"balance"} =>
              Len(o.outs) = 1 /\ Len(o.ins) = IF o.op = "add" THEN 2 ELSE 1}

Controls(p) ==
    [kind : {"last", "iret"}]
    \cup [kind : {"goto"}, to : BlockIds(p)]
    \cup [kind : {"branch"}, cond : Locals(p), nonZero : BlockIds(p), zero : BlockIds(p)]
    \cup [kind : {"switch"}, cond : Locals(p), cases : Seq(Word \X BlockIds(p)),
          fallback : BlockIds(p) \cup {None}]

BasicBlocks(p) ==
    [ins : Seq(Locals(p)), ops : Seq(1 .. Len(p.ops)), outs : Seq(Locals(p)), ctl : Controls(p)]

(* `returns` is the number of values a function returns, None if it never does. *)
FunctionHeads(p) == [entry : BlockIds(p), returns : Nat \cup {None}]

IsProgram(p) ==
    p \in [id : {p.id}, init : FunctionIds(p), main : FunctionIds(p) \cup {None},
           functions : Seq(FunctionHeads(p)), nextLocal : Nat \ {0},
           ops : Seq(Operations(p)), blocks : Seq(BasicBlocks(p))]
=============================================================================

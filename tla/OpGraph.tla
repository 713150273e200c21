------------------------------- MODULE OpGraph ------------------------------
(***************************************************************************)
(* The operations of a block as a graph (stack-scheduling/src/op_graph):   *)
(* which values they take and make, and what must have been done before.   *)
(***************************************************************************)
EXTENDS SirAnalyses

(* Where values lie on the stack between blocks and between functions      *)
(* (stack-scheduling/src/layouts.rs), and the analyses it is made from     *)
(* (passes/src/analyses): liveness, ownership and the bundling of edges.   *)
-----------------------------------------------------------------------------
(* LocalLiveness: the locals live at the entry and at the exit of blocks.  *)
UsedByControl(block) ==
    Condition(block.ctl) \cup IF block.ctl = InternalReturn THEN ToSet(block.outs) ELSE {}

LiveAtEntry(p, b, exit) ==
    LET Before(live, o) == (live \ ToSet(o.outs)) \cup ToSet(o.ins)
    IN FoldLeft(Before, exit \cup UsedByControl(p.blocks[b]), Reverse(OpsOf(p, b)))

(* What a predecessor must have for its successor to have local l. *)
HandedOver(p, pred, b, l) ==
    LET ins == p.blocks[b].ins
    IN IF l \in ToSet(ins)
       THEN p.blocks[pred].outs[CHOOSE i \in DOMAIN ins : ins[i] = l /\ \A j \in 1 .. i - 1 : ins[j] # l]
       ELSE l

LivenessSweep(p, preds, order, live) ==
    LET Visit(lv, b) ==
            LET entry == LiveAtEntry(p, b, lv.exit[b])
            IN [entry |-> [lv.entry EXCEPT ![b] = entry],
                exit |-> [c \in DOMAIN lv.exit |->
                    lv.exit[c] \cup IF c \in ToSet(preds[b])
                                    THEN {HandedOver(p, c, b, l) : l \in entry} ELSE {}]]
    IN FoldLeft(Visit, live, Reverse(order))

RECURSIVE LivenessFrom(_, _, _, _)
LivenessFrom(p, preds, order, live) ==
    LET next == LivenessSweep(p, preds, order, live)
    IN IF next.exit = live.exit THEN next ELSE LivenessFrom(p, preds, order, next)

LocalLiveness(p, preds, rpo) ==
    LET none == [b \in BlockIds(p) |-> {}]
    IN LivenessFrom(p, preds, BlocksRpo(rpo), [entry |-> none, exit |-> none])

-----------------------------------------------------------------------------
(* BasicBlockOwnershipAndReachability: the function of each reached block. *)
Ownership(rpo) ==
    [b \in ReachableBlocks(rpo) |->
        CHOOSE f \in DOMAIN rpo.blocks : b \in ToSet(rpo.blocks[f])]

-----------------------------------------------------------------------------
(* ControlFlowGraphInOutBundling: the blocks that jump to a common target  *)
(* leave the stack in one way, and so do all targets of a block find it.   *)

Enter(preds, b, group, acc, to) ==
    LET in == acc.bundle.in
        moved == to \in DOMAIN in /\ in[to] # group
    IN [bundle |-> [acc.bundle EXCEPT !.in = (to :> group) @@ @],
        work |-> acc.work \o IF moved THEN SelectSeq(preds[to], LAMBDA q : q # b) ELSE <<>>]

RECURSIVE Bundle(_, _, _, _)
Bundle(p, preds, bundle, work) ==
    IF work = <<>> THEN bundle
    ELSE LET b == Last(work)
             grouped == SelectSeq(Successors(p, b), LAMBDA to : to \in DOMAIN bundle.in)
             group == IF grouped = <<>> THEN bundle.next ELSE bundle.in[grouped[1]]
             left == [bundle EXCEPT !.out = (b :> group) @@ @,
                                    !.next = IF grouped = <<>> THEN @ + 1 ELSE @]
             entered == FoldLeft(LAMBDA acc, to : Enter(preds, b, group, acc, to),
                                 [bundle |-> left, work |-> Front(work)], Successors(p, b))
         IN Bundle(p, preds, entered.bundle, entered.work)

EntryGroup(p, bundle, f) ==
    IF Entry(p, f) \in DOMAIN bundle.in THEN bundle
    ELSE [bundle EXCEPT !.in = (Entry(p, f) :> bundle.next) @@ @, !.next = @ + 1]

InOutBundling(p, preds, rpo) ==
    LET edges == FoldLeft(LAMBDA bundle, b : Bundle(p, preds, bundle, <<b>>),
                          [in |-> <<>>, out |-> <<>>, next |-> 0], BlocksRpo(rpo))
    IN FoldLeft(LAMBDA bundle, f : EntryGroup(p, bundle, f), edges, rpo.functions)

-----------------------------------------------------------------------------
(* Members in their order: the return destination, then what blocks hand   *)
(* over by position, then locals that are live through the edge.           *)
ReturnDest == <<0, 0>>
InputOutput(i) == <<1, i>>
LiveThrough(l) == <<2, l>>

Sorted(members) == SetToSortSeq(members, LAMBDA x, y : x[1] < y[1] \/ (x[1] = y[1] /\ x[2] < y[2]))

Returned(p, b) ==
    IF p.blocks[b].ctl = InternalReturn
    THEN {InputOutput(i) : i \in DOMAIN p.blocks[b].outs} ELSE {}

Wanted(p, live, owner, b) ==
    LET ins == p.blocks[b].ins
        Member(l) == IF l \in ToSet(ins)
                     THEN InputOutput(CHOOSE i \in DOMAIN ins : ins[i] = l /\ \A j \in 1 .. i - 1 : ins[j] # l)
                     ELSE LiveThrough(l)
    IN {Member(l) : l \in live.entry[b]}
       \cup IF p.functions[owner[b]].returns = None THEN {} ELSE {ReturnDest}

(* build_basic_block_layout_sets: the layout of each group that has one. *)
GroupLayouts(p, live, owner, bundle) ==
    LET Entering(g) == {b \in DOMAIN owner : bundle.in[b] = g}
        Leaving(g) == {b \in DOMAIN owner : bundle.out[b] = g}
        groups == {bundle.in[b] : b \in DOMAIN owner}
                  \cup {bundle.out[b] : b \in {c \in DOMAIN owner : p.blocks[c].ctl = InternalReturn}}
    IN [g \in groups |-> Sorted(UNION {Wanted(p, live, owner, b) : b \in Entering(g)}
                                \cup UNION {Returned(p, b) : b \in Leaving(g)})]

(* LayoutsTracker: what get_input_output gives for each reached block. *)
Layouts(p) ==
    LET rpo == ReversePostOrder(p)
        preds == Predecessors(p, ReachableBlocks(rpo))
        owner == Ownership(rpo)
        bundle == InOutBundling(p, preds, rpo)
        of == GroupLayouts(p, LocalLiveness(p, preds, rpo), owner, bundle)
    IN [input |-> [b \in DOMAIN owner |-> of[bundle.in[b]]],
        output |-> [b \in DOMAIN owner |->
                       IF bundle.out[b] \in DOMAIN of THEN of[bundle.out[b]] ELSE <<>>]]

-----------------------------------------------------------------------------
(* Effect: a set of the flags.  `of` gives those of an operation. *)
Channels ==
    {<<"memoryRead", "memoryWrite">>, <<"returndataRead", "returndataWrite">>,
     <<"accountsRead", "accountsWrite">>, <<"persistentRead", "persistentWrite">>,
     <<"transientRead", "transientWrite">>, <<"revert", "terminate">>,
     <<"allocAdvance", "allocUseFree">>}
Major == {c[2] : c \in Channels}

EffectOf(o) ==
    CASE o.op = "balance" -> {"accountsRead"}
      [] o.op = "sstore" -> {"persistentWrite"}
      [] o.op \in {"stop", "invalid"} -> {"terminate"}
      [] OTHER -> {}

Simplified(effect) == effect \ {c[1] : c \in {d \in Channels : d[2] \in effect}}

(* FunctionEffects: a walk over the blocks of each function that is called;*)
(* a loop may run out of gas.                                              *)
RECURSIVE FunctionEffect(_, _, _), BlockEffect(_, _, _)

FunctionEffect(p, walk, f) ==
    IF walk.state[Entry(p, f)] = "done" THEN [walk EXCEPT !.effect = walk.of[f]]
    ELSE LET body == BlockEffect(p, walk, Entry(p, f))
             effect == Simplified(body.effect)
         IN [body EXCEPT !.of[f] = effect, !.effect = effect]

BlockEffect(p, walk, b) ==
    LET Join(w, found) == [found EXCEPT !.effect = @ \cup w.effect]
        Operate(w, o) ==
            IF IsCall(o) THEN Join(w, FunctionEffect(p, w, o.val))
            ELSE [w EXCEPT !.effect = @ \cup EffectOf(o)]
        Follow(w, to) ==
            CASE w.state[to] = "notVisited" -> Join(w, BlockEffect(p, w, to))
              [] w.state[to] = "processing" -> [w EXCEPT !.effect = @ \cup {"revert"}]
              [] OTHER -> w
        begun == [walk EXCEPT !.state[b] = "processing", !.effect = {}]
        ended == FoldLeft(Follow, FoldLeft(Operate, begun, OpsOf(p, b)), Successors(p, b))
    IN [ended EXCEPT !.state[b] = "done"]

FunctionEffects(p) ==
    LET start == [state |-> [b \in BlockIds(p) |-> "notVisited"],
                  of |-> [f \in FunctionIds(p) |-> {}], effect |-> {}]
        init == FunctionEffect(p, start, p.init)
    IN IF p.main = None THEN init.of ELSE FunctionEffect(p, init, p.main).of

(* Mutation: a call is taken to have no effect. *)
EffectIn_NoCalls(o, effects) == IF IsCall(o) THEN {} ELSE EffectOf(o)

(* Terminating commits all that was done before it. *)
EffectIn(o, effects) ==
    LET effect == IF IsCall(o) THEN effects[o.val] ELSE EffectOf(o)
    IN IF "terminate" \in effect THEN effect \cup Major \cup {"logs"} ELSE effect

(* EffectOrderTracker: the nodes that node k must follow, by the effects   *)
(* of the nodes before it.  On a channel, major effects are ordered with   *)
(* all others; logs are ordered among themselves.                          *)
LatestOf(nodes) == IF nodes = {} THEN {} ELSE {Max(nodes)}

EffectPredecessors(effects, k) ==
    LET Majors(c) == {j \in 1 .. k - 1 : c[2] \in effects[j]}
        Minors(c) == {j \in 1 .. k - 1 : c[1] \in effects[j] /\ \A m \in Majors(c) : m < j}
        logs == {j \in 1 .. k - 1 : "logs" \in effects[j]}
    IN UNION {LatestOf(Majors(c)) \cup (IF c[2] \in effects[k] THEN Minors(c) ELSE {})
              : c \in {d \in Channels : {d[1], d[2]} \cap effects[k] # {}}}
       \cup IF "logs" \in effects[k] THEN LatestOf(logs) ELSE {}

-----------------------------------------------------------------------------
(* The graph of a block.  Values are numbered: first those of the input    *)
(* layout, then the outputs of each node; 0 is a value that is missing.    *)
Missing == 0
Lookup(map, x) == IF x \in DOMAIN map THEN map[x] ELSE Missing

Node(kind, op, ins, outs, effect) ==
    [kind |-> kind, op |-> op, ins |-> ins, outs |-> outs, effect |-> effect]

(* What a call takes: the members of the layout of its callee's entry. *)
CallInputs(o, layout, map, dest) ==
    [i \in DOMAIN layout |->
        CASE layout[i] = ReturnDest -> dest
          [] layout[i][1] = 1 -> Lookup(map, o.ins[layout[i][2]])
          [] OTHER -> Missing]

NodeInputs(p, o, layouts, map, dest) ==
    IF IsCall(o) THEN CallInputs(o, layouts.input[Entry(p, o.val)], map, dest)
    ELSE [i \in DOMAIN o.ins |-> Lookup(map, o.ins[i])]

(* The operation numbered op, after the push of a return destination. *)
AddOperation(p, layouts, effects, g, op) ==
    LET o == p.ops[op]
        returns == o.op = "call" /\ ReturnDest \in ToSet(layouts.input[Entry(p, o.val)])
        first == g.values + IF returns THEN 1 ELSE 0
        outs == [i \in DOMAIN o.outs |-> first + i]
        dest == IF returns THEN first ELSE Missing
        push == IF returns THEN <<Node("retDest", op, <<>>, <<dest>>, {})>> ELSE <<>>
        ins == NodeInputs(p, o, layouts, g.map, dest)
        New(map, i) == (o.outs[i] :> outs[i]) @@ map
    IN [g EXCEPT !.nodes = @ \o push \o <<Node("op", op, ins, outs, EffectIn(o, effects))>>,
                 !.values = first + Len(outs),
                 !.map = FoldLeft(New, @, [i \in DOMAIN outs |-> i]),
                 !.broken = @ \/ Missing \in ToSet(ins)
                              \/ \E l \in ToSet(o.outs) : l \in DOMAIN g.map]

GraphInputs(p, b, layout) ==
    LET local(m) == IF m[1] = 1 THEN p.blocks[b].ins[m[2]] ELSE m[2]
        Add(g, i) ==
            IF layout[i] = ReturnDest THEN [g EXCEPT !.dest = i]
            ELSE [g EXCEPT !.map = (local(layout[i]) :> i) @@ @]
    IN FoldLeft(Add, [map |-> <<>>, dest |-> Missing, nodes |-> <<>>, values |-> Len(layout),
                      broken |-> FALSE], [i \in DOMAIN layout |-> i])

(* What must be on the stack at the end, from the top: what control takes, *)
(* then the members of the output layout.                                  *)
EndStack(p, b, g, layout) ==
    LET ctl == p.blocks[b].ctl
        taken == CASE ctl.kind = "iret" -> <<g.dest>>
                   [] Condition(ctl) # {} -> <<Lookup(g.map, ctl.cond)>>
                   [] OTHER -> <<>>
    IN taken \o [i \in DOMAIN layout |->
            CASE layout[i] = ReturnDest -> g.dest
              [] layout[i][1] = 1 -> Lookup(g.map, p.blocks[b].outs[layout[i][2]])
              [] OTHER -> Lookup(g.map, layout[i][2])]

Ordered(nodes, k) ==
    {j \in 1 .. k - 1 : ToSet(nodes[j].outs) \cap ToSet(nodes[k].ins) # {}}
    \cup EffectPredecessors([j \in DOMAIN nodes |-> nodes[j].effect], k)

(* build_graph_effectful; `broken` where a lookup or an assertion fails. *)
Graph(p, b, layouts, effects) ==
    LET inputs == GraphInputs(p, b, layouts.input[b])
        g == FoldLeft(LAMBDA acc, op : AddOperation(p, layouts, effects, acc, op),
                      inputs, p.blocks[b].ops)
        end == EndStack(p, b, g, layouts.output[b])
    IN [inputs |-> Len(layouts.input[b]), nodes |-> g.nodes, end |-> end,
        preds |-> [k \in DOMAIN g.nodes |-> Ordered(g.nodes, k)],
        broken |-> g.broken \/ Missing \in ToSet(end)]

Consumers(g, v) == {k \in DOMAIN g.nodes : v \in ToSet(g.nodes[k].ins)}

(* Mutation: what must remain at the end of the block is not a use. *)
IsLastUse_NotTheEnd(g, done, v) == Cardinality(Consumers(g, v) \ done) = 1

IsLastUse(g, done, v) ==
    Cardinality(Consumers(g, v) \ done) + (IF v \in ToSet(g.end) THEN 1 ELSE 0) = 1
=============================================================================

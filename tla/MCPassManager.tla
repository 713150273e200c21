---------------------------- MODULE MCPassManager ---------------------------
(* Programs in SSA form for the passes: each offers work to several, and   *)
(* what one pass leaves is material for another.  Before them, programs    *)
(* for the legalizer: graphs of every shape, definitions and uses in every *)
(* place, and tables of functions with every kind of mistake.              *)
EXTENDS PassManager

Kind == CHOOSE k \in EvmKinds : TRUE
Closed(ops, ctl) == IF ctl = LastOpTerminates THEN ops \o <<Stop>> ELSE ops

(* The ways in which four blocks can be connected. *)
Connected(exits) ==
    {e \in exits : Reached([b \in 1 .. 4 |-> ToSet(Outgoing(e[b]))], {1}) = 1 .. 4}

Exits(blocks) ==
    {LastOpTerminates} \cup {ContinuesTo(b) : b \in blocks}
    \cup {Branches(1, e[1], e[2]) : e \in {e \in blocks \X blocks : e[1] < e[2]}}

(* Every graph of four blocks, its entry included. *)
Shapes ==
    {Program(<<"shape", exits>>, <<1>>, None,
        [b \in 1 .. 4 |-> Block(<<>>, Closed(IF b = 1 THEN <<Evm(1, Kind)>> ELSE <<>>, exits[b]),
                                <<>>, exits[b])])
        : exits \in Connected([1 .. 4 -> Exits(1 .. 4)])}

(* Local 2 is set in one block and used in another, or before it is set. *)
Places == {x \in (1 .. 4) \X (1 .. 4) \X BOOLEAN : x[3] => x[1] = x[2]}
Uses ==
    {Program(<<"use", exits, place>>, <<1>>, None,
        [b \in 1 .. 4 |->
            LET sets == IF b = place[1] THEN <<Evm(2, Kind)>> ELSE <<>>
                using == IF b = place[2] THEN <<SStore(2, 2)>> ELSE <<>>
            IN Block(<<>>, Closed((IF b = 1 THEN <<Evm(1, Kind)>> ELSE <<>>)
                                  \o (IF place[3] THEN using \o sets ELSE sets \o using), exits[b]),
                     <<>>, exits[b])])
        : place \in Places,
          exits \in Connected({e \in [1 .. 4 -> Exits(2 .. 4)] : e[1] \in {ContinuesTo(2), Branches(1, 2, 3)}})}

(* A local set twice, and inputs and outputs that do and do not agree. *)
Edges ==
    {Program(<<"edge", ins, outs, again>>, <<1>>, None,
        <<Block(<<>>, <<Evm(1, Kind)>>, outs[1], Branches(1, 2, 3)),
          Block(<<>>, <<Evm(2, Kind)>>, outs[2], ContinuesTo(4)),
          Block(<<>>, <<Evm(again, Kind)>>, outs[3], ContinuesTo(4)),
          Block(ins, <<SStore(1, 1), Stop>>, <<>>, LastOpTerminates)>>)
        : ins \in {<<>>, <<4>>, <<2>>, <<4, 5>>}, again \in 1 .. 3,
          outs \in [1 .. 3 -> {<<>>, <<1>>, <<2>>, <<1, 1>>}]}

(* Three functions: what they call, how they end, what they declare.  As   *)
(* many values come back from a call as its callee declares.               *)
Declared(p, returns) == [p EXCEPT !.functions = [f \in 1 .. Len(@) |-> [@[f] EXCEPT !.returns = returns[f]]]]
AsDeclared(p) ==
    \A o \in ToSet(p.ops) : o.op = "call" => p.functions[o.val].returns \in {None, Len(o.outs)}

Stopping(ctl) == IF ctl = LastOpTerminates THEN <<Stop>> ELSE <<>>
Ending == {LastOpTerminates, InternalReturn, ContinuesTo(4)}
Tables ==
    {p \in {Declared(Program(<<"table", first, second, third, ins, exits, returns, main>>, <<1, 2, 3>>, main,
        <<Block(<<>>, <<Evm(1, Kind), first>> \o (IF first.op = "never" THEN <<>> ELSE <<Stop>>),
                <<>>, LastOpTerminates),
          Block(ins, <<Evm(2, Kind)>> \o second \o Stopping(exits[1]), <<>>, exits[1]),
          Block(<<>>, <<Evm(3, Kind)>> \o third \o Stopping(exits[2]),
                IF exits[2] = InternalReturn THEN <<3>> ELSE <<>>, exits[2]),
          Block(<<>>, <<Stop>>, <<>>, LastOpTerminates)>>), <<None>> \o returns)
        : first \in {CallNever(2, <<>>), CallNever(2, <<1>>), CallTo(2, <<>>, <<1>>), CallTo(2, <<>>, <<>>)},
          second \in {<<>>, <<CallNever(3, <<>>)>>, <<CallTo(3, <<6>>, <<>>)>>},
          third \in {<<>>, <<CallNever(2, <<3>>)>>}, ins \in {<<>>, <<5>>},
          exits \in Ending \X Ending, returns \in {None, 0} \X {None, 0, 1}, main \in {None, 3}}
     : AsDeclared(p)}

MCSuspects == Shapes \cup Uses \cup Edges \cup Tables
-----------------------------------------------------------------------------
Copy(out, in) == Op("copy", <<out>>, <<in>>, None)
Last2(x, y) == <<SStore(x, y), Stop>>
EvmOrConst(out) == {<<Evm(out, Kind)>>, <<SetConst(out, 1)>>}

(* Copies of copies around a branch that may be decided; 8 is unused.      *)
Copies ==
    {Program(<<"copies", s, x, y>>, <<1>>, None,
        <<Block(<<>>, s \o <<Copy(2, 1), Copy(3, 2), Add(8, 3, 2)>>, <<>>, Branches(3, 2, 3)),
          Block(<<>>, <<Copy(4, x)>>, <<4, 2>>, ContinuesTo(4)),
          Block(<<>>, <<SetConst(5, 2)>>, <<5, y>>, ContinuesTo(4)),
          Block(<<6, 7>>, Last2(6, 7), <<>>, LastOpTerminates)>>)
        : s \in EvmOrConst(1), x \in {2, 3}, y \in {3, 5}}

(* A switch on zero, or one that repeats its target, before a chain.       *)
SwitchChains ==
    {Program(<<"chain", s, ctl>>, <<1>>, None,
        <<Block(<<>>, s, <<>>, ctl),
          Block(<<>>, <<IsZero(2, 1)>>, <<2, 1>>, ContinuesTo(4)),
          Block(<<>>, <<SStore(1, 1)>>, <<1, 1>>, ContinuesTo(4)),
          Block(<<3, 4>>, <<Add(5, 3, 4)>>, <<4, 5>>, ContinuesTo(5)),
          Block(<<6, 7>>, <<Copy(8, 6)>>, <<>>, ContinuesTo(6)),
          Block(<<>>, Last2(8, 7), <<>>, LastOpTerminates)>>)
        : s \in EvmOrConst(1),
          ctl \in {Switch(1, <<<<0, 2>>>>, 3), Switch(1, <<<<0, 2>>, <<1, 3>>>>, 3),
                   Switch(1, <<<<0, 3>>, <<1, 3>>>>, 2), Branches(1, 2, 3), Branches(1, 3, 3)}}

(* Function 2 has a branch and two results and calls 3, which stores; each *)
(* is called as often as `first` and `second` say.  4 never returns.       *)
CallTrees ==
    {Program(<<"tree", s, first, second, main>>, <<1, 3, 6, 7>>, main,
        <<Block(<<>>, s \o first, <<>>, Branches(1, 2, 8)),
          Block(<<>>, second, <<>>, LastOpTerminates),
          Block(<<10, 11>>, <<Copy(12, 10)>>, <<>>, Branches(12, 4, 5)),
          Block(<<>>, <<CallTo(3, <<>>, <<10, 11>>)>>, <<>>, ContinuesTo(9)),
          Block(<<>>, <<IsZero(13, 11)>>, <<>>, ContinuesTo(10)),
          Block(<<14, 15>>, <<SStore(14, 15), SStore(15, 14)>>, <<>>, InternalReturn),
          Block(<<>>, <<SetConst(16, 1), Balance(17, 16), SStore(17, 16), Stop>>, <<>>, LastOpTerminates),
          Block(<<>>, <<CallNever(4, <<>>)>>, <<>>, LastOpTerminates),
          Block(<<>>, <<>>, <<10, 11>>, InternalReturn),
          Block(<<>>, <<>>, <<13, 12>>, InternalReturn)>>)
        : s \in {x \o <<SetConst(2, 2)>> : x \in EvmOrConst(1)},
          first \in {<<>>, <<CallTo(2, <<3, 4>>, <<1, 2>>)>>, <<CallTo(3, <<>>, <<2, 1>>)>>,
                     <<CallTo(2, <<3, 4>>, <<1, 2>>), CallTo(3, <<>>, <<3, 4>>), CallTo(2, <<5, 6>>, <<4, 3>>)>>},
          second \in {<<Stop>>, <<CallTo(2, <<7, 8>>, <<2, 2>>), SStore(8, 7), CallNever(4, <<>>)>>},
          main \in {None, 4}}

(* A loop in a function, called before and in a loop of the caller.        *)
LoopCalls ==
    {Program(<<"loops", s, size>>, <<1, 5>>, None,
        <<Block(<<>>, s \o <<CallTo(2, <<2>>, <<1>>)>>, <<2>>, ContinuesTo(2)),
          Block(<<3>>, <<IsZero(4, 3)>>, <<>>, Branches(4, 4, 3)),
          Block(<<>>, <<CallTo(2, <<5>>, <<3>>), SetConst(6, 2), Add(7, 5, 6)>>, <<7>>, ContinuesTo(2)),
          Block(<<>>, Last2(3, 4), <<>>, LastOpTerminates),
          Block(<<8>>, <<SetConst(12, 2)>>, <<8>>, ContinuesTo(6)),
          Block(<<9>>, size, <<>>, Branches(9, 7, 8)),
          Block(<<>>, <<Add(10, 9, 12)>>, <<10>>, ContinuesTo(6)),
          Block(<<>>, <<IsZero(11, 9)>>, <<11>>, InternalReturn)>>)
        : s \in EvmOrConst(1), size \in {<<>>, <<SStore(9, 9), SStore(9, 9), SStore(9, 9)>>}}

MCPrograms == Copies \cup SwitchChains \cup CallTrees \cup LoopCalls

(* The passes by the letters of the pass string. *)
AllPasses == {"s", "c", "u", "d", "l", "i", "m"}
AsSchedule(passes) == [i \in 1 .. Len(passes) |-> {passes[i]}]
Cslud == <<"c", "s", "l", "u", "d">>
Isum == <<"i", "s", "u", "m">>
O2 == AsSchedule(Cslud \o Isum \o Cslud \o Isum \o <<"c", "s", "u", "d">>)

AnyThree == {<<AllPasses, AllPasses, AllPasses>>, O2}
=============================================================================

------------------------------- MODULE MCSccp -------------------------------
(***************************************************************************)
(* What the analysis of SCCP promises: every conclusion it draws holds in  *)
(* every execution, and it stops with nothing left to conclude             *)
(* (FixedPoint).  That the rewritten program does the same is checked of   *)
(* the pass (PassManager).                                                 *)
(*                                                                         *)
(* The programs: every way a value reaches a branch, a switch, a loop or a *)
(* call.  The locals of each are numbered in the order of the text.        *)
(***************************************************************************)
EXTENDS SccpClient, SirAnalyses

(* The work lists run dry. *)
SccpTermination == <>(sccp \in {"done", "panic"})

-----------------------------------------------------------------------------
InputOf(p) ==
    LET rpo == ReversePostOrder(p)
    IN [prog |-> p, functions |-> rpo.functions, uses |-> DefUse(p, rpo)]

(* Where the first value comes from. *)
Sources(out) == {<<SetConst(out, w)>> : w \in Word} \cup {<<Evm(out, k)>> : k \in EvmKinds}
                \cup {<<SetConst(10, 1), Balance(out, 10)>>}
Numbers == {0, 2}

(* if (1) { 2 -> } else { 3 -> }; 4 := phi; 5 := 4 + 1 *)
Diamonds ==
    {Program(<<"diamond", s, x, y>>, <<1>>, None,
        <<Block(<<>>, s, <<>>, Branches(1, 2, 3)),
          Block(<<>>, <<SetConst(2, x)>>, <<2>>, ContinuesTo(4)),
          Block(<<>>, <<SetConst(3, y)>>, <<3>>, ContinuesTo(4)),
          Block(<<4>>, <<Add(5, 4, 1)>>, <<>>, Branches(4, 5, 6)),
          Block(<<>>, <<SStore(5, 4), Stop>>, <<>>, LastOpTerminates),
          Block(<<>>, <<IsZero(6, 5), SStore(6, 5), Stop>>, <<>>, LastOpTerminates)>>)
        : s \in Sources(1), x \in Numbers, y \in Numbers}

(* A loop that counts 3 from 1 by 2 and carries 4, which it may change. *)
Loops ==
    {Program(<<"loop", start, s, carried>>, <<1>>, None,
        <<Block(<<>>, <<SetConst(1, start)>> \o s, <<1, 2>>, ContinuesTo(2)),
          Block(<<3, 4>>, <<IsZero(5, 3)>>, <<>>, Branches(5, 4, 3)),
          Block(<<>>, <<Add(6, 3, 2), Add(7, 4, 4)>>, <<6, carried>>, ContinuesTo(2)),
          Block(<<>>, <<SStore(4, 3), Stop>>, <<>>, LastOpTerminates)>>)
        : start \in Word, s \in Sources(2), carried \in {4, 7}}

Switches ==
    {Program(<<"switch", s, fallback, x>>, <<1>>, None,
        <<Block(<<>>, s, <<1>>, Switch(1, <<<<0, 2>>, <<2, 3>>, <<2, 4>>>>, fallback)),
          Block(<<2>>, <<SetConst(5, x)>>, <<5>>, ContinuesTo(5)),
          Block(<<3>>, <<>>, <<3>>, ContinuesTo(5)),
          Block(<<4>>, <<SetConst(6, 1)>>, <<6>>, ContinuesTo(5)),
          Block(<<7>>, <<Add(8, 7, 7), SStore(8, 7), Stop>>, <<>>, LastOpTerminates)>>)
        : s \in Sources(1), fallback \in {4, None}, x \in Numbers}

(* A call with two results, one in a branch that may be dead, and a main   *)
(* function that shares the callees.                                       *)
Calls ==
    {Program(<<"calls", s, x, main>>, <<1, 4, 6>>, main,
        <<Block(<<>>, s \o <<CallTo(2, <<2, 3>>, <<1>>)>>, <<>>, Branches(2, 2, 3)),
          Block(<<>>, <<SStore(2, 3), CallNever(3, <<>>)>>, <<>>, LastOpTerminates),
          Block(<<>>, <<SStore(3, 2), Stop>>, <<>>, LastOpTerminates),
          Block(<<4>>, <<SetConst(5, x)>>, <<5, 4>>, ContinuesTo(5)),
          Block(<<6, 7>>, <<Add(8, 6, 6)>>, <<8, 7>>, InternalReturn),
          Block(<<>>, <<SetConst(9, 1), SStore(9, 9), Stop>>, <<>>, LastOpTerminates)>>)
        : s \in Sources(1), x \in Numbers, main \in {None, 3}}

(* The inner branch is visited through the use of 1 before its block is, so *)
(* that the join is visited while 3 is still unknown.                      *)
LateJoins ==
    {Program(<<"late", s, x, ctl>>, <<1>>, None,
        <<Block(<<>>, s, <<>>, Branches(1, 2, 7)),
          Block(<<>>, <<SetConst(2, x)>>, <<>>, Branches(1, 3, 4)),
          Block(<<>>, <<>>, <<2>>, ContinuesTo(5)),
          Block(<<>>, <<>>, <<2>>, ContinuesTo(5)),
          Block(<<3>>, <<Add(4, 3, 1)>>, <<>>, ctl),
          Block(<<>>, <<SStore(4, 3), Stop>>, <<>>, LastOpTerminates),
          Block(<<>>, <<Stop>>, <<>>, LastOpTerminates)>>)
        : s \in Sources(1), x \in Numbers,
          ctl \in {Branches(3, 6, 7), Switch(3, <<<<0, 6>>, <<1, 6>>>>, 7)}}

EmptySwitches ==
    {Program(<<"empty", s>>, <<1>>, None, <<Block(<<>>, s, <<>>, Switch(1, <<>>, None))>>) : s \in Sources(1)}

MCInputs ==
    {InputOf(p) : p \in Diamonds \cup Loops \cup Switches \cup EmptySwitches \cup Calls \cup LateJoins}
=============================================================================

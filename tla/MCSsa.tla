------------------------------- MODULE MCSsa -------------------------------
(* Programs for the construction of SSA form: locals are written and read  *)
(* again in every way by the blocks of every small graph.                  *)
EXTENDS SsaTransform, DebugBackend

Copy(out, in) == Op("copy", <<out>>, <<in>>, None)
Read1 == CHOOSE k \in EvmKinds : TRUE
Start2 == Block(<<>>, <<Evm(1, Read1), SetConst(2, 2)>>, <<>>, ContinuesTo(2))

(* What three blocks do to local 1: write, change, use, or nothing. *)
New == <<SetConst(1, 1)>>
Change == <<Add(1, 1, 2)>>
Use1 == <<SStore(1, 2)>>
Bodies == {<<Change, New, <<>>>>, <<<<>>, Change, New>>, <<New, Use1, Change>>,
           <<Use1, New, New>>, <<Change, Change, Change>>, <<<<>>, Change \o Use1, Use1 \o New>>}

Closing(ctl) == IF ctl = LastOpTerminates THEN <<SStore(1, 2), Stop>> ELSE <<>>

(* Every graph of three blocks. *)
Graphs3 ==
    {p \in {Program(<<"graph", ctls, bodies>>, <<1>>, None,
               <<Start2>> \o [i \in 1 .. 3 |-> Block(<<>>, bodies[i] \o Closing(ctls[i]), <<>>, ctls[i])])
            : ctls \in [1 .. 3 -> {LastOpTerminates} \cup {ContinuesTo(b) : b \in 2 .. 4}
                                  \cup {Branches(1, b, c) : b \in 2 .. 4, c \in 2 .. 4}],
              bodies \in Bodies} : ReachableBlocks(ReversePostOrder(p)) = BlockIds(p)}

(* Switches with repeated targets and with or without a default. *)
Switches ==
    {Program(<<"switch", a, b, fallback, back>>, <<1>>, None,
        <<Start2,
          Block(<<>>, <<>>, <<>>, Switch(1, <<<<0, a>>, <<1, b>>>>, fallback)),
          Block(<<>>, Change, <<>>, ContinuesTo(back)),
          Block(<<>>, Use1 \o New, <<>>, Branches(1, 5, 2)),
          Block(<<>>, <<SStore(1, 2), Stop>>, <<>>, LastOpTerminates)>>)
        : a \in 3 .. 5, b \in 3 .. 5, fallback \in {None} \cup (2 .. 5), back \in {2, 4, 5}}

(* A loop that swaps two locals, around a loop that does so or not. *)
Swap == <<Copy(3, 1), Copy(1, 2), Copy(2, 3)>>
Loops ==
    {Program(<<"loops", x, y, exit>>, <<1>>, None,
        <<Block(<<>>, <<Evm(1, Read1), SetConst(2, 0), SetConst(4, 1)>>, <<>>, ContinuesTo(2)),
          Block(<<>>, x, <<>>, Branches(1, 3, 5)),
          Block(<<>>, y, <<>>, Branches(2, 3, 4)),
          Block(<<>>, <<Add(1, 1, 4)>>, <<>>, exit),
          Block(<<>>, <<SStore(1, 2), Stop>>, <<>>, LastOpTerminates)>>)
        : x \in {Swap, <<>>}, y \in {Swap, Swap \o <<Add(2, 2, 4)>>, <<Add(2, 1, 2)>>},
          exit \in {ContinuesTo(2), Branches(4, 2, 5), Branches(2, 3, 2)}}

(* A function whose entry is the head of a loop, called twice. *)
LoopsAtEntry(back) ==
    {Program(<<"entry", x, main, b>>, <<1, 3, 2>>, main,
        <<Block(<<>>, <<Evm(1, Read1), SetConst(2, 1), CallTo(2, <<1>>, <<2, 1>>),
                        CallTo(2, <<2>>, <<1, 2>>), SStore(1, 2), Stop>>, <<>>, LastOpTerminates),
          Block(<<>>, <<SetConst(1, 0), CallTo(2, <<1>>, <<1, 1>>), SStore(1, 1), Stop>>,
                <<>>, LastOpTerminates),
          Block(<<3, 4>>, x, <<>>, b[1]),
          Block(<<>>, <<Add(3, 3, 4)>>, <<>>, b[2]),
          Block(<<>>, <<>>, <<3>>, InternalReturn)>>)
        : x \in {<<>>, <<IsZero(4, 4)>>, <<SetConst(3, 2)>>}, main \in {None, 3}, b \in back}

(* Its loop is closed by a jump, or by more than one edge. *)
RegularLoops ==
    LoopsAtEntry({<<Branches(4, 4, 5), ContinuesTo(3)>>, <<Branches(3, 3, 4), Branches(4, 3, 5)>>,
                  <<Branches(4, 4, 5), ContinuesTo(5)>>})

(* DebugCodeRuns: without optimisations the result goes to the debug       *)
(* backend as it is, and the code does what the source did.                *)
DebugCodeRuns ==
    stage = "done" =>
        \E code \in {DebugCode(prog)} : PlacesAreMarked(code) /\ DoesAsProgram(original, code)

MCPrograms == Graphs3 \cup Switches \cup Loops \cup RegularLoops
=============================================================================

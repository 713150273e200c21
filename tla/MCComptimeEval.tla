--------------------------- MODULE MCComptimeEval ---------------------------
(* Small families of programs for ComptimeEval: keys f0 and f1 are two     *)
(* specialisations of one function F, key g is a function G.               *)
EXTENDS ComptimeProperties

CONSTANTS F, G, f0, f1, g, A, B, bF0, bF1, bG, none, pG, cA, cB, main, then, else

MCKeys == {f0, f1, g}
MCDefOf == [k \in MCKeys |-> IF k = g THEN G ELSE F]
MCBlocks == {bF0, bF1, bG, none, pG, cA, cB, main, then, else}

call(k) == [op |-> "call", key |-> k, ct |-> FALSE]
comptimeCall(k) == [op |-> "call", key |-> k, ct |-> TRUE]
readConst(c) == [op |-> "const", id |-> c]
branch == [op |-> "branch"]
oops == [op |-> "oops"]
fail == [op |-> "fail"]
stop == [op |-> "stop"]
raise(n) == [op |-> "raise", limit |-> n]
match == [op |-> "match", arms |-> <<then, else>>]
while == [op |-> "while", body |-> then]
ret(dep) == [op |-> "ret", dep |-> dep, val |-> 1]

(* A body that raises its quota and spends past the default one. *)
heavy == <<raise(3), branch, branch>>

Program(blocks, never, folds, rtArg, entries, order) ==
    [block |-> blocks,
     preamble |-> [k \in MCKeys |-> IF k = g THEN pG ELSE none],
     body |-> [k \in MCKeys |-> IF k = f0 THEN bF0 ELSE IF k = f1 THEN bF1 ELSE bG],
     never |-> never, folds |-> folds, rtArg |-> rtArg,
     const |-> [c \in {A, B} |-> IF c = A THEN cA ELSE cB],
     entries |-> entries, consts |-> order]

always(x) == [k \in MCKeys |-> x]
FoldOnly == always(TRUE)

Blocks3(b0, b1, bg, pre, a, b, e, t, el) ==
    [x \in MCBlocks |->
        CASE x = bF0 -> b0 [] x = bF1 -> b1 [] x = bG -> bg [] x = pG -> pre
          [] x = cA -> a [] x = cB -> b [] x = main -> e [] x = then -> t [] x = else -> el
          [] x = none -> <<>>]

(* Comptime functions called from consts. *)
PrefixCode(S) ==
    {<<>>} \cup {<<s>> : s \in S} \cup {<<s>> \o heavy : s \in S} \cup {<<raise(3), s>> : s \in S}
Bodies(S) == {p \o <<ret(d)>> : p \in PrefixCode(S), d \in BOOLEAN}
ComptimeChoices ==
    Bodies({call(f1), call(g), readConst(B)}) \X Bodies({call(f0), oops, readConst(A)})
    \X Bodies({call(f0), call(f1), fail}) \X {<<>>, <<branch>>}
ComptimeProgram(c) ==
    Program(Blocks3(c[1], c[2], c[3], c[4], <<call(f0)>>, <<call(g)>>, <<>>, <<>>, <<>>),
            always(FALSE), FoldOnly, always(FALSE), <<>>, <<A, B>>)

(* Runtime functions called from an entry point; g is called with runtime  *)
(* arguments, folded, never-returning or badly typed in turn.              *)
RuntimeBodies0 ==
    {<<s>> \o t \o <<r>> : s \in {call(f1), call(g), comptimeCall(g), match, while},
                          t \in {<<>>, <<branch, branch>>}, r \in {ret(TRUE), stop}}
RuntimeBodies1 ==
    {<<ret(FALSE)>>, <<call(f0), ret(TRUE)>>, <<call(g), stop>>, <<branch, branch, ret(FALSE)>>}
BodiesG ==
    {<<ret(FALSE)>>, <<call(g), ret(TRUE)>>, <<call(f0), branch, branch, ret(FALSE)>>, <<fail>>,
     <<match, stop>>}
OfG(x, y) == [k \in MCKeys |-> IF k = g THEN x ELSE y]
RuntimeChoices ==
    RuntimeBodies0 \X RuntimeBodies1 \X BodiesG
    \X {<<>>, <<oops>>, <<branch, branch>>}            \* the preamble of g
    \X {<<call(f0)>>, <<branch, branch>>} \X {<<stop>>, <<call(g)>>}   \* two arms
    \X BOOLEAN \X BOOLEAN \X BOOLEAN                    \* never, folds, rtArg of g
RuntimeProgram(c) ==
    Program(Blocks3(c[1], c[2], c[3], c[4], <<call(g)>>, <<oops>>,
                    <<call(f0), call(g), readConst(A)>> \o (IF c[7] THEN <<>> ELSE <<stop>>), c[5], c[6]),
            OfG(c[7], FALSE), OfG(c[8], FALSE), OfG(c[9], FALSE), <<main>>, <<A, B>>)

MCPrograms ==
    {IF Len(c) = 4 THEN ComptimeProgram(c) ELSE RuntimeProgram(c) : c \in ComptimeChoices \cup RuntimeChoices}
====

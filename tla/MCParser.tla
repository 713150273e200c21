------------------------------ MODULE MCParser -------------------------------
(***************************************************************************)
(* What the parser promises of any file, valid or not, against the         *)
(* language as a grammar (plankc/docs/Grammar.md, with what the parser     *)
(* settles on where that leaves a choice: an expression goes on as long as *)
(* it can, and no struct literal stands before a block).  A symbol is a    *)
(* nonterminal, a token, or a condition on the next token.                 *)
(***************************************************************************)
EXTENDS Ast

Continuations == Range(BinaryOps) \cup {".", "(", "{", "="}
Conditions == [ends |-> Continuations, noblock |-> {"{"}, nocomptime |-> {"comptime"}]

Tokens(symbols) == {<<t>> : t \in symbols}

(* The alternatives of each nonterminal; `Bare` expressions are those      *)
(* before a block.                                                         *)
Rules == [
    File |-> {<<>>, <<"Decl", "File">>},
    Decl |-> {<<"init", "Block">>, <<"run", "Block">>, <<"const", "ident", "Type", "=", "Expr", ";">>,
              <<"Use">>, <<"pub", "Use">>},
    Type |-> {<<>>, <<":", "Expr">>},
    Use |-> {<<"use", "ident", "Path", "Suffix", ";">>},
    Path |-> {<<>>, <<"::", "ident", "Path">>},
    Suffix |-> {<<>>, <<"as", "ident">>, <<"::", "*">>, <<"::", "{", "Items", "}">>},
    Items |-> {<<>>, <<"Item">>, <<"Item", ",", "Items">>},
    Item |-> {<<"ident">>, <<"ident", "as", "ident">>},

    Expr |-> {<<"Operand">>, <<"Operand", "Binary", "Expr">>},
    Operand |-> {<<"Unary", "Operand">>, <<"Primary", "Postfix">>},
    Postfix |-> {<<>>, <<"Applied", "Postfix">>, <<"{", "Values", "}", "Postfix">>},
    Bare |-> {<<"BareOperand">>, <<"BareOperand", "Binary", "Bare">>},
    BareOperand |-> {<<"Unary", "BareOperand">>, <<"Primary", "BarePostfix">>},
    BarePostfix |-> {<<>>, <<"Applied", "BarePostfix">>},
    Applied |-> {<<".", "ident">>, <<"(", "Exprs", ")">>},
    Binary |-> Tokens(Range(BinaryOps)),
    Unary |-> Tokens(Range(UnaryOps)),
    Exprs |-> {<<>>, <<"Expr">>, <<"Expr", ",", "Exprs">>},
    Values |-> {<<>>, <<"Value">>, <<"Value", ",", "Values">>},
    Value |-> {<<"ident", ":", "Expr">>},

    Primary |-> Tokens({"true", "false", "num", "Self", "ident", "builtin"}) \cup
        {<<"Strings">>, <<"(", "Exprs", ")">>, <<"comptime", "Block">>, <<"eager", "fn", "Function">>,
         <<"fn", "Function">>, <<"struct", "Index", "{", "Fields", "Methods", "}">>,
         <<"tuple", "{", "Exprs", "}">>, <<"BlockLike">>},
    Strings |-> {<<"str">>, <<"str", "Strings">>},
    Function |-> {<<"(", "Params", ")", "Bare", "Block">>},
    Params |-> {<<>>, <<"Param">>, <<"Param", ",", "Params">>},
    Param |-> {<<"ident", ":", "ParamType">>, <<"comptime", "ident", ":", "ParamType">>},
    ParamType |-> {<<"Expr">>, <<"$", "ident">>},
    Index |-> {<<>>, <<"noblock", "Bare">>},
    Fields |-> {<<>>, <<"Value">>, <<"Value", ",", "Fields">>},
    Methods |-> {<<>>, <<"fn", "ident", "Function", "Methods">>,
                 <<"eager", "fn", "ident", "Function", "Methods">>},

    BlockLike |-> {<<"Block">>, <<"If">>, <<"match", "Bare", "{", "Arms", "}">>},
    If |-> {<<"if", "Bare", "Block">>, <<"if", "Bare", "Block", "else", "Block">>,
            <<"if", "Bare", "Block", "else", "If">>},
    Arms |-> {<<>>, <<"Arm">>, <<"Arm", ",", "Arms">>},
    Arm |-> {<<"Expr", "=>", "Expr">>, <<"else", "=>", "Expr">>, <<"else", "ident", "=>", "Expr">>},

    Block |-> {<<"{", "Stmts", "}">>},
    Stmts |-> {<<>>, <<"nocomptime", "Expr">>, <<"Stmt", "Stmts">>},
    Stmt |-> {<<"nocomptime", "Expr", ";">>, <<"nocomptime", "Expr", "=", "Expr", ";">>,
              <<"BlockLike", "ends">>, <<"comptime", "Block">>, <<"comptime", "Block", ";">>,
              <<"comptime", "Let">>, <<"Let">>, <<"return", "Expr", ";">>,
              <<"while", "Bare", "Block">>, <<"inline", "while", "Bare", "Block">>},
    Let |-> {<<"let", "Name", "Type", "=", "Expr", ";">>},
    Name |-> {<<"ident">>, <<"mut", "ident">>}]

(* Where a string of symbols that starts at i may end.                     *)
RECURSIVE Ends(_, _, _)
Ends(symbols, s, i) ==
    LET first == Head(symbols)
        after ==
            CASE first \in DOMAIN Rules -> UNION {Ends(alternative, s, i) : alternative \in Rules[first]}
              [] first \in DOMAIN Conditions -> IF Class(s[i]) \in Conditions[first] THEN {} ELSE {i}
              [] OTHER -> IF Class(s[i]) = first THEN {i + 1} ELSE {}
    IN IF symbols = <<>> THEN {i} ELSE UNION {Ends(Tail(symbols), s, j) : j \in after}

(* The tokens, the last of them eof, are a file of the language.           *)
IsFile(tokens) ==
    LET s == SelectSeq(tokens, LAMBDA t : t # " ")
    IN Range(s) \cap LexErrors = {} /\ Len(s) \in Ends(<<"File">>, s, 1)
-----------------------------------------------------------------------------
Accepted == done /\ p.diags = <<>>
Nodes == Range(p.nodes)
KidAt(node, k) == p.nodes[node.kids[k]]

(* Siblings follow each other inside their parent.                         *)
Nests(node) ==
    LET spans == FlattenSeq([k \in DOMAIN node.kids |-> <<KidAt(node, k).start, KidAt(node, k).end>>])
        bounds == <<node.start>> \o spans \o <<node.end>>
    IN node.kids = <<>> \/ \A i \in 1 .. Len(bounds) - 1 : bounds[i] <= bounds[i + 1]

(* An operator groups what binds tighter, the left of two alike first.     *)
Grouped(node) ==
    LET binary(k) == KidAt(node, k).kind = "BinaryExpr"
        priority(n) == Priority(n.text)
    IN CASE node.kind = "BinaryExpr" ->
               /\ binary(1) => priority(KidAt(node, 1)) >= priority(node)
               /\ binary(3) => priority(KidAt(node, 3)) > priority(node)
         [] node.kind = "UnaryExpr" -> ~binary(1)
         [] node.kind \in {"CallExpr", "MemberExpr", "StructLit"} ->
               ~binary(1) /\ KidAt(node, 1).kind # "UnaryExpr"
         [] OTHER -> TRUE

(* The tokens with a text of their own, and the nodes that stand for them. *)
TextClasses == {"ident", "builtin", "num", "true", "false", "Self"}
Texts == {i \in DOMAIN p.tokens : Class(p.tokens[i]) \in TextClasses}
Leaves ==
    {n \in DOMAIN p.nodes : p.nodes[n].kind \in Literals \cup {"ParamAnyType"} /\ p.nodes[n].text # None}

RECURSIVE Subterms(_)
Subterms(t) ==
    {t} \cup IF t.is \in {"use", "pub use", "group", "pub group"} THEN {}
             ELSE UNION {Subterms(t.parts[k]) : k \in DOMAIN t.parts}
Terms == UNION {Subterms(t) : t \in Range(Defs(p.nodes))}

Unforeseen == {"unexpected", "lexer", "builtin as identifier"}

-----------------------------------------------------------------------------
(* No file of a few tokens makes the parser panic: fuel lasts, no look      *)
(* goes past the end of the file, no two siblings overlap.  And the spans  *)
(* of the tree nest, which the tests assert of their own sources only      *)
(* (cst/mod.rs, assert_no_intersecting_token_spans).                       *)
TreesNest == ~p.panic /\ (done => \A node \in Nodes : Nests(node))

(* The parser recovers from every error and goes on, so that what it       *)
(* accepts is only what it never complained about: exactly the files of    *)
(* the grammar.                                                            *)
LanguageIsAccepted == done => (Accepted <=> IsFile(p.tokens))

(* The tree of an accepted file groups by priority, and has every name and *)
(* number of the file once.                                                *)
TreeReadsBack ==
    Accepted => /\ \A node \in Nodes : Grouped(node)
                /\ {p.nodes[n].end - 1 : n \in Leaves} = Texts
                /\ Cardinality(Leaves) = Cardinality(Texts)

(* The tree is one, and it is that of the file.                            *)
TreeIsFaithful == TreesNest /\ TreeReadsBack

(* Later stages skip what is malformed without a word, so all of it must   *)
(* have been reported where it stands (and the views of the tree never     *)
(* meet what they assert not to); no token is reported twice.              *)
ErrorsAreReported ==
    done => /\ \A t \in Terms :
                 /\ t.is # "panic"
                 /\ t.is = "error" => \E d \in Range(p.diags) : d[2] \in t.start - 1 .. t.end + 1
            /\ \A i, j \in DOMAIN p.diags :
                 i # j /\ p.diags[i][2] = p.diags[j][2] => {p.diags[i][1], p.diags[j][1]} \ Unforeseen # {}

(* ComplaintsAreRight: a file is complained of exactly when it is not in   *)
(* the language, and what is malformed is, where it stands and once.       *)
ComplaintsAreRight == LanguageIsAccepted /\ ErrorsAreReported

-----------------------------------------------------------------------------
(***************************************************************************)
(* Valid files that reach every construct, each with every token left out  *)
(* or replaced, and a token put in anywhere.                               *)
(***************************************************************************)
Programs == {
    <<"const", "a", ":", "b", "=", "-", "a", "+", "1", "*", "b", "or", "!", "@f", "(", "a", ",", "b", ")", ".", "c", ";">>,
    <<"use", "a", "::", "b", ";", "pub", "use", "a", "::", "{", "b", "as", "c", ",", "a", "}", ";", "use", "a", "::", "*", ";",
      "use", "a", "::", "b", "as", "c", ";">>,
    <<"init", "{", "let", "mut", "a", ":", "b", "=", "1", ";", "a", "=", "b", "{", "a", ":", "1", "}", ";",
      "return", "a", ";", "}">>,
    <<"run", "{", "while", "a", "<", "b", "{", "}", "inline", "while", "true", "{", "a", ";", "}",
      "comptime", "{", "}", "comptime", "let", "a", "=", "1", ";", "if", "a", "{", "}", "}">>,
    <<"run", "{", "if", "a", "{", "b", "}", "-", "1", ";", "{", "}", "match", "a", "{", "}", ";", "eager", "fn", "(", ")",
      "b", "{", "}", ";", "}">>,
    <<"const", "a", "=", "fn", "(", "comptime", "a", ":", "b", ",", "c", ":", "$", "b", ")", "b", "{", "a", "}", ";">>,
    <<"const", "a", "=", "struct", "b", "{", "a", ":", "b", ",", "c", ":", "Self", "fn", "a", "(", ")", "b", "{", "}",
      "eager", "fn", "b", "(", ")", "c", "{", "}", "}", ";">>,
    <<"const", "a", "=", "if", "a", "{", "b", "}", "else", "if", "c", "{", "}", "else", "{", "1", "}", ";">>,
    <<"const", "a", "=", "match", "a", "{", "1", "=>", "b", ",", "else", "c", "=>", "{", "}", ",", "}", ";">>,
    <<"const", "a", "=", "(", "tuple", "{", "b", ",", "c", "}", ",", "str", "str", ",", "(", ")", ",", "(", "1", ")", ")", ";">>
}
Vocabulary == {
    "a", "1", "@f", "str", " ", "bad", "(", ")", "{", "}", ",", ";", ":", "=", "::", "*", "-", ".", "=>", "$",
    "const", "init", "pub", "use", "as", "let", "mut", "return", "comptime", "while", "inline", "if", "else", "match",
    "fn", "eager", "struct", "tuple", "Self", "true"}
Edits(s) ==
    {s} \cup {RemoveAt(s, i) : i \in DOMAIN s} \cup {SubSeq(s, 1, i) : i \in DOMAIN s}
        \cup {[s EXCEPT ![i] = t] : i \in DOMAIN s, t \in Vocabulary}
        \cup {InsertAt(s, i, t) : i \in DOMAIN s, t \in Vocabulary}
MCSources == UNION {Edits(s) : s \in Programs}
==============================================================================

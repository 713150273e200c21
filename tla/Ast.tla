--------------------------------- MODULE Ast --------------------------------
(***************************************************************************)
(* The abstract syntax read off the nodes of a concrete syntax tree        *)
(* (parser/src/ast/mod.rs, expr.rs).  A term says what it is, a name or    *)
(* an operator if it has one, its parts and the tokens it stands for; what *)
(* a node is too broken to be read as is an "error", and what the code     *)
(* asserts never to meet is a "panic".                                     *)
(***************************************************************************)
EXTENDS Parser

Term(is, name, node, parts) ==
    [is |-> is, name |-> name, start |-> node.start, end |-> node.end, parts |-> parts]
Malformed(node) == Term("error", None, node, <<>>)
NeverMet(node) == Term("panic", None, node, <<>>)

Kid(nodes, node, i) == nodes[node.kids[i]]
HasKid(node, i) == i \in DOMAIN node.kids

(* The name of the i-th child, None unless it is an identifier.            *)
NameOf(nodes, node, i) ==
    IF HasKid(node, i) /\ Kid(nodes, node, i).kind = "Identifier" THEN Kid(nodes, node, i).text ELSE None

KidsOfKinds(nodes, node, kinds) == SelectSeq(node.kids, LAMBDA k : nodes[k].kind \in kinds)

BlockKinds == {"Block", "ComptimeBlock", "InitBlock", "RunBlock"}
Literals == {"BoolLiteral", "NumLiteral", "StringLiteral", "SelfType", "Identifier", "BuiltinName"}
ExprKinds ==
    Literals \cup {"ParenExpr", "BinaryExpr", "UnaryExpr", "CallExpr", "MemberExpr", "StructDef", "StructLit",
                   "TupleType", "TupleLit", "If", "Match", "FnDef", "EagerFnDef", "Block", "ComptimeBlock", "Error"}

RECURSIVE Expr(_, _), BlockExpr(_, _)

(* The i-th child as an expression, an error if there is none.             *)
ExprAt(nodes, node, i) ==
    IF HasKid(node, i) /\ Kid(nodes, node, i).kind \in ExprKinds
    THEN Expr(nodes, Kid(nodes, node, i)) ELSE Malformed(node)
ExprsFrom(nodes, node, i) == [k \in 1 .. (Len(node.kids) - i + 1) |-> ExprAt(nodes, node, i + k - 1)]
BlockAt(nodes, node, i) == BlockExpr(nodes, Kid(nodes, node, i))

-----------------------------------------------------------------------------
(* Parts that are not expressions themselves; the malformed ones of a list *)
(* are left out by those who read it.                                      *)
Named(nodes, is, node, value) ==
    IF NameOf(nodes, node, 1) = None THEN Malformed(node)
    ELSE Term(is, NameOf(nodes, node, 1), node, <<value>>)
Field(nodes, node) == Named(nodes, "field", node, ExprAt(nodes, node, 2))

ParamType(nodes, node) ==
    IF ~HasKid(node, 2) THEN Malformed(node)
    ELSE IF Kid(nodes, node, 2).kind = "ParamAnyType"
    THEN Term("any", Kid(nodes, node, 2).text, Kid(nodes, node, 2), <<>>)
    ELSE ExprAt(nodes, node, 2)
Param(nodes, node) ==
    Named(nodes, IF node.kind = "ComptimeParameter" THEN "comptime param" ELSE "param", node,
          ParamType(nodes, node))

Readable(terms) == SelectSeq(terms, LAMBDA t : t.is # "error")
ReadAll(nodes, node, kinds, Read(_, _)) ==
    LET kids == KidsOfKinds(nodes, node, kinds)
    IN [k \in DOMAIN kids |-> Read(nodes, nodes[kids[k]])]

(* A function is its parameters, its return type and its body.             *)
Function(nodes, is, name, node, first) ==
    IF ~HasKid(node, first) \/ ~HasKid(node, first + 2) THEN Malformed(node)
    ELSE LET list == Kid(nodes, node, first)
             params == ReadAll(nodes, list, {"Parameter", "ComptimeParameter"}, Param)
         IN Term(is, name, node, <<Term("params", None, list, params), ExprAt(nodes, node, first + 1),
                                   BlockAt(nodes, node, first + 2)>>)

Method(nodes, node) ==
    IF NameOf(nodes, node, 1) = None THEN Malformed(node)
    ELSE Function(nodes, IF node.kind = "EagerMethodDef" THEN "eager method" ELSE "method",
                  NameOf(nodes, node, 1), node, 2)

(* The index is whatever stands before the body.                           *)
StructDefExpr(nodes, node) ==
    LET plain == HasKid(node, 1) /\ Kid(nodes, node, 1).kind = "StructBody"
        at == IF plain THEN 1 ELSE 2
        body == Kid(nodes, node, at)
        fields == ReadAll(nodes, body, {"FieldDef"}, Field)
        methods == ReadAll(nodes, body, {"MethodDef", "EagerMethodDef"}, Method)
        index == IF plain THEN <<>> ELSE <<ExprAt(nodes, node, 1)>>
    IN IF ~HasKid(node, at) \/ body.kind # "StructBody" THEN Malformed(node)
       ELSE Term("struct", None, node,
                 <<Term("fields", None, body, fields), Term("methods", None, body, methods)>> \o index)

MatchArm(nodes, node) ==
    CASE node.kind = "MatchArm" /\ HasKid(node, 2) ->
            Term("case", None, node, <<ExprAt(nodes, node, 1), ExprAt(nodes, node, 2)>>)
      [] node.kind = "MatchFallbackArm" /\ HasKid(node, 1) ->
            Term("fallback", None, node, <<ExprAt(nodes, node, 1)>>)
      [] node.kind = "MatchBindingArm" /\ NameOf(nodes, node, 1) # None /\ HasKid(node, 2) ->
            Term("fallback", NameOf(nodes, node, 1), node, <<ExprAt(nodes, node, 2)>>)
      [] OTHER -> NeverMet(node)

ElseIfBranch(nodes, node) ==
    IF ~HasKid(node, 2) THEN Malformed(node)
    ELSE Term("branch", None, node, <<ExprAt(nodes, node, 1), BlockAt(nodes, node, 2)>>)

(* Condition, block, the branches, and the last block if there is one.     *)
IfExpr(nodes, node) ==
    LET list == Kid(nodes, node, 3)
        branches == IF HasKid(node, 3) THEN ReadAll(nodes, list, {"ElseIfBranch"}, ElseIfBranch) ELSE <<>>
    IN IF ~HasKid(node, 2) THEN Malformed(node)
       ELSE Term("if", None, node,
                 <<ExprAt(nodes, node, 1), BlockAt(nodes, node, 2), Term("branches", None, node, branches)>>
                 \o IF HasKid(node, 4) THEN <<BlockAt(nodes, node, 4)>> ELSE <<>>)

(* A call of a member that is not in parentheses is a method call.         *)
CallExpr(nodes, node) ==
    LET direct == HasKid(node, 1) /\ Kid(nodes, node, 1).kind = "MemberExpr"
    IN Term(IF direct /\ NameOf(nodes, Kid(nodes, node, 1), 2) # None THEN "method call" ELSE "call",
            None, node, ExprsFrom(nodes, node, 1))

-----------------------------------------------------------------------------
Expr(nodes, node) ==
    LET parts == ExprsFrom(nodes, node, 1)
    IN CASE node.kind = "ParenExpr" -> ExprAt(nodes, node, 1)
         [] node.kind = "BinaryExpr" ->
               IF HasKid(node, 2)
               THEN Term("binary", node.text, node, <<ExprAt(nodes, node, 1), ExprAt(nodes, node, 3)>>)
               ELSE Malformed(node)
         [] node.kind = "UnaryExpr" -> Term("unary", node.text, node, <<ExprAt(nodes, node, 1)>>)
         [] node.kind = "CallExpr" -> CallExpr(nodes, node)
         [] node.kind = "MemberExpr" ->
               IF NameOf(nodes, node, 2) = None THEN Malformed(node)
               ELSE Term("member", NameOf(nodes, node, 2), node, <<ExprAt(nodes, node, 1)>>)
         [] node.kind = "StructDef" -> StructDefExpr(nodes, node)
         [] node.kind = "StructLit" ->
               Term("struct literal", None, node,
                    <<ExprAt(nodes, node, 1)>> \o ReadAll(nodes, node, {"FieldAssign"}, Field))
         [] node.kind = "TupleType" -> Term("tuple type", None, node, parts)
         [] node.kind = "TupleLit" -> Term("tuple", None, node, parts)
         [] node.kind = "If" -> IfExpr(nodes, node)
         [] node.kind = "Match" ->
               IF ~HasKid(node, 2) THEN Malformed(node)
               ELSE LET arms == Kid(nodes, node, 2)
                    IN Term("match", None, node,
                            <<ExprAt(nodes, node, 1)>>
                            \o [k \in DOMAIN arms.kids |-> MatchArm(nodes, Kid(nodes, arms, k))])
         [] node.kind = "FnDef" -> Function(nodes, "fn", None, node, 1)
         [] node.kind = "EagerFnDef" -> Function(nodes, "eager fn", None, node, 1)
         [] node.kind \in {"Block", "ComptimeBlock"} -> BlockExpr(nodes, node)
         [] node.kind \in Literals -> Term(node.kind, node.text, node, <<>>)
         [] OTHER -> Malformed(node)

LetStmt(nodes, node) ==
    LET typed == node.kind = "TypedLetStmt"
        name == NameOf(nodes, node, 1)
    IN IF name = None \/ ~HasKid(node, IF typed THEN 3 ELSE 2) THEN Malformed(node)
       ELSE Term(node.text, name, node, ExprsFrom(nodes, node, 2))

Statement(nodes, node) ==
    CASE node.kind \in {"LetStmt", "TypedLetStmt"} -> LetStmt(nodes, node)
      [] node.kind = "ReturnStmt" -> Term("return", None, node, <<ExprAt(nodes, node, 1)>>)
      [] node.kind = "AssignStmt" ->
            Term("assign", None, node, <<ExprAt(nodes, node, 1), ExprAt(nodes, node, 2)>>)
      [] node.kind \in {"WhileStmt", "InlineWhileStmt"} ->
            IF ~HasKid(node, 2) THEN Malformed(node)
            ELSE Term(IF node.kind = "WhileStmt" THEN "while" ELSE "inline while", None, node,
                      <<ExprAt(nodes, node, 1), BlockAt(nodes, node, 2)>>)
      [] node.kind \in ExprKinds -> Expr(nodes, node)
      [] OTHER -> Malformed(node)

(* The statements and, if there is one, the expression at the end.         *)
BlockExpr(nodes, node) ==
    LET list == Kid(nodes, node, 1)
        statements == [k \in DOMAIN list.kids |-> Statement(nodes, Kid(nodes, list, k))]
    IN IF node.kind \notin BlockKinds THEN NeverMet(node)
       ELSE Term(node.kind, None, node,
                 <<Term("statements", None, node, statements)>>
                 \o IF HasKid(node, 2) THEN <<ExprAt(nodes, node, 2)>> ELSE <<>>)

-----------------------------------------------------------------------------
(* The top level.  An import has its path, the name it is imported as (or  *)
(* "*"), and whether it is public.                                         *)
ConstDef(nodes, node) ==
    LET typed == node.kind = "TypedConstDecl"
        last == IF typed THEN 3 ELSE 2
    IN IF NameOf(nodes, node, 1) = None \/ ~HasKid(node, last)
          \/ \E i \in 2 .. last : Kid(nodes, node, i).kind \notin ExprKinds
       THEN Malformed(node)
       ELSE Term("const", NameOf(nodes, node, 1), node, ExprsFrom(nodes, node, 2))

PathOf(nodes, node) == ReadAll(nodes, node, {"Identifier"}, LAMBDA all, k : k.text)

(* A name in a path, or an item of a group with its alias.                 *)
Item(nodes, node) ==
    Term("item", NameOf(nodes, node, 1), node,
         <<IF NameOf(nodes, node, 2) = None THEN NameOf(nodes, node, 1) ELSE NameOf(nodes, node, 2)>>)

Import(nodes, node) ==
    LET path == IF node.kind = "ImportAsDecl" /\ HasKid(node, 1) THEN Kid(nodes, node, 1) ELSE node
        alias == CASE node.kind = "ImportAsDecl" -> NameOf(nodes, node, 2)
                   [] node.kind = "ImportAllDecl" -> "*"
                   [] OTHER -> Last(PathOf(nodes, node))
    IN IF NameOf(nodes, path, 1) = None \/ (node.kind = "ImportAsDecl" /\ alias = None)
       THEN Malformed(node)
       ELSE Term(IF node.text = "pub" THEN "pub use" ELSE "use", alias, node, PathOf(nodes, path))

ImportGroupDef(nodes, node) ==
    IF NameOf(nodes, node, 1) = None THEN Malformed(node)
    ELSE Term(IF node.text = "pub" THEN "pub group" ELSE "group", None, node,
              <<PathOf(nodes, node), ReadAll(nodes, node, {"ImportGroupItem"}, Item)>>)

TopLevelDef(nodes, node) ==
    CASE node.kind \in {"ConstDecl", "TypedConstDecl"} -> ConstDef(nodes, node)
      [] node.kind \in {"InitBlock", "RunBlock"} -> BlockExpr(nodes, node)
      [] node.kind \in {"ImportDecl", "ImportAllDecl", "ImportAsDecl"} -> Import(nodes, node)
      [] node.kind = "ImportGroupDecl" -> ImportGroupDef(nodes, node)
      [] OTHER -> Malformed(node)

Defs(nodes) == [k \in DOMAIN nodes[1].kids |-> TopLevelDef(nodes, Kid(nodes, nodes[1], k))]
=============================================================================

------------------------------- MODULE Parser ------------------------------
(***************************************************************************)
(* The recursive descent parser (parser/src/parser/mod.rs): one operator   *)
(* per parsing function, from expressions to declarations.  A parse of     *)
(* `all` expressions allows a struct literal after one; before the block   *)
(* of an `if` it does not.                                                 *)
(***************************************************************************)
EXTENDS Integers, Sequences, SequencesExt

(* What the parser works on (parser/src/parser/mod.rs, token_items.rs): a  *)
(* cursor over the tokens that counts how often it is looked at without    *)
(* moving, the diagnostics, and the arena of nodes that become the         *)
(* concrete syntax tree.  An operator takes the state of the parser and    *)
(* gives the next; `ok` is what an `eat` or `check` answers and `ret` the  *)
(* node a parsing function returns, None if it returns none.               *)
CONSTANTS
    None,
    Identifiers, Builtins, Numbers,  \* the tokens with a text of their own
    DefaultFuel                      \* TokenItems::DEFAULT_FUEL: 1024

ASSUME ParserAssumption == DefaultFuel \in Nat \ {0} /\ None \notin Nat

Trivia == {" ", "bad"}
LexErrors == {"bad", "badstr"}
Strings == {"str", "badstr"}

(* The kind of a token. *)
Class(t) ==
    CASE t \in Identifiers -> "ident"
      [] t \in Builtins -> "builtin"
      [] t \in Numbers -> "num"
      [] t \in Strings -> "str"
      [] OTHER -> t

(* TokenItems: a look costs one unit of fuel, a move restores it. *)
NewParser(tokens) ==
    [tokens |-> tokens, kinds |-> [i \in DOMAIN tokens |-> Class(tokens[i])], pos |-> 1, fuel |-> DefaultFuel, panic |-> FALSE, nodes |-> <<>>,
     diags |-> <<>>, lastUnexpected |-> None, ok |-> FALSE, ret |-> None, out |-> "statement"]

(* One step after another: the rest works on what the first one leaves.    *)
Then(p, Rest(_)) == Rest(p)

Current(p) == p.kinds[p.pos]
Look(p, n) == [p EXCEPT !.fuel = @ - n, !.panic = @ \/ p.fuel < n]
Report(p, what, at) == [p EXCEPT !.diags = Append(@, <<what, at>>)]
AtLastUnexpected(p) == p.lastUnexpected = p.pos

(* Looking for the token after Eof panics. *)
Advance(p) ==
    IF p.kinds[p.pos] = "eof" THEN [p EXCEPT !.panic = TRUE]
    ELSE [p EXCEPT !.pos = @ + 1, !.fuel = DefaultFuel,
                   !.diags = IF p.tokens[p.pos] \in LexErrors /\ p.lastUnexpected # p.pos
                             THEN Append(@, <<"lexer", p.pos>>) ELSE @]

RECURSIVE SkipTrivia(_)
SkipTrivia(p) == IF Current(p) \in Trivia THEN SkipTrivia(Advance(Look(p, 1))) ELSE Look(p, 1)

At(p, t) == [Look(p, 1) EXCEPT !.ok = p.kinds[p.pos] = t]
Check(p, t) == At(SkipTrivia(p), t)
Eat(p, t) == Then(Check(p, t), LAMBDA q : IF q.ok THEN Advance(q) ELSE q)
AtEof(p) == Check(p, "eof")

(* Whether the token is one of a list, each checked in turn. *)
CheckOneOf(p, list) ==
    Then(SkipTrivia(p), LAMBDA q :
    LET hits == {i \in DOMAIN list : list[i] = Current(q)}
    IN [Look(q, (IF hits = {} THEN 2 * Len(list) ELSE 2 * Min(hits)) - 1) EXCEPT !.ok = hits # {}])

AtOneOf(p, list) ==
    LET hits == {i \in DOMAIN list : list[i] = Current(p)}
    IN [Look(p, IF hits = {} THEN Len(list) ELSE Min(hits)) EXCEPT !.ok = hits # {}]

AtUnexpected(p, what) == [Report(p, what, p.pos) EXCEPT !.lastUnexpected = p.pos]

(* emit_unexpected: once at a token. *)
Unexpected(p) == IF AtLastUnexpected(p) THEN p ELSE AtUnexpected(Look(p, 1), "unexpected")

Expect(p, t) == Then(Eat(p, t), LAMBDA q : IF q.ok THEN q ELSE Unexpected(q))

(* expect_check_recovery: a token that may follow shows that t is missing. *)
ExpectOrMissing(p, t, recovery) ==
    Then(Eat(p, t), LAMBDA q :
    CASE q.ok \/ AtLastUnexpected(q) -> q
      [] ~q.ok /\ ~AtLastUnexpected(q) ->
            IF Current(q) \in recovery THEN AtUnexpected(Look(q, 1), "missing")
            ELSE Unexpected(Look(q, 1)))

RECURSIVE SkipUntil(_, _)
SkipUntil(p, recovery) ==
    Then(AtEof(p), LAMBDA q :
    IF q.ok THEN q
    ELSE IF Current(q) \in recovery THEN Look(q, 2) ELSE SkipUntil(Advance(Look(q, 2)), recovery))

-----------------------------------------------------------------------------
(* The arena.  A node has the span of its tokens, of which `end` is the    *)
(* first that is not its own, and the list of its children.                *)
Open(p, kind, start) ==
    [p EXCEPT !.nodes = Append(@, [kind |-> kind, text |-> None, start |-> start, end |-> start,
                                   kids |-> <<>>])]
Newest(p) == Len(p.nodes)
CloseAt(p, n, end) == [p EXCEPT !.nodes[n].end = end, !.ret = n]
Close(p, n) == CloseAt(p, n, p.pos)
Rekind(p, n, kind) == [p EXCEPT !.nodes[n].kind = kind]

(* push_child asserts that the tokens of siblings do not overlap. *)
PushChild(p, n, child) ==
    LET kids == p.nodes[n].kids
        overlap == kids # <<>> /\ p.nodes[Last(kids)].end > p.nodes[child].start
    IN [p EXCEPT !.nodes[n].kids = Append(@, child), !.panic = @ \/ overlap]
Adopt(p, n) == PushChild(p, n, p.ret)

CloseNewest(p) == Close(p, Newest(p))
Labelled(p, text) == [p EXCEPT !.nodes[Newest(p)].text = text]

(* A node of one token, or of none, and the error node where something was *)
(* expected.                                                               *)
LastToken(p, kind) == CloseNewest(Labelled(Open(p, kind, p.pos - 1), p.tokens[p.pos - 1]))
EmptyNode(p, kind) == CloseNewest(Open(p, kind, p.pos))
ErrorHere(p) == Then(Unexpected(p), LAMBDA q : EmptyNode(q, "Error"))
Nothing(p) == [p EXCEPT !.ret = None]

-----------------------------------------------------------------------------
DeclStarts == {"init", "run", "const", "pub", "use"}
StatementStarts ==
    DeclStarts \cup {";", "}", "let", "return", "comptime", "while", "inline", "if", "match", "{"}

BinaryOps ==
    <<"or", "and", "==", "!=", "<", ">", "<=", ">=", "|", "^", "&", "<<", ">>", "+", "-", "+%", "-%",
      "*", "/", "%", "*%", "+/", "-/", "</", ">/">>
UnaryOps == <<"-", "!", "~">>
UnaryPriority == 19  \* what follows an operand binds tighter than any operator

(* An operator binds its right operand one tighter. *)
Priority(op) ==
    CASE op = "or" -> 1
      [] op = "and" -> 3
      [] op \in {"==", "!=", "<", ">", "<=", ">="} -> 5
      [] op = "|" -> 7
      [] op = "^" -> 9
      [] op = "&" -> 11
      [] op \in {"<<", ">>"} -> 13
      [] op \in {"+", "-", "+%", "-%"} -> 15
      [] OTHER -> 17

(* What an expression may start with, in the order it is looked for. *)
Starts ==
    <<"true", "false", "num", "str", "Self", "ident", "builtin", "(", "comptime", "eager", "fn",
      "struct", "tuple", "{", "if", "match">>

NeedsNoSemicolon == {"ComptimeBlock", "Block", "If", "Match", "Error"}

RECURSIVE TryExpr(_, _, _), ParseBlock(_, _, _), Elements(_, _, _, _, _)

(* An expression, or the report that there is none. *)
Operand(p, all, min) == Then(TryExpr(p, all, min), LAMBDA q : IF q.ret = None THEN ErrorHere(q) ELSE q)
ParseExpr(p, all) == Operand(p, all, 0)

TryIdent(p) == Then(Eat(p, "ident"), LAMBDA q : IF q.ok THEN LastToken(q, "Identifier") ELSE Nothing(q))

ExpectIdent(p) ==
    Then(Check(p, "ident"), LAMBDA named :
    Then(IF named.ok THEN named ELSE Check(named, "builtin"), LAMBDA found :
    IF ~found.ok THEN ErrorHere(found)
    ELSE Then(IF named.ok \/ AtLastUnexpected(found) THEN found
              ELSE AtUnexpected(Look(found, 1), "builtin as identifier"), LAMBDA told :
         LastToken(Advance(told), IF named.ok THEN "Identifier" ELSE "Error"))))

(* What a parsing function makes of its node: parts of it are parsed in a  *)
(* row, each becoming a child of the node n.                               *)
Node(p, Rest(_, _)) == Rest(p, Newest(p))
AdoptExpr(p, all, n) == Adopt(ParseExpr(p, all), n)
AdoptIdent(p, n) == Adopt(ExpectIdent(p), n)
Taken(p) == [p EXCEPT !.ok = TRUE]

-----------------------------------------------------------------------------
(* parse_delimited: the elements of the node n, each parsed by the         *)
(* function its list is parsed with.                                       *)
Delimited(p, opener, terminator, kind, n) ==
    Expect(Elements(Expect(p, opener), terminator, kind, n, FALSE), terminator)

Argument(p, n) ==
    Then(TryExpr(p, TRUE, 0), LAMBDA q :
    IF q.ret = None THEN [q EXCEPT !.ok = FALSE] ELSE Taken(Adopt(q, n)))

FieldAssign(p, n) ==
    Then(Check(p, "ident"), LAMBDA name :
    IF ~name.ok THEN name
    ELSE Node(Open(name, "FieldAssign", name.pos), LAMBDA field, f :
         Then(AdoptExpr(Expect(Adopt(TryIdent(field), f), ":"), TRUE, f), LAMBDA value :
         Taken(Adopt(Close(value, f), n)))))

ParameterType(p) ==
    Then(Check(p, "$"), LAMBDA any :
    IF ~any.ok THEN ParseExpr(any, TRUE)
    ELSE Then(Expect(Expect(any, "$"), "ident"), LAMBDA name :
         CloseNewest(IF name.ok
                     THEN Labelled(Open(name, "ParamAnyType", any.pos), name.tokens[name.pos - 1])
                     ELSE Open(name, "Error", any.pos))))

(* The rest of a parameter after its name.                                 *)
ParameterRest(p, k, n) ==
    Then(Adopt(ParameterType(Expect(Adopt(p, k), ":")), k), LAMBDA typed :
    Taken(Adopt(Close(typed, k), n)))

(* Mutation: the name after `comptime` is not required. *)
Parameter_Optional(p, n) ==
    Then(Eat(p, "comptime"), LAMBDA comptime :
    Then(Eat(comptime, "ident"), LAMBDA named :
    IF ~named.ok THEN named
    ELSE ParameterRest(LastToken(Open(named, "Parameter", p.pos), "Identifier"), Newest(named) + 1, n)))

Parameter(p, n) ==
    Then(Eat(p, "comptime"), LAMBDA comptime :
    IF comptime.ok
    THEN ParameterRest(ExpectIdent(Open(comptime, "ComptimeParameter", p.pos)), Newest(comptime) + 1, n)
    ELSE Then(Eat(comptime, "ident"), LAMBDA named :
         IF ~named.ok THEN named
         ELSE ParameterRest(LastToken(Open(named, "Parameter", p.pos), "Identifier"), Newest(named) + 1, n)))

(* A path inside a group is parsed and reported. *)
RECURSIVE PathInGroup(_)
PathInGroup(p) ==
    Then(Eat(p, "::"), LAMBDA colons :
    IF ~colons.ok THEN colons
    ELSE Then(Check(colons, "ident"), LAMBDA name : IF name.ok THEN PathInGroup(Advance(name)) ELSE name))

GroupItem(p, n) ==
    Then(Eat(p, "*"), LAMBDA star :
    IF star.ok THEN Report(star, "glob in group", star.pos - 1)
    ELSE Then(Check(star, "ident"), LAMBDA name :
    IF ~name.ok THEN name
    ELSE Node(Open(name, "ImportGroupItem", name.pos), LAMBDA item, k :
    Then(Check(AdoptIdent(item, k), "::"), LAMBDA path :
    Then(IF path.ok THEN Report(PathInGroup(path), "path in group", path.pos) ELSE path, LAMBDA single :
    Then(Eat(single, "as"), LAMBDA as :
    Then(IF as.ok THEN AdoptIdent(as, k) ELSE as, LAMBDA alias :
    Taken(Adopt(Close(alias, k), n)))))))))

Element(p, kind, n) ==
    CASE kind = "argument" -> Argument(p, n)
      [] kind = "field" -> FieldAssign(p, n)
      [] kind = "parameter" -> Parameter(p, n)
      [] kind = "import" -> GroupItem(p, n)

Elements(p, terminator, kind, n, reported) ==
    Then(Element(p, kind, n), LAMBDA element :
    IF element.ok
    THEN Then(Eat(element, ","), LAMBDA comma :
         IF comma.ok THEN Elements(comma, terminator, kind, n, FALSE) ELSE comma)
    ELSE Then(Check(element, terminator), LAMBDA end :
         IF end.ok THEN end
         ELSE Then(AtEof(end), LAMBDA eof :
              IF eof.ok THEN eof
              ELSE Then(IF reported THEN eof ELSE Unexpected(eof), LAMBDA told :
                   Elements(Advance(told), terminator, kind, n, TRUE)))))

-----------------------------------------------------------------------------
(* Definitions of functions, structs and tuples.                           *)
SignatureAndBody(p, n) ==
    Node(Open(p, "ParamList", p.pos), LAMBDA list, l :
    Then(Adopt(Close(Delimited(list, "(", ")", "parameter", l), l), n), LAMBDA parameters :
    Then(AdoptExpr(parameters, FALSE, n), LAMBDA returns :
    Close(Adopt(ParseBlock(returns, returns.pos, "Block"), n), n))))

FunctionDef(p, start, eager) ==
    Node(Open(p, IF eager THEN "EagerFnDef" ELSE "FnDef", start), LAMBDA q, n : SignatureAndBody(q, n))

MethodDef(p) ==
    Then(Eat(p, "eager"), LAMBDA eager :
    Node(Open(Expect(eager, "fn"), IF eager.ok THEN "EagerMethodDef" ELSE "MethodDef", p.pos), LAMBDA method, n :
    SignatureAndBody(AdoptIdent(method, n), n)))

StructField(p) ==
    Node(Open(p, "FieldDef", p.pos), LAMBDA field, n :
    Close(AdoptExpr(Expect(Adopt(TryIdent(field), n), ":"), TRUE, n), n))

MemberStarts == {"eager", "fn", "ident"}

RECURSIVE StructMembers(_, _, _)
StructMembers(p, n, seenMethod) ==
    Then(CheckOneOf(p, <<"eof", "}">>), LAMBDA end :
    IF end.ok THEN end
    ELSE Then(CheckOneOf(end, <<"eager", "fn">>), LAMBDA method :
    IF method.ok THEN StructMembers(Adopt(MethodDef(method), n), n, TRUE)
    ELSE Then(Check(method, "ident"), LAMBDA name :
    IF name.ok
    THEN Then(IF seenMethod THEN Report(name, "field after method", name.pos) ELSE name, LAMBDA told :
         Then(AtOneOf(SkipTrivia(Adopt(StructField(told), n)), <<"}", "eof", "eager", "fn">>), LAMBDA follow :
         StructMembers(IF follow.ok THEN follow ELSE ExpectOrMissing(follow, ",", MemberStarts), n, seenMethod)))
    ELSE Node(Open(Unexpected(name), "Error", name.pos), LAMBDA error, e :
         StructMembers(Adopt(Close(SkipUntil(Advance(error), MemberStarts \cup {"}"}), e), n), n, seenMethod)))))

StructDef(p, start) ==
    Node(Check(Open(p, "StructDef", start), "{"), LAMBDA struct, n :
    Then(IF struct.ok THEN struct
         ELSE Then(TryExpr(struct, FALSE, 0), LAMBDA index : IF index.ret # None THEN Adopt(index, n) ELSE index),
         LAMBDA head :
    Node(Open(head, "StructBody", head.pos), LAMBDA body, b :
    Then(Expect(StructMembers(Expect(body, "{"), b, FALSE), "}"), LAMBDA members :
    Close(Adopt(Close(members, b), n), n)))))

TupleType(p, start) ==
    Node(Open(p, "TupleType", start), LAMBDA q, n : Close(Delimited(q, "{", "}", "argument", n), n))

-----------------------------------------------------------------------------
(* Expressions that start with a keyword or a bracket.                     *)
RECURSIVE TupleElements(_, _)
TupleElements(p, n) ==
    Then(Check(p, ")"), LAMBDA end :
    IF end.ok THEN end
    ELSE Then(Eat(AdoptExpr(end, TRUE, n), ","), LAMBDA comma :
         IF comma.ok THEN TupleElements(comma, n) ELSE comma))

Round(p, start) ==
    Then(Eat(p, ")"), LAMBDA empty :
    IF empty.ok THEN CloseNewest(Open(empty, "TupleLit", start))
    ELSE Node(Open(empty, "ParenExpr", start), LAMBDA paren, n :
         Then(Eat(AdoptExpr(paren, TRUE, n), ","), LAMBDA comma :
         Then(IF comma.ok THEN TupleElements(Rekind(comma, n, "TupleLit"), n) ELSE comma, LAMBDA inner :
         Close(Expect(inner, ")"), n)))))

RECURSIVE MergeStrings(_, _, _)
MergeStrings(p, start, end) ==
    Then(At(SkipTrivia(p), "str"), LAMBDA more :
    IF more.ok THEN Then(Advance(more), LAMBDA next : MergeStrings(next, start, next.pos))
    ELSE Node(Open(more, "StringLiteral", start), LAMBDA literal, n : CloseAt(literal, n, end)))

ConditionAndBody(p, n) ==
    Then(AdoptExpr(p, FALSE, n), LAMBDA condition :
    Adopt(ParseBlock(condition, condition.pos, "Block"), n))

(* The list of branches ends where the last block starts. *)
RECURSIVE ElseBranches(_, _, _)
ElseBranches(p, n, list) ==
    Then(Check(p, "else"), LAMBDA else :
    IF ~else.ok THEN Close(Adopt(Close(else, list), n), n)
    ELSE Then(Eat(Eat(else, "else"), "if"), LAMBDA if :
         IF if.ok
         THEN Node(Open(if, "ElseIfBranch", else.pos), LAMBDA branch, b :
              ElseBranches(Adopt(Close(ConditionAndBody(branch, b), b), list), n, list))
         ELSE Then(ParseBlock(if, if.pos, "Block"), LAMBDA last :
              Then(Adopt(Close(last, list), n), LAMBDA listed :
              Close(PushChild(CloseAt(listed, list, listed.nodes[last.ret].start), n, last.ret), n)))))

If(p, start) ==
    Node(Open(p, "If", start), LAMBDA if, n :
    Then(ConditionAndBody(if, n), LAMBDA then :
    Node(Open(then, "ElseIfBranchList", then.pos), LAMBDA list, l : ElseBranches(list, n, l))))

RECURSIVE MatchArms(_, _)
MatchArms(p, n) ==
    Then(CheckOneOf(p, <<"}", "eof">>), LAMBDA end :
    IF end.ok THEN end
    ELSE Then(Eat(end, "else"), LAMBDA else :
    Node(Open(else, IF else.ok THEN "MatchFallbackArm" ELSE "MatchArm", end.pos), LAMBDA arm, a :
    Then(IF ~else.ok THEN AdoptExpr(arm, TRUE, a)
         ELSE Then(TryIdent(arm), LAMBDA binding :
              IF binding.ret # None THEN Adopt(Rekind(binding, a, "MatchBindingArm"), a) ELSE binding),
         LAMBDA head :
    Then(AdoptExpr(Expect(head, "=>"), TRUE, a), LAMBDA body :
    Then(Eat(Adopt(Close(body, a), n), ","), LAMBDA comma :
    IF comma.ok THEN MatchArms(comma, n) ELSE comma))))))

Match(p, start) ==
    Node(Open(p, "Match", start), LAMBDA match, n :
    Then(AdoptExpr(match, FALSE, n), LAMBDA subject :
    Node(Open(subject, "MatchArmList", subject.pos), LAMBDA arms, a :
    Close(Adopt(Close(Expect(MatchArms(Expect(arms, "{"), a), "}"), a), n), n))))

-----------------------------------------------------------------------------
(* An expression that no operator starts; numbers are looked for without   *)
(* skipping trivia first.                                                  *)
LooksFor(t) ==
    LET found == {i \in DOMAIN Starts : Starts[i] = t}
        i == IF found = {} THEN Len(Starts) ELSE Min(found)
    IN IF i < 3 THEN 2 * i ELSE 2 * i - 1

StartedBy(t, q, next, start) ==
    CASE t \notin ToSet(Starts) -> Nothing(q)
      [] t \in {"true", "false"} -> LastToken(next, "BoolLiteral")
      [] t = "num" -> LastToken(next, "NumLiteral")
      [] t = "str" -> MergeStrings(next, start, next.pos)
      [] t = "Self" -> LastToken(next, "SelfType")
      [] t = "ident" -> LastToken(next, "Identifier")
      [] t = "builtin" -> LastToken(next, "BuiltinName")
      [] t = "(" -> Round(next, start)
      [] t \in {"eager", "fn"} ->
            FunctionDef(IF t = "eager" THEN Expect(next, "fn") ELSE next, start, t = "eager")
      [] t = "struct" -> StructDef(next, start)
      [] t = "tuple" -> TupleType(next, start)
      [] t = "{" -> ParseBlock(q, start, "Block")
      [] t = "comptime" -> ParseBlock(next, start, "ComptimeBlock")
      [] t = "if" -> If(next, start)
      [] t = "match" -> Match(next, start)

Standalone(p) ==
    Then(Look(p, LooksFor(Current(p))), LAMBDA q : StartedBy(Current(p), q, Advance(q), p.pos))

Unary(p, all, start) ==
    Node(Open(p, "UnaryExpr", start), LAMBDA q, n :
    Then(Adopt(Operand(q, all, UnaryPriority), n), LAMBDA operand :
    Close([operand EXCEPT !.nodes[n].text = p.tokens[start]], n)))

Member(p, start) ==
    Node(Open(p, "MemberExpr", start), LAMBDA member, n :
    Then(TryIdent(PushChild(member, n, p.ret)), LAMBDA name :
    Then(IF name.ret # None THEN name
         ELSE Node(Open(Unexpected(name), "Error", name.pos), LAMBDA error, e :
              Then(AtOneOf(error, <<";", "}", "(", "eof">>), LAMBDA stop :
              Close(IF stop.ok THEN stop ELSE Advance(stop), e))),
         LAMBDA named : Close(Adopt(named, n), n))))

WithList(p, kind, opener, terminator, element, start) ==
    Node(Open(p, kind, start), LAMBDA q, n :
    Close(Delimited(PushChild(q, n, p.ret), opener, terminator, element, n), n))

(* The node of a binary expression with its left operand and its operator. *)
Operator(p, start, Rest(_, _)) ==
    Node(Open(LastToken(Advance(p), "Operator"), "BinaryExpr", start), LAMBDA binary, n :
    Rest(PushChild([PushChild(binary, n, p.ret) EXCEPT !.nodes[n].text = p.tokens[p.pos]], n, n - 1), n))

(* Mutation: the right operand may be of the same priority.                *)
Binary_RightFirst(p, all, start) ==
    Operator(p, start, LAMBDA left, n :
    Close(Adopt(Operand(left, all, Priority(p.tokens[p.pos])), n), n))

Binary(p, all, start) ==
    Operator(p, start, LAMBDA left, n :
    Close(Adopt(Operand(left, all, Priority(p.tokens[p.pos]) + 1), n), n))

(* What follows the expression p.ret.                                      *)
RECURSIVE Postfix(_, _, _, _)
Postfix(p, all, min, start) ==
    Then(Eat(p, "."), LAMBDA dot :
    IF dot.ok THEN Postfix(Member(dot, start), all, min, start)
    ELSE Then(Check(dot, "("), LAMBDA call :
    IF call.ok THEN Postfix(WithList(call, "CallExpr", "(", ")", "argument", start), all, min, start)
    ELSE Then(IF all THEN Check(call, "{") ELSE call, LAMBDA literal :
    IF literal.ok THEN Postfix(WithList(literal, "StructLit", "{", "}", "field", start), all, min, start)
    ELSE Then(CheckOneOf(literal, BinaryOps), LAMBDA operator :
    IF operator.ok /\ Priority(operator.tokens[operator.pos]) >= min
    THEN Postfix(Binary(operator, all, start), all, min, start)
    ELSE operator))))

TryExpr(p, all, min) ==
    Then(SkipTrivia(p), LAMBDA q :
    Then(CheckOneOf(q, UnaryOps), LAMBDA unary :
    Then(IF unary.ok THEN Unary(Advance(unary), all, q.pos) ELSE Standalone(unary), LAMBDA expr :
    IF expr.ret = None THEN expr ELSE Postfix(expr, all, min, q.pos))))

-----------------------------------------------------------------------------
(* Statements.  `out` tells a statement from an expression that may end    *)
(* the block, and from one that has to, for want of a `;`.                 *)
AsStatement(p) == [p EXCEPT !.out = "statement"]
Semicolon(p, n) == AsStatement(Close(Expect(p, ";"), n))

While(p, start, inline) ==
    Node(Open(p, IF inline THEN "InlineWhileStmt" ELSE "WhileStmt", start), LAMBDA while, n :
    AsStatement(Close(ConditionAndBody(while, n), n)))

LetKind(comptime, mutable) ==
    IF comptime THEN IF mutable THEN "comptime mut" ELSE "comptime" ELSE IF mutable THEN "mut" ELSE "let"

Let(p, start, comptime) ==
    Then(Eat(p, "mut"), LAMBDA mutable :
    Node(Labelled(Open(mutable, "LetStmt", start), LetKind(comptime, mutable.ok)), LAMBDA let, n :
    Then(Eat(AdoptIdent(let, n), ":"), LAMBDA typed :
    Then(IF typed.ok THEN AdoptExpr(Rekind(typed, n, "TypedLetStmt"), TRUE, n) ELSE typed, LAMBDA type :
    Semicolon(AdoptExpr(Expect(type, "="), TRUE, n), n)))))

Return(p, start) ==
    Node(Open(p, "ReturnStmt", start), LAMBDA return, n : Semicolon(AdoptExpr(return, TRUE, n), n))

(* After `comptime`: a block, or what is neither a block nor a `let`.      *)
ComptimeBlock(p, start) ==
    Then(Eat(ParseBlock(p, start, "ComptimeBlock"), ";"), LAMBDA semicolon :
    [semicolon EXCEPT !.out = IF semicolon.ok THEN "statement" ELSE "endOrStatement"])

ComptimeError(p, start) ==
    Then(At(SkipUntil(Unexpected(p), StatementStarts), ";"), LAMBDA skipped :
    AsStatement(CloseNewest(Open(IF skipped.ok THEN Advance(skipped) ELSE skipped, "Error", start))))

ExpressionStatement(p, start) ==
    Then(TryExpr(p, TRUE, 0), LAMBDA expr :
    IF expr.ret = None THEN expr
    ELSE Then(Eat(expr, "="), LAMBDA equals :
         IF equals.ok
         THEN Node(Open(equals, "AssignStmt", start), LAMBDA assign, n :
              Semicolon(AdoptExpr(PushChild(assign, n, expr.ret), TRUE, n), n))
         ELSE Then(Eat(equals, ";"), LAMBDA semicolon :
              IF semicolon.ok THEN AsStatement(semicolon)
              ELSE [semicolon EXCEPT !.out = IF expr.nodes[expr.ret].kind \in NeedsNoSemicolon
                                             THEN "endOrStatement" ELSE "end"])))

Stmt(p) ==
    Then(Eat(SkipTrivia(p), "inline"), LAMBDA inline :
    Then(IF inline.ok THEN Expect(inline, "while") ELSE Eat(inline, "while"), LAMBDA while :
    IF inline.ok \/ while.ok THEN While(while, p.pos, inline.ok)
    ELSE Then(Eat(while, "return"), LAMBDA return :
    IF return.ok THEN Return(return, p.pos)
    ELSE Then(Eat(return, "comptime"), LAMBDA comptime :
    Then(IF comptime.ok THEN Check(comptime, "{") ELSE comptime, LAMBDA open :
    IF comptime.ok /\ open.ok THEN ComptimeBlock(open, p.pos)
    ELSE Then(Eat(open, "let"), LAMBDA let :
    CASE let.ok -> Let(let, p.pos, comptime.ok)
      [] ~let.ok /\ comptime.ok -> ComptimeError(let, p.pos)
      [] ~let.ok /\ ~comptime.ok -> ExpressionStatement(let, p.pos)))))))

(* The statements of the list n; the answer is the expression that ends    *)
(* the block, `end` being the last one that may.                           *)
RECURSIVE Statements(_, _, _)
Statements(p, n, end) ==
    Then(Check(p, "}"), LAMBDA close :
    IF close.ok THEN [close EXCEPT !.ret = end]
    ELSE Then(Stmt(close), LAMBDA stmt :
    IF stmt.ret = None THEN [Unexpected(stmt) EXCEPT !.ret = end]
    ELSE Then(IF end = None THEN stmt ELSE PushChild(stmt, n, end), LAMBDA next :
    CASE stmt.out = "statement" -> Statements(Adopt(next, n), n, None)
      [] stmt.out = "endOrStatement" -> Statements(next, n, stmt.ret)
      [] stmt.out = "end" ->
            Then(CheckOneOf(next, <<"}", "eof">>), LAMBDA tail :
            IF tail.ok THEN tail
            ELSE Statements(Adopt(Report(tail, "missing", tail.pos), n), n, None)))))

ParseBlock(p, start, kind) ==
    Node(Expect(Open(p, kind, start), "{"), LAMBDA block, n :
    Node(Open(block, "StatementsList", block.pos), LAMBDA list, l :
    Then(Statements(list, l, None), LAMBDA statements :
    Then(Adopt(Close(statements, l), n), LAMBDA closed :
    Close(Expect(IF statements.ret = None THEN closed
                 ELSE PushChild([closed EXCEPT !.nodes[l].end = closed.nodes[statements.ret].start],
                                n, statements.ret), "}"), n)))))

-----------------------------------------------------------------------------
(* Declarations.                                                           *)
UntilDeclStart(q) == SkipUntil(Advance(q), DeclStarts)
ErrorFrom(q, start) == CloseNewest(Open(q, "Error", start))

RECURSIVE ImportPath(_, _)
ImportPath(q, n) ==
    Then(Eat(q, "::"), LAMBDA colons :
    IF ~colons.ok THEN [colons EXCEPT !.out = "path"]
    ELSE Then(Eat(colons, "*"), LAMBDA star :
    IF star.ok THEN [star EXCEPT !.out = "glob"]
    ELSE Then(Check(star, "{"), LAMBDA group :
    IF group.ok THEN [group EXCEPT !.out = "group"] ELSE ImportPath(AdoptIdent(group, n), n))))

(* A group of no items or of one is only warned about.                     *)
ImportGroup(q, n) ==
    Then(Delimited(SkipTrivia(q), "{", "}", "import", n), LAMBDA items : Close(Expect(items, ";"), n))

ImportDecl(q, start, public) ==
    LET visibility == IF public THEN "pub" ELSE None
    IN Node(Labelled(Open(q, "ImportDecl", start), visibility), LAMBDA import, n :
       Then(ImportPath(AdoptIdent(import, n), n), LAMBDA path :
       CASE path.out = "glob" -> Close(Expect(Rekind(path, n, "ImportAllDecl"), ";"), n)
         [] path.out = "group" -> ImportGroup(Rekind(path, n, "ImportGroupDecl"), n)
         [] path.out = "path" ->
               Then(Eat(path, ";"), LAMBDA semicolon :
               IF semicolon.ok THEN Close(semicolon, n)
               ELSE Then(Close(Rekind(semicolon, n, "ImportPath"), n), LAMBDA closed :
                    Node(Labelled(Open(closed, "ImportAsDecl", start), visibility), LAMBDA as, a :
                    Close(Expect(AdoptIdent(Expect(Adopt(as, a), "as"), a), ";"), a))))))

ConstDecl(q, start) ==
    Node(Open(q, "ConstDecl", start), LAMBDA const, n :
    Then(Eat(AdoptIdent(const, n), ":"), LAMBDA typed :
    Then(IF typed.ok THEN AdoptExpr(Rekind(typed, n, "TypedConstDecl"), TRUE, n) ELSE typed, LAMBDA type :
    Then(AdoptExpr(ExpectOrMissing(type, "=", DeclStarts), TRUE, n), LAMBDA value :
    Close(ExpectOrMissing(value, ";", DeclStarts), n)))))

Decl(q) ==
    Then(Eat(q, "init"), LAMBDA init :
    Then(IF init.ok THEN init ELSE Eat(init, "run"), LAMBDA run :
    IF run.ok THEN ParseBlock(run, q.pos, IF init.ok THEN "InitBlock" ELSE "RunBlock")
    ELSE Then(Eat(run, "const"), LAMBDA const :
    IF const.ok THEN ConstDecl(const, q.pos)
    ELSE Then(Eat(const, "pub"), LAMBDA pub :
    Then(Eat(pub, "use"), LAMBDA use :
    IF use.ok THEN ImportDecl(use, q.pos, pub.ok)
    ELSE Then(Unexpected(use), LAMBDA unexpected :
    IF ~pub.ok THEN ErrorFrom(UntilDeclStart(unexpected), q.pos)
    ELSE Then(AtEof(unexpected), LAMBDA eof :
         ErrorFrom(IF eof.ok THEN eof ELSE UntilDeclStart(eof), q.pos))))))))

-----------------------------------------------------------------------------
(* A file is parsed declaration by declaration (parse_file).               *)
CONSTANT Sources  \* the files to parse, as sequences of tokens

VARIABLES
    p,    \* the parser
    done

vars == <<p, done>>
File == 1  \* FILE_IDX: the first node

Init ==
    /\ \E tokens \in Sources : p = Open(NewParser(Append(tokens, "eof")), "File", 1)
    /\ done = FALSE

ParseDecl ==
    /\ ~done /\ ~p.panic /\ ~AtEof(p).ok
    /\ p' = Adopt(Decl(AtEof(p)), File)
    /\ UNCHANGED done

(* After the last declaration `parse` asserts that nothing is left.        *)
EndFile ==
    /\ ~done /\ ~p.panic /\ AtEof(p).ok
    /\ p' = Close(AtEof(p), File)
    /\ done' = TRUE

Done == done /\ UNCHANGED vars

Next == ParseDecl \/ EndFile \/ Done

Spec == Init /\ [][Next]_vars
=============================================================================

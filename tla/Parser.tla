------------------------------- MODULE Parser -------------------------------
(***************************************************************************)
(* The expression compiler of src/contribs/minjugg/src/tinyexpr.c: the     *)
(* lexer next_token with the builtin table and its binary search, the     *)
(* recursive-descent parser base / power / factor / term / expr / list,    *)
(* and jug_te_compile, which parses a whole expression and either returns  *)
(* the tree or frees it and reports the offset of the error.              *)
(*                                                                         *)
(* The parser state of the code (struct state: the expression, next, type, *)
(* function) is a record s = [next, type, fn, ar]: next is the 1-based     *)
(* index of the next character, so that s.next - 1 is the code's           *)
(* s.next - s.start.  Every parser function takes the expression and a    *)
(* state and returns <<tree, state>>.  A tree node is [f, args]: f is the  *)
(* function the code stores (an EXPR_TYPE), "CONST" or "VAR" for a leaf,  *)
(* "NAN" for the node base makes on an error.  Numbers keep only their    *)
(* extent (strtod's value is left out), variables only their kind.        *)
(* User-defined functions (find_custom) come from a registry that is not  *)
(* in this repository; it is taken as empty.                              *)
(***************************************************************************)
EXTENDS Integers, Sequences, FiniteSets, TLC

CONSTANTS
    Inputs,     \* the expressions compiled
    VarNames    \* the names of the variables passed as lookup

VARIABLES
    input,      \* the expression given to jug_te_compile
    phase,      \* "source" or "compiled"
    result      \* what jug_te_compile returned: [ok, root, error]

vars == <<input, phase, result>>

-----------------------------------------------------------------------------
(* Characters.  A character is a one-character string; "" stands for the   *)
(* terminating NUL, read past the end of the expression.                   *)
Ch(src, p) == IF p >= 1 /\ p <= Len(src) THEN SubSeq(src, p, p) ELSE ""

CodeOrder == "0123456789_abcdefghijklmnopqrstuvwxyz"
Digits == {SubSeq(CodeOrder, i, i) : i \in 1 .. 10}
Lower == {SubSeq(CodeOrder, i, i) : i \in 12 .. 37}
IdentChars == Digits \cup Lower \cup {"_"}
Blank == {" ", "\t", "\n", "\r"}

(* The position of a character in the character set: its order in ASCII  *)
(* among the characters of names; NUL is below all of them.               *)
Code(str, i) ==
    IF i > Len(str) THEN 0
    ELSE CHOOSE k \in 1 .. Len(CodeOrder) : SubSeq(CodeOrder, k, k) = SubSeq(str, i, i)

(* The first position at or after p whose character is not in the set.    *)
RECURSIVE RunEnd(_, _, _)
RunEnd(src, p, set) == IF Ch(src, p) \in set THEN RunEnd(src, p + 1, set) ELSE p

(***************************************************************************)
(* strtod(s->next, &s->next) at a digit or '.': the extent of the longest  *)
(* decimal literal, digits [ '.' digits ] with a digit somewhere, then an  *)
(* exponent only when digits follow it; with no digit nothing is          *)
(* converted and s->next does not move.                                    *)
(***************************************************************************)
StrtodEnd(src, p) ==
    LET a    == RunEnd(src, p, Digits)
        b    == IF Ch(src, a) = "." THEN RunEnd(src, a + 1, Digits) ELSE a
        e1   == IF Ch(src, b + 1) \in {"+", "-"} THEN b + 2 ELSE b + 1
        expo == IF Ch(src, b) \in {"e", "E"} /\ Ch(src, e1) \in Digits
                THEN RunEnd(src, e1, Digits) ELSE b
    IN IF a > p \/ b > a + 1 THEN expo ELSE p

(* functions[]: the builtins, in alphabetical order, with their EXPR_TYPE *)
(* and arity (TE_FUNCTIONk | TE_FLAG_PURE).                                *)
Fn(name, address, arity) == [name |-> name, address |-> address, arity |-> arity]

Functions ==
    << Fn("abs", "ABS", 1), Fn("absolute", "ABS", 1), Fn("acos", "ACOS", 1),
       Fn("arccos", "ACOS", 1), Fn("arcsin", "ASIN", 1), Fn("arctan", "ATAN", 1),
       Fn("arctan2", "ATAN2", 2), Fn("asin", "ASIN", 1), Fn("atan", "ATAN", 1),
       Fn("atan2", "ATAN2", 2), Fn("ceil", "CEIL", 1), Fn("cos", "COS", 1),
       Fn("cosh", "COSH", 1), Fn("e", "E", 0), Fn("exp", "EXP", 1),
       Fn("fac", "FAC", 1), Fn("floor", "FLOOR", 1), Fn("log", "LOG", 1),
       Fn("log10", "LOG10", 1), Fn("max", "MAX", 2), Fn("min", "MIN", 2),
       Fn("ncr", "NCR", 2), Fn("negate", "NEGATE", 1), Fn("negative", "NEGATE", 1),
       Fn("npr", "NPR", 2), Fn("pi", "PI", 0), Fn("pow", "POW", 2),
       Fn("power", "POW", 2), Fn("sin", "SIN", 1), Fn("sinh", "SINH", 1),
       Fn("sqrt", "SQRT", 1), Fn("tan", "TAN", 1), Fn("tanh", "TANH", 1) >>

NotFound == Fn("", "", -1)

(* strncmp(name, other, len) for a name of exactly len characters: the    *)
(* sign of the first difference, other's NUL included.                     *)
StrNCmp(name, other) ==
    LET d == {i \in 1 .. Len(name) : Code(name, i) # Code(other, i)}
        m == CHOOSE i \in d : \A j \in d : i <= j
    IN IF d = {} THEN 0 ELSE Code(name, m) - Code(other, m)

(***************************************************************************)
(* find_builtin: binary search over functions[0 .. count-1] (the table's  *)
(* terminating entry excluded); a name that is a prefix of an entry       *)
(* compares equal under strncmp and is told apart by '\0' - entry[len].    *)
(***************************************************************************)
RECURSIVE BSearch(_, _, _)
BSearch(name, imin, imax) ==
    IF imax < imin THEN NotFound
    ELSE LET i  == imin + (imax - imin) \div 2
             e  == Functions[i + 1]
             c0 == StrNCmp(name, e.name)
             c  == IF c0 = 0 THEN 0 - Code(e.name, Len(name) + 1) ELSE c0
         IN IF c = 0 THEN e
            ELSE IF c > 0 THEN BSearch(name, i + 1, imax)
            ELSE BSearch(name, imin, i - 1)

FindBuiltin(name) == BSearch(name, 0, Len(Functions) - 1)

(* find_lookup: the variables passed by the caller, by exact name.         *)
FindLookup(name) == name \in VarNames

Tok(type, fn, ar, next) == [type |-> type, fn |-> fn, ar |-> ar, next |-> next]

(* The operators and special characters of next_token's switch; '*'       *)
(* followed by '*' is pow.                                                 *)
Punct(c) ==
    CASE c = "+" -> <<"INFIX", "ADD">>  [] c = "-" -> <<"INFIX", "SUB">>
      [] c = "*" -> <<"INFIX", "MUL">>  [] c = "/" -> <<"INFIX", "DIVIDE">>
      [] c = "^" -> <<"INFIX", "POW">>  [] c = "%" -> <<"INFIX", "FMOD">>
      [] c = "(" -> <<"OPEN", "">>      [] c = ")" -> <<"CLOSE", "">>
      [] c = "," -> <<"SEP", "">>       [] OTHER   -> <<"ERROR", "">>

(***************************************************************************)
(* next_token from position p: blanks are skipped (the do-while on         *)
(* TOK_NULL); at the end TOK_END without moving; a digit or '.' is a       *)
(* number; a letter starts a name of [a-z0-9_] looked up as a variable,    *)
(* then a builtin, else TOK_ERROR; anything else is one character.         *)
(***************************************************************************)
RECURSIVE Lex(_, _)
Lex(src, p) ==
    LET c == Ch(src, p) IN
    IF c = "" THEN Tok("END", "", 0, p)
    ELSE IF c \in Digits \cup {"."} THEN Tok("NUMBER", "", 0, StrtodEnd(src, p))
    ELSE IF c \in Lower THEN
        LET q    == RunEnd(src, p, IdentChars)
            name == SubSeq(src, p, q - 1)
            b    == FindBuiltin(name)
        IN IF FindLookup(name) THEN Tok("VARIABLE", "", 0, q)
           ELSE IF b # NotFound THEN Tok("FUNC", b.address, b.arity, q)
           ELSE Tok("ERROR", "", 0, q)
    ELSE IF c \in Blank THEN Lex(src, p + 1)
    ELSE IF c = "*" /\ Ch(src, p + 1) = "*" THEN Tok("INFIX", "POW", 0, p + 2)
    ELSE Tok(Punct(c)[1], Punct(c)[2], 0, p + 1)

NextToken(src, s) == Lex(src, s.next)

Err(s) == [s EXCEPT !.type = "ERROR"]

Node(f, args) == [f |-> f, args |-> args]
Leaf(f) == Node(f, <<>>)
NoTree == Leaf("NONE")

-----------------------------------------------------------------------------
(***************************************************************************)
(* The loops of factor, term, expr and list: while the token is one of     *)
(* the level's operators (OpOf gives its node function, "" otherwise),     *)
(* read the next token, parse the right operand with the level below, and *)
(* make the node of the two: the operators of one level associate to the *)
(* left.                                                                   *)
(***************************************************************************)
InfixOf(s, ops) == IF s.type = "INFIX" /\ s.fn \in ops THEN s.fn ELSE ""

OpOf(level, s) ==
    CASE level = "factor" -> InfixOf(s, {"POW"})
      [] level = "term"   -> InfixOf(s, {"MUL", "DIVIDE", "FMOD"})
      [] level = "expr"   -> InfixOf(s, {"ADD", "SUB"})
      [] level = "list"   -> IF s.type = "SEP" THEN "COMMA" ELSE ""

RECURSIVE Parse(_, _, _), Loop(_, _, _), SignLoop(_, _, _), ArgLoop(_, _, _, _, _)

(* The parser function that reads the right operands of a level.          *)
Below(level) ==
    CASE level = "factor" -> "power"
      [] level = "term"   -> "factor"
      [] level = "expr"   -> "term"
      [] level = "list"   -> "expr"

Loop(src, r, level) ==
    LET t == OpOf(level, r[2]) IN
    IF t = "" THEN r
    ELSE LET r2 == Parse(Below(level), src, NextToken(src, r[2]))
         IN Loop(src, <<Node(t, <<r[1], r2[1]>>), r2[2]>>, level)

(* factor: <power> {"^" <power>}                                          *)
Factor(src, s) == Loop(src, Parse("power", src, s), "factor")

(* term: <factor> {("*" | "/" | "%") <factor>}                            *)
Term(src, s) == Loop(src, Parse("factor", src, s), "term")

(* expr: <term> {("+" | "-") <term>}                                      *)
Expr(src, s) == Loop(src, Parse("term", src, s), "expr")

(* list: <expr> {"," <expr>}                                              *)
List(src, s) == Loop(src, Parse("expr", src, s), "list")

(* power: {("-" | "+")} <base>; an odd number of '-' negates the base.    *)
SignLoop(src, s, sign) ==
    IF OpOf("expr", s) # ""
    THEN SignLoop(src, NextToken(src, s), IF s.fn = "SUB" THEN -sign ELSE sign)
    ELSE <<s, sign>>

Power(src, s) ==
    LET sg == SignLoop(src, s, 1)
        b  == Parse("base", src, sg[1])
    IN IF sg[2] = 1 THEN b ELSE <<Node("NEGATE", <<b[1]>>), b[2]>>

(***************************************************************************)
(* The argument loop of base for a function of arity ar >= 2:             *)
(*   for (i = 0; i < arity; i++) {                                         *)
(*       next_token(s); parameters[i] = expr(s);                           *)
(*       if (s->type != TOK_SEP) break;                                    *)
(*   }                                                                     *)
(* It returns the state, the parameters parsed and the final i.           *)
(***************************************************************************)
ArgLoop(src, s, args, i, ar) ==
    IF i >= ar THEN [s |-> s, args |-> args, i |-> i]
    ELSE LET r == Parse("expr", src, NextToken(src, s))
         IN IF r[2].type # "SEP"
            THEN [s |-> r[2], args |-> Append(args, r[1]), i |-> i]
            ELSE ArgLoop(src, r[2], Append(args, r[1]), i + 1, ar)

(* Before it: the check compares i with the arity itself.                 *)
ArityClosedPastEnd(a, ar) == a.s.type = "CLOSE" /\ a.i = ar

(* The check after the argument loop: a ')' right after the last of       *)
(* exactly arity parameters.                                               *)
ArityClosed(a, ar) == a.s.type = "CLOSE" /\ a.i = ar - 1

(***************************************************************************)
(* base: a number; a variable; a function of arity 0 with an optional     *)
(* "()"; a function of arity 1 applied to a power; a function of arity    *)
(* ar >= 2 with "(" and ar expressions separated by ","; "(" <list> ")".  *)
(* Anything else (TOK_INFIX masks to no case) gives a NAN node and         *)
(* TOK_ERROR.  An error sets the token to TOK_ERROR, which no loop or      *)
(* check of the callers accepts, so it reaches jug_te_compile.            *)
(***************************************************************************)
Base(src, s) ==
    CASE s.type = "NUMBER" -> <<Leaf("CONST"), NextToken(src, s)>>
      [] s.type = "VARIABLE" -> <<Leaf("VAR"), NextToken(src, s)>>
      [] s.type = "FUNC" /\ s.ar = 0 ->
            LET s1 == NextToken(src, s)
                s2 == NextToken(src, s1)
            IN <<Leaf(s.fn),
                 IF s1.type # "OPEN" THEN s1
                 ELSE IF s2.type # "CLOSE" THEN Err(s2) ELSE NextToken(src, s2)>>
      [] s.type = "FUNC" /\ s.ar = 1 ->
            LET p == Parse("power", src, NextToken(src, s))
            IN <<Node(s.fn, <<p[1]>>), p[2]>>
      [] s.type = "FUNC" /\ s.ar >= 2 ->
            LET s1 == NextToken(src, s)
                a  == ArgLoop(src, s1, <<>>, 0, s.ar)
            IN IF s1.type # "OPEN" THEN <<Leaf(s.fn), Err(s1)>>
               ELSE <<Node(s.fn, a.args),
                      IF ArityClosed(a, s.ar) THEN NextToken(src, a.s) ELSE Err(a.s)>>
      [] s.type = "OPEN" ->
            LET r == Parse("list", src, NextToken(src, s))
            IN <<r[1], IF r[2].type # "CLOSE" THEN Err(r[2]) ELSE NextToken(src, r[2])>>
      [] OTHER -> <<Leaf("NAN"), Err(s)>>

(* The parser function of a level, called from the levels above it.       *)
Parse(level, src, s) ==
    CASE level = "list"   -> List(src, s)
      [] level = "expr"   -> Expr(src, s)
      [] level = "term"   -> Term(src, s)
      [] level = "factor" -> Factor(src, s)
      [] level = "power"  -> Power(src, s)
      [] level = "base"   -> Base(src, s)

(* Before it: the offset taken backwards.                                  *)
ErrorOffsetSwapped(s) == IF 1 - s.next = 0 THEN 1 ELSE 1 - s.next

ErrorOffset(s) == IF s.next - 1 = 0 THEN 1 ELSE s.next - 1

(***************************************************************************)
(* jug_te_compile: read the first token, parse a list; unless the token   *)
(* after it is TOK_END, free the tree and report the characters consumed  *)
(* (s.next - s.start), 1 when that is 0; otherwise return the tree.        *)
(***************************************************************************)
CompileResult(r) ==
    IF r[2].type # "END"
    THEN [ok |-> FALSE, root |-> NoTree, error |-> ErrorOffset(r[2])]
    ELSE [ok |-> TRUE, root |-> r[1], error |-> 0]

JugTeCompile(src) == CompileResult(Parse("list", src, Lex(src, 1)))

Init ==
    /\ input \in Inputs
    /\ phase = "source"
    /\ result = [ok |-> FALSE, root |-> NoTree, error |-> 0]

Compile ==
    /\ phase = "source"
    /\ phase' = "compiled"
    /\ result' = JugTeCompile(input)
    /\ UNCHANGED input

Spec == Init /\ [][Compile]_vars

-----------------------------------------------------------------------------
(***************************************************************************)
(* The reference: the language of section 4.4 of the specification,       *)
(* stated by what its words are rather than by how they are scanned.      *)
(***************************************************************************)
AllIn(w, set) == \A i \in 1 .. Len(w) : SubSeq(w, i, i) \in set
Pre(w, k) == SubSeq(w, 1, k - 1)
Post(w, k) == SubSeq(w, k + 1, Len(w))

(* A decimal floating literal: digits, or digits '.' digits with a digit  *)
(* on some side, optionally followed by e or E, a sign and digits.         *)
Mantissa(w) ==
    \/ w # "" /\ AllIn(w, Digits)
    \/ \E k \in 1 .. Len(w) :
          /\ Ch(w, k) = "."
          /\ AllIn(Pre(w, k), Digits) /\ AllIn(Post(w, k), Digits)
          /\ Len(w) > 1

FloatLiteral(w) ==
    \/ Mantissa(w)
    \/ \E k \in 1 .. Len(w) :
          /\ Ch(w, k) \in {"e", "E"}
          /\ Mantissa(Pre(w, k))
          /\ LET x == Post(w, k)
                 d == IF Ch(x, 1) \in {"+", "-"} THEN SubSeq(x, 2, Len(x)) ELSE x
             IN d # "" /\ AllIn(d, Digits)

RTok(type, fn, ar) == [type |-> type, fn |-> fn, ar |-> ar]

(* The entry of the builtin table with exactly this name.                 *)
BuiltinNamed(name) == {Functions[i] : i \in {i \in DOMAIN Functions : Functions[i].name = name}}

(* A name's token: a variable first, then a builtin, else an error.       *)
NameTok(name) ==
    IF name \in VarNames THEN RTok("VARIABLE", "", 0)
    ELSE IF BuiltinNamed(name) = {} THEN RTok("ERROR", "", 0)
    ELSE LET e == CHOOSE e \in BuiltinNamed(name) : TRUE IN RTok("FUNC", e.address, e.arity)

SingleTok(c) == RTok(Punct(c)[1], Punct(c)[2], 0)

(***************************************************************************)
(* The tokens of an expression, longest match first, up to the first one  *)
(* that is not a word of the language.                                    *)
(***************************************************************************)
RECURSIVE RefLex(_)
RefLex(w) ==
    LET c  == Ch(w, 1)
        Longest(P(_)) == CHOOSE k \in 0 .. Len(w) :
                            /\ k = 0 \/ P(SubSeq(w, 1, k))
                            /\ \A j \in k + 1 .. Len(w) : ~P(SubSeq(w, 1, j))
        num  == Longest(FloatLiteral)
        name == Longest(LAMBDA x : x # "" /\ Ch(x, 1) \in Lower /\ AllIn(x, IdentChars))
        Then(t, k) == IF t.type = "ERROR" THEN <<t>>
                      ELSE <<t>> \o RefLex(SubSeq(w, k + 1, Len(w)))
    IN IF w = "" THEN <<>>
       ELSE IF c \in Blank THEN RefLex(SubSeq(w, 2, Len(w)))
       ELSE IF c \in Digits \cup {"."} THEN
            IF num = 0 THEN <<RTok("ERROR", "", 0)>> ELSE Then(RTok("NUMBER", "", 0), num)
       ELSE IF c \in Lower THEN Then(NameTok(SubSeq(w, 1, name)), name)
       ELSE IF c = "*" /\ Ch(w, 2) = "*" THEN Then(RTok("INFIX", "POW", 0), 2)
       ELSE Then(SingleTok(c), 1)

(***************************************************************************)
(* The trees of the grammar                                                *)
(*   list   = expr   ("," expr)*                                           *)
(*   expr   = term   (("+"|"-") term)*                                     *)
(*   term   = factor (("*"|"/"|"%") factor)*                               *)
(*   factor = power  ("^" power)*            left-associative              *)
(*   power  = ("+"|"-")* base                                              *)
(*   base   = NUMBER | variable | f0 ["(" ")"] | f1 power                  *)
(*          | fk "(" expr ("," expr)^(k-1) ")" | "(" list ")"             *)
(* over a sequence of tokens, as sets: a sequence that is not a sentence  *)
(* has none.  A binary node splits the sequence at an operator of its     *)
(* level with a sentence of the level on its left and of the level below *)
(* on its right.                                                           *)
(***************************************************************************)
RECURSIVE RefT(_, _), ArgsT(_, _)

(* The trees of a level made by its binary operators: a split at an       *)
(* operator of the level, the level on the left, the level below on the  *)
(* right.                                                                  *)
LeftAssocT(level, ts) ==
    UNION {{Node(OpOf(level, ts[k]), <<l, r>>) :
              l \in RefT(level, SubSeq(ts, 1, k - 1)),
              r \in RefT(Below(level), SubSeq(ts, k + 1, Len(ts)))} :
           k \in {k \in 1 .. Len(ts) : OpOf(level, ts[k]) # ""}}

(* power: the leading signs, negated when an odd number are '-'.          *)
LeadingSigns(ts) ==
    CHOOSE k \in 0 .. Len(ts) :
        /\ \A j \in 1 .. k : OpOf("expr", ts[j]) # ""
        /\ k < Len(ts) => OpOf("expr", ts[k + 1]) = ""

Negated(ts, k) == Cardinality({j \in 1 .. k : ts[j].fn = "SUB"}) % 2 = 1

PowerT(ts, k) ==
    {IF Negated(ts, k) THEN Node("NEGATE", <<b>>) ELSE b :
        b \in RefT("base", SubSeq(ts, k + 1, Len(ts)))}

(* Sequences of n expressions separated by ",".                            *)
ArgsT(ts, n) ==
    IF n = 1 THEN {<<e>> : e \in RefT("expr", ts)}
    ELSE UNION {{<<e>> \o rest : e \in RefT("expr", SubSeq(ts, 1, k - 1)),
                                 rest \in ArgsT(SubSeq(ts, k + 1, Len(ts)), n - 1)} :
                k \in {k \in 1 .. Len(ts) : ts[k].type = "SEP"}}

Wrapped(ts, i) == Len(ts) >= i + 1 /\ ts[i].type = "OPEN" /\ ts[Len(ts)].type = "CLOSE"

BaseT(ts) ==
    CASE ts = <<>> -> {}
      [] ts[1].type = "NUMBER" -> IF Len(ts) = 1 THEN {Leaf("CONST")} ELSE {}
      [] ts[1].type = "VARIABLE" -> IF Len(ts) = 1 THEN {Leaf("VAR")} ELSE {}
      [] ts[1].type = "FUNC" /\ ts[1].ar = 0 ->
            IF Len(ts) = 1 \/ (Len(ts) = 3 /\ Wrapped(ts, 2)) THEN {Leaf(ts[1].fn)} ELSE {}
      [] ts[1].type = "FUNC" /\ ts[1].ar = 1 ->
            {Node(ts[1].fn, <<p>>) : p \in RefT("power", Tail(ts))}
      [] ts[1].type = "FUNC" /\ ts[1].ar >= 2 ->
            IF Wrapped(ts, 2)
            THEN {Node(ts[1].fn, a) : a \in ArgsT(SubSeq(ts, 3, Len(ts) - 1), ts[1].ar)}
            ELSE {}
      [] ts[1].type = "OPEN" ->
            IF Wrapped(ts, 1) THEN RefT("list", SubSeq(ts, 2, Len(ts) - 1)) ELSE {}
      [] OTHER -> {}

RefT(level, ts) ==
    CASE level = "power" -> PowerT(ts, LeadingSigns(ts))
      [] level = "base"  -> BaseT(ts)
      [] OTHER           -> RefT(Below(level), ts) \cup LeftAssocT(level, ts)

RefTreesOf(ts) ==
    IF \E k \in DOMAIN ts : ts[k].type = "ERROR" THEN {} ELSE RefT("list", ts)

RefTrees(w) == RefTreesOf(RefLex(w))

ParseTypeOK ==
    /\ input \in STRING
    /\ phase \in {"source", "compiled"}
    /\ result.ok \in BOOLEAN
    /\ result.error \in Nat

(***************************************************************************)
(* jug_te_compile accepts exactly the sentences of the grammar, and the   *)
(* tree it returns is the sentence's tree: precedence, associativity,     *)
(* unary signs, the arity of calls and the builtin lookup as the          *)
(* specification's grammar and identifier rules give them.                *)
(***************************************************************************)
Matches(T) == (result.ok <=> T # {}) /\ (result.ok => result.root \in T)

CompileMatchesGrammar == phase = "compiled" => Matches(RefTrees(input))

=============================================================================

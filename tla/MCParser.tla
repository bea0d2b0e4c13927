------------------------------ MODULE MCParser ------------------------------
(* The expressions compiled: every concatenation of a few lexemes, so that *)
(* adjacent lexemes also run together as the lexer sees them ("x" "1" is  *)
(* the name x1, "*" "*" is pow, "1" "e" "1" is one number).               *)
EXTENDS SequencesExt

Cat(ps) == FoldLeft(LAMBDA a, b : a \o b, "", ps)

Strings(pieces, lens) == {Cat(ps) : ps \in UNION {[1 .. n -> pieces] : n \in lens}}

(* All short expressions over the operators, a variable, a builtin of     *)
(* each arity and the parentheses.                                         *)
Short == Strings({"x", "e", "log", "max", "+", "-", "*", "^", "(", ")", ","}, 1 .. 4)

(* Numbers, blanks and the two-character pow.                             *)
Lexical == Strings({"1", ".", "e", "x", "-", " ", "*"}, 1 .. 4)

(* Calls of arity 2 with one, two and three arguments.                     *)
Calls == Strings({"x", "max", "(", ")", ","}, 5 .. 6)

(* Precedence, associativity and unary signs.                              *)
Precedence == Strings({"x", "+", "-", "*", "^", "log"}, 5 .. 5)

(* All of these, and the empty expression, which stops at base's default  *)
(* branch and reports offset 1.                                          *)
MCInputs == {""} \cup Short \cup Lexical \cup Calls \cup Precedence
=============================================================================

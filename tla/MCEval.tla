------------------------------- MODULE MCEval -------------------------------
(* Operands and evaluator configurations for checking iarray_eval.         *)
EXTENDS Eval

Sc(items, filled, c, b, m) ==
    [items |-> items, filled |-> filled, chunk |-> c, block |-> b, mode |-> m]

(***************************************************************************)
(* One or two operands of the same length 1..7 in chunks of 2 or 3 items,  *)
(* blosc blocks of 1..4 items (clamped to the chunk by blosc), both modes: *)
(* short last chunks, last chunks that are a multiple of the block, block  *)
(* sizes that do not divide the chunk and blocks larger than the chunk.   *)
(***************************************************************************)
SameShape ==
    {Sc(its, [k \in DOMAIN its |-> TRUE], c, b, m) :
        its \in {<<n>> : n \in 1 .. 7} \cup {<<n, n>> : n \in 1 .. 7},
        c \in 2 .. 3, b \in 1 .. 4, m \in {"chunk", "block"}}

(* A second operand built by zeros/ones: its shape, but no chunks stored.  *)
UnfilledOperand ==
    {Sc(<<n, n>>, <<TRUE, FALSE>>, c, b, m) :
        n \in 1 .. 5, c \in 2 .. 3, b \in 1 .. 3, m \in {"chunk", "block"}}

(* Two filled operands whose lengths differ.                               *)
Mismatched ==
    {Sc(<<n1, n2>>, <<TRUE, TRUE>>, c, b, m) :
        n1 \in 1 .. 5, n2 \in 1 .. 5, c \in 2 .. 3, b \in 1 .. 3,
        m \in {"chunk", "block"}}

(* Both of the above.                                                       *)
SameShapeOrUnfilled == SameShape \cup UnfilledOperand

=============================================================================

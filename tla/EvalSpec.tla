------------------------------ MODULE EvalSpec ------------------------------
(***************************************************************************)
(* What iarray_eval promises, whatever its strategy: the output super-chunk *)
(* grows one chunk at a time, in chunk order, and chunk j holds, for each   *)
(* item of chunk j of the operands, the expression applied to the operands' *)
(* items at that position.  The evaluation ends with every chunk appended, *)
(* or stops early with an error when an operand cannot be read (the output *)
(* then holds a prefix, which the caller discards); with readable operands *)
(* it never fails.  Operands whose shapes differ are an error (compile or *)
(* the first eval raises it): nothing is appended and the call fails.     *)
(* The operands do not change during an evaluation, so what they define   *)
(* (expected, readable, agree) is state that no step changes.             *)
(***************************************************************************)
EXTENDS Naturals, Sequences

VARIABLES
    out,       \* the chunks appended to the output
    status,    \* "running", "done" or "failed"
    expected,  \* expected[j]: what output chunk j must hold
    readable,  \* every operand's chunks can be decompressed
    agree      \* every operand has the same logical shape

Init == out = <<>> /\ status = "running"

AppendChunk ==
    /\ status = "running" /\ agree
    /\ Len(out) < Len(expected)
    /\ out' = Append(out, expected[Len(out) + 1])
    /\ UNCHANGED <<status, expected, readable, agree>>

Finish ==
    /\ status = "running" /\ agree
    /\ Len(out) = Len(expected)
    /\ status' = "done"
    /\ UNCHANGED <<out, expected, readable, agree>>

Fail ==
    /\ ~readable \/ ~agree
    /\ status = "running"
    /\ status' = "failed"
    /\ UNCHANGED <<out, expected, readable, agree>>

Next == AppendChunk \/ Finish \/ Fail

Spec == Init /\ [][Next]_<<out, status, expected, readable, agree>>

=============================================================================

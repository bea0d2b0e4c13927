----------------------------- MODULE MatmulSets -----------------------------
(***************************************************************************)
(* The operand shapes the matrix-product runs offer.                       *)
(***************************************************************************)
EXTENDS Naturals

(* Extents 1..4 against partitions of 1..3: exact fits, one and two cells *)
(* of padding, a single partition and grids of up to four per dimension. *)
MCCases ==
    [M : 1 .. 4, K : 1 .. 4, N : 1 .. 4, P : 1 .. 3, vec : {FALSE}]
    \cup [M : 1 .. 4, K : 1 .. 4, N : {1}, P : 1 .. 3, vec : {TRUE}]

(* Vectors c of up to 6 items in chunks of 1..4 and blocks no larger than *)
(* the chunk: extended chunks (CS = 3, BS = 2), edge chunks, and up to     *)
(* four blocks run by blosc's threads in any order.                        *)
MCGCases == {c \in [M : 1 .. 6, CS : 1 .. 4, BS : 1 .. 4] : c.BS <= c.CS}
=============================================================================

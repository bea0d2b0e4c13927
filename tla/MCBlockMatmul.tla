--------------------------- MODULE MCBlockMatmul ---------------------------
EXTENDS BlockMatmul

(* Extents 1..4 against partitions of 1..3: exact fits, one and two cells *)
(* of padding, a single partition and grids of up to four per dimension. *)
MCCases ==
    [M : 1 .. 4, K : 1 .. 4, N : 1 .. 4, P : 1 .. 3, vec : {FALSE}]
    \cup [M : 1 .. 4, K : 1 .. 4, N : {1}, P : 1 .. 3, vec : {TRUE}]
=============================================================================

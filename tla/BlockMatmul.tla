---------------------------- MODULE BlockMatmul ----------------------------
(***************************************************************************)
(* iarray_gemm and iarray_gemv of src/src/iarray.c: block matrix-matrix    *)
(* and matrix-vector products over the partition grids of caterva arrays, *)
(* and the matmul iterator of src/src/iarray_iterator.c written to walk    *)
(* the same block pairs.                                                   *)
(*                                                                         *)
(* The operands are built as tests/test_gemm.c builds them: from_buffer    *)
(* containers whose partitions are square and equal (P x P), holding an    *)
(* M x K matrix a and a K x N matrix b, or a vector b of K items.  An      *)
(* element is a tag <<"a", i, k>> or <<"b", k, j>>; a padding cell holds   *)
(* Zero, as from_buffer writes it.  A cell of the output block is the set  *)
(* of the products added to it; a product with a Zero factor adds nothing. *)
(***************************************************************************)
EXTENDS Naturals, Sequences

CONSTANTS
    Cases,      \* operand shapes [M, K, N, P, vec]; vec: b is a vector
    Zero        \* the value of a padding cell and of a memset cell

VARIABLES
    cs,         \* the operands' shapes
    phase,      \* "clear" (top of the n loop), "mul", "free", "done"
    m, n, k,    \* the loop counters
    c_block,    \* the output block being accumulated
    out,        \* the blocks appended to c's super-chunk
    heap,       \* the malloc'd blocks still live
    used        \* history: the chunk pairs <<a_i, b_i>> decompressed

vars == <<cs, phase, m, n, k, c_block, out, heap, used>>

Ext(x, p) == ((x + p - 1) \div p) * p
P == cs.P
MP == Ext(cs.M, P) \div P
KP == Ext(cs.K, P) \div P
NP == IF cs.vec THEN 1 ELSE Ext(cs.N, P) \div P
Rows == 0 .. P - 1
Cols == IF cs.vec THEN {0} ELSE Rows
Uninit == "garbage"

ACell(i, kk) == IF i < cs.M /\ kk < cs.K THEN <<"a", i, kk>> ELSE Zero
BCell(kk, j) ==
    IF kk < cs.K /\ (cs.vec \/ j < cs.N) THEN <<"b", kk, j>> ELSE Zero

(* Chunk ci of a super-chunk is partition ci of the row-major grid.        *)
AChunk(ci) ==
    [rc \in Rows \X Rows |->
        ACell((ci \div KP) * P + rc[1], (ci % KP) * P + rc[2])]
BChunk(ci) ==
    [rc \in Rows \X Cols |->
        BCell((ci \div NP) * P + rc[1], (ci % NP) * P + rc[2])]

Prod(x, y) == IF x = Zero \/ y = Zero THEN {} ELSE {<<x, y>>}

(* _mm_mul_d/_mm_mul_f, and _mv_mul_d/_mv_mul_f with one column:           *)
(* c[i][j] += a[i][kk] * b[kk][j] over the block.                          *)
MmMul(a, b, c) ==
    [ij \in DOMAIN c |->
        c[ij] \cup UNION {Prod(a[<<ij[1], kk>>], b[<<kk, ij[2]>>]) : kk \in Rows}]

(* The chunk numbers the loop body decompresses.                           *)
AIndex(mm, kk) == mm * KP + kk
BIndex(kk, nn) == IF cs.vec THEN kk ELSE kk * NP + nn

-----------------------------------------------------------------------------
(* The matmul iterator: init, next and finished, on container1 = a and     *)
(* container2 = b.                                                         *)
MatmulInit == [cont |-> 0, npart1 |-> 0, npart2 |-> 0]

(* Mutant: the pair computed from the count before the increment.         *)
MatmulNextIncLate(it) ==
    LET mm == (IF cs.vec THEN it.cont \div KP ELSE it.cont \div (KP * NP)) % MP
        kk == it.cont % KP
        nn == (it.cont \div KP) % NP
    IN  [cont |-> it.cont + 1,
         npart1 |-> mm * KP + kk,
         npart2 |-> IF cs.vec THEN kk ELSE kk * NP + nn]

MatmulNext(it) ==
    LET c == it.cont + 1
        mm == (IF cs.vec THEN c \div KP ELSE c \div (KP * NP)) % MP
        kk == c % KP
        nn == (c \div KP) % NP
    IN  [cont |-> c,
         npart1 |-> mm * KP + kk,
         npart2 |-> IF cs.vec THEN kk ELSE kk * NP + nn]

MatmulFinished(it) ==
    IF cs.vec THEN it.cont >= MP * KP ELSE it.cont >= MP * NP * KP

RECURSIVE MatmulAfter(_)
MatmulAfter(s) == IF s = 0 THEN MatmulInit ELSE MatmulNext(MatmulAfter(s - 1))

-----------------------------------------------------------------------------
(* The three blocks are malloc'd; c_block is not initialised.              *)
Init ==
    /\ cs \in Cases
    /\ phase = "clear"
    /\ m = 0 /\ n = 0 /\ k = 0
    /\ c_block = [ij \in Rows \X Cols |-> {Uninit}]
    /\ out = <<>>
    /\ heap = {"a_block", "b_block", "c_block"}
    /\ used = <<>>

(* Mutant: the k loop starts without the memset.                          *)
ClearBlockNoMemset ==
    /\ phase = "clear"
    /\ phase' = "mul"
    /\ k' = 0
    /\ UNCHANGED <<cs, m, n, c_block, out, heap, used>>

(* memset(c_block, 0, ...) before the k loop.                              *)
ClearBlock ==
    /\ phase = "clear"
    /\ c_block' = [ij \in DOMAIN c_block |-> {}]
    /\ phase' = "mul"
    /\ k' = 0
    /\ UNCHANGED <<cs, m, n, out, heap, used>>

(* Mutant: the k loop runs one step past K / P.                           *)
MulStepPastEnd ==
    /\ phase = "mul"
    /\ k <= KP
    /\ c_block' = MmMul(AChunk(AIndex(m, k)), BChunk(BIndex(k, n)), c_block)
    /\ used' = Append(used, <<AIndex(m, k), BIndex(k, n)>>)
    /\ k' = k + 1
    /\ UNCHANGED <<cs, phase, m, n, out, heap>>

(* One k step: decompress chunks a_i and b_i, multiply-accumulate.         *)
MulStep ==
    /\ phase = "mul"
    /\ k < KP
    /\ c_block' = MmMul(AChunk(AIndex(m, k)), BChunk(BIndex(k, n)), c_block)
    /\ used' = Append(used, <<AIndex(m, k), BIndex(k, n)>>)
    /\ k' = k + 1
    /\ UNCHANGED <<cs, phase, m, n, out, heap>>

(* The k loop is done: append c_block, then step n, then m.                *)
AppendBlock ==
    /\ phase = "mul"
    /\ k = KP
    /\ out' = Append(out, c_block)
    /\ \/ n + 1 < NP /\ n' = n + 1 /\ phase' = "clear" /\ UNCHANGED m
       \/ n + 1 = NP /\ m + 1 < MP /\ m' = m + 1 /\ n' = 0 /\ phase' = "clear"
       \/ n + 1 = NP /\ m + 1 = MP /\ phase' = "free" /\ UNCHANGED <<m, n>>
    /\ UNCHANGED <<cs, k, c_block, heap, used>>

(* iarray_gemm frees the three blocks; iarray_gemv returns without.        *)
Return ==
    /\ phase = "free"
    /\ heap' = IF cs.vec THEN heap ELSE {}
    /\ phase' = "done"
    /\ UNCHANGED <<cs, m, n, k, c_block, out, used>>

Next == ClearBlock \/ MulStep \/ AppendBlock \/ Return

Spec == Init /\ [][Next]_vars

-----------------------------------------------------------------------------
(* The reference product block for output chunk ci of c.                   *)
RefCell(i, j) == UNION {Prod(ACell(i, kk), BCell(kk, j)) : kk \in 0 .. Ext(cs.K, P) - 1}
RefBlock(ci) ==
    [ij \in Rows \X Cols |->
        RefCell((ci \div NP) * P + ij[1], (ci % NP) * P + ij[2])]

MatmulTypeOK ==
    /\ phase \in {"clear", "mul", "free", "done"}
    /\ m \in 0 .. MP - 1 /\ n \in 0 .. NP - 1 /\ k \in 0 .. KP
    /\ heap \subseteq {"a_block", "b_block", "c_block"}
    /\ Len(out) <= MP * NP

(***************************************************************************)
(* Every block iarray_gemm / iarray_gemv appends to c is the partition of  *)
(* a * b that caterva's row-major grid puts at that chunk number: each     *)
(* real cell holds exactly the K products of its row and column, each      *)
(* padding cell nothing.  When the call returns, the whole grid is there.  *)
(***************************************************************************)
ProductExact ==
    /\ \A ci \in 1 .. Len(out) : out[ci] = RefBlock(ci - 1)
    /\ phase = "done" => Len(out) = MP * NP

(***************************************************************************)
(* The matmul iterator, stepped once per k step from init, names the chunk *)
(* pair (npart1, npart2) that the gemm / gemv loop decompresses at that    *)
(* step, and reports finished exactly when the loop has done its last.     *)
(***************************************************************************)
IterMatchesLoop ==
    /\ \A s \in 1 .. Len(used) :
          LET it == MatmulAfter(s - 1)
          IN  /\ <<it.npart1, it.npart2>> = used[s]
              /\ ~MatmulFinished(it)
    /\ phase = "done" => MatmulFinished(MatmulAfter(Len(used)))

(***************************************************************************)
(* When iarray_gemm or iarray_gemv returns, the three partition buffers it *)
(* malloc'd (a_block, b_block, c_block) have been freed, as gemm does.     *)
(***************************************************************************)
BlocksReleased == phase = "done" => heap = {}

=============================================================================

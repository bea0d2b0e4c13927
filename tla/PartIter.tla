------------------------------ MODULE PartIter ------------------------------
(***************************************************************************)
(* The partition write iterator of src/src/iarray_iterator.c               *)
(* (iarray_iter_write_part_new / _init / _value / _next / _finished /      *)
(* _free) filling a fresh container, with the user loop that drives it:    *)
(*                                                                         *)
(*   for (iarray_iter_write_part_init(I); !iarray_iter_write_part_finished(I); *)
(*        iarray_iter_write_part_next(I)) {                                *)
(*       iarray_iter_write_part_value(I, &val);                            *)
(*       fill val.pointer with the val.part_shape elements of the part     *)
(*   }                                                                     *)
(*                                                                         *)
(* The user writes the part in the compact row-major layout of part_shape, *)
(* locating it through val.part_index, as the loops of tools/perf_vectors.c *)
(* do.  Element values are tags as in WriteIter.                           *)
(***************************************************************************)
EXTENDS Integers, Sequences, FiniteSets, ChunkGrid

CONSTANTS
    DTShapes,    \* the <<shape, pshape>> pairs of the containers considered
    MaxFail      \* bound on the failed appends of one run

ASSUME \A sp \in DTShapes : ValidDTShape(sp)

Zero == 0
Garbage == -1
Val(e) == e + 1

VARIABLES
    shape, pshape,
    schunk,      \* catarr->sc: the partitions appended, in order
    pphase,      \* "none", "new", "iter" or "freed"
    part,        \* itr->part, the user's buffer, indexed by offset
    cont,        \* itr->cont
    part_index,  \* itr->part_index
    elem_index,  \* itr->elem_index
    part_shape,  \* itr->part_shape
    part_size,   \* itr->part_size
    written,     \* the loop body has filled the current part
    val,         \* what the last iarray_iter_write_part_value returned
    nfail        \* failed appends so far

pvars == <<shape, pshape, schunk, pphase, part, cont, part_index, elem_index,
           part_shape, part_size, written, val, nfail>>

N == Len(shape)
Grid == NParts(shape, pshape)
NPartsTotal == ESize(shape, pshape) \div PSize(pshape)
Buffer(v) == [o \in 0 .. PSize(pshape) - 1 |-> v]

(* iarray_iter_write_part_finished, after a slip of its test.             *)
PartFinishedPastEnd == cont > NPartsTotal
PartFinished == cont >= NPartsTotal

(***************************************************************************)
(* The part index of counter c, as write_part_next computes it: for the   *)
(* last dimension c modulo the partitions along it; for the others, c     *)
(* modulo the partitions of the dimensions from i on, divided by those     *)
(* after i (inc).  Before it: the division by inc left out.               *)
(***************************************************************************)
PartIndexOfNoInc(c) ==
    [i \in Dims(shape) |-> c % (StrideAfter(Grid, i) * Grid[i])]

PartIndexOf(c) ==
    [i \in Dims(shape) |->
        (c % (StrideAfter(Grid, i) * Grid[i])) \div StrideAfter(Grid, i)]

(* The extent of a part along i: truncated at the edge of the shape.      *)
PartShapeOf(pi) ==
    [i \in Dims(shape) |->
        IF (pi[i] + 1) * pshape[i] > shape[i]
        THEN shape[i] - ExtShape(shape, pshape)[i] + pshape[i]
        ELSE pshape[i]]

(***************************************************************************)
(* The padded copy of an edge part.  Rows are the coordinates of the part  *)
(* with the last one 0; each row of part_shape[N] elements is copied from  *)
(* its offset itr_p in the compact buffer to its offset aux_p in a         *)
(* partition-sized buffer part_aux that is allocated and never cleared.   *)
(***************************************************************************)
Rows == {r \in {FlatToNd(q, part_shape) : q \in 0 .. part_size - 1} : r[N] = 0}

(* Before it: the row offset taken with the part's own extents.            *)
AuxPCompact(r) ==
    SumFunction([i \in 1 .. N - 1 |-> r[i] * StrideAfter(part_shape, i)])

AuxP(r) == SumFunction([i \in 1 .. N - 1 |-> r[i] * StrideAfter(pshape, i)])

ItrP(r) == SumFunction([i \in 1 .. N - 1 |-> r[i] * StrideAfter(part_shape, i)])

PaddedCopy(buf) ==
    LET From(a) == {<<r, a - AuxP(r)>> :
                      r \in {r \in Rows : AuxP(r) <= a /\ a - AuxP(r) < part_shape[N]}}
    IN [a \in 0 .. PSize(pshape) - 1 |->
          IF From(a) = {} THEN Garbage
          ELSE LET f == CHOOSE f \in From(a) : TRUE IN buf[ItrP(f[1]) + f[2]]]

(* The compact value of the current part, as the loop body writes it.      *)
UserPart ==
    [o \in 0 .. PSize(pshape) - 1 |->
        IF o < part_size
        THEN LET c == FlatToNd(o, part_shape)
             IN Val(NElem(shape, [i \in Dims(shape) |->
                                      part_index[i] * pshape[i] + c[i]]))
        ELSE part[o]]

Init ==
    /\ \E sp \in DTShapes : shape = sp[1] /\ pshape = sp[2]
    /\ schunk = <<>>
    /\ pphase = "none"
    /\ part = <<>>
    /\ cont = 0
    /\ part_index = <<>>
    /\ elem_index = <<>>
    /\ part_shape = <<>>
    /\ part_size = 0
    /\ written = FALSE
    /\ val = [part_index |-> <<>>, elem_index |-> <<>>, nelem |-> 0,
              part_shape |-> <<>>]
    /\ nfail = 0

(* iarray_iter_write_part_new: every array allocated, none initialised.   *)
PartNew ==
    /\ pphase = "none"
    /\ pphase' = "new"
    /\ part' = Buffer(Garbage)
    /\ part_index' = [i \in Dims(shape) |-> Garbage]
    /\ elem_index' = [i \in Dims(shape) |-> Garbage]
    /\ part_shape' = [i \in Dims(shape) |-> Garbage]
    /\ UNCHANGED <<shape, pshape, schunk, cont, part_size, written, val, nfail>>

(* iarray_iter_write_part_init: elem_index is left as allocated.           *)
PartInit ==
    /\ pphase = "new"
    /\ pphase' = "iter"
    /\ cont' = 0
    /\ part' = Buffer(Zero)
    /\ part_index' = [i \in Dims(shape) |-> 0]
    /\ part_shape' = pshape
    /\ part_size' = PSize(pshape)
    /\ UNCHANGED <<shape, pshape, schunk, elem_index, written, val, nfail>>

(* Loop body: iarray_iter_write_part_value, then the user fills the part. *)
PartValue ==
    /\ pphase = "iter"
    /\ ~PartFinished
    /\ ~written
    /\ val' = [part_index |-> part_index, elem_index |-> elem_index,
               nelem |-> cont, part_shape |-> part_shape]
    /\ part' = UserPart
    /\ written' = TRUE
    /\ UNCHANGED <<shape, pshape, schunk, pphase, cont, part_index, elem_index,
                   part_shape, part_size, nfail>>

(***************************************************************************)
(* iarray_iter_write_part_next.  A full part is appended as it is; an edge *)
(* part through its padded copy.  A failed append returns before the      *)
(* counter moves; the loop ignores the result and runs the body again.    *)
(***************************************************************************)
PartNext ==
    /\ pphase = "iter"
    /\ ~PartFinished
    /\ written
    /\ written' = FALSE
    /\ \/ /\ nfail < MaxFail
          /\ nfail' = nfail + 1
          /\ UNCHANGED <<shape, pshape, schunk, pphase, part, cont, part_index,
                         elem_index, part_shape, part_size, val>>
       \/ LET c  == cont + 1
              pi == PartIndexOf(c)
          IN /\ schunk' = Append(schunk, IF part_size = PSize(pshape)
                                         THEN part ELSE PaddedCopy(part))
             /\ cont' = c
             /\ part_index' = pi
             /\ elem_index' = [i \in Dims(shape) |->
                                 IF i < N THEN pi[i] * pshape[i] ELSE elem_index[i]]
             /\ part_shape' = PartShapeOf(pi)
             /\ part_size' = Prod(PartShapeOf(pi))
             /\ UNCHANGED <<shape, pshape, pphase, part, val, nfail>>

(* iarray_iter_write_part_free                                             *)
PartFree ==
    /\ pphase \in {"new", "iter"}
    /\ pphase' = "freed"
    /\ UNCHANGED <<shape, pshape, schunk, part, cont, part_index, elem_index,
                   part_shape, part_size, written, val, nfail>>

PNext == PartNew \/ PartInit \/ PartValue \/ PartNext \/ PartFree

PSpec == Init /\ [][PNext]_pvars

-----------------------------------------------------------------------------
Values == {Zero, Garbage} \cup {Val(e) : e \in 0 .. Prod(shape) - 1}

PartTypeOK ==
    /\ <<shape, pshape>> \in DTShapes
    /\ pphase \in {"none", "new", "iter", "freed"}
    /\ \A k \in 1 .. Len(schunk) :
          DOMAIN schunk[k] = 0 .. PSize(pshape) - 1 /\ \A o \in DOMAIN schunk[k] : schunk[k][o] \in Values
    /\ cont \in 0 .. NPartsTotal
    /\ nfail \in 0 .. MaxFail
    /\ written \in BOOLEAN

(***************************************************************************)
(* Every part write_part_next appends holds, at each place of the          *)
(* partition that lies in the shape, the element of the container at that *)
(* place: the counter, the part index, the truncated part shape and the    *)
(* padded copy of edge parts agree with caterva's layout; a failed append  *)
(* adds nothing.                                                           *)
(***************************************************************************)
PartsStoredLogically ==
    /\ Len(schunk) = cont
    /\ \A k \in 1 .. Len(schunk), o \in 0 .. PSize(pshape) - 1 :
          LET ref == RefPart(shape, pshape, k - 1, Val, Zero)[o]
          IN ref # Zero => schunk[k][o] = ref

(***************************************************************************)
(* What write_part_value gives the loop describes part number nelem of the *)
(* grid in row-major order: its grid coordinate, and its extents truncated *)
(* at the edge of the shape (the user writes exactly that many elements).  *)
(***************************************************************************)
PartViewExact ==
    pphase = "iter" /\ written =>
        LET g == FlatToNd(val.nelem, Grid)
        IN /\ val.part_index = g
           /\ \A i \in Dims(shape) :
                 val.part_shape[i] = IF (g[i] + 1) * pshape[i] <= shape[i]
                                     THEN pshape[i] ELSE shape[i] - g[i] * pshape[i]

(***************************************************************************)
(* val.elem_index is, as write_part_value documents, the coordinate of the *)
(* first element of the part: part_index scaled by pshape in every         *)
(* dimension.                                                              *)
(***************************************************************************)
PartElemIndexDocumented ==
    pphase = "iter" /\ written =>
        \A i \in Dims(shape) : val.elem_index[i] = val.part_index[i] * pshape[i]

(***************************************************************************)
(* An edge part is stored "padded with 0's", as write_part_next's comment *)
(* says and the specification's padding rule (treated as zero on write):  *)
(* every place of an appended partition that lies outside the shape holds *)
(* Zero.  iarray_gemm and iarray_gemv multiply whole partitions, padding  *)
(* included, and rely on it.                                               *)
(***************************************************************************)
PaddingStoredZero ==
    \A k \in 1 .. Len(schunk), o \in 0 .. PSize(pshape) - 1 :
        RefPart(shape, pshape, k - 1, Val, Zero)[o] = Zero => schunk[k][o] = Zero

=============================================================================

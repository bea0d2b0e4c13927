----------------------------- MODULE ChunkGrid -----------------------------
(***************************************************************************)
(* Coordinate arithmetic of a caterva array as the element iterators of    *)
(* src/src/iarray_iterator.c use it.  A shape and a partition (chunk)      *)
(* shape are tuples indexed 1..ndim; index k of a tuple is dimension k-1   *)
(* of the C arrays.  The iterators walk an internal counter `cont` over    *)
(* the extended shape partition by partition, and inside a partition in    *)
(* row-major order; _update_iter_index turns `cont` into a coordinate, an  *)
(* offset in the partition buffer and a row-major element number.         *)
(***************************************************************************)
EXTENDS Naturals, Sequences, Functions

Dims(s) == 1 .. Len(s)

ProdOn(f, S) == FoldFunctionOnSet(LAMBDA a, b : a * b, 1, f, S)

Prod(f) == ProdOn(f, DOMAIN f)

(* Product of the extents of the dimensions after i: the row-major stride. *)
StrideAfter(f, i) == ProdOn(f, {j \in DOMAIN f : j > i})

(* caterva's eshape: each extent rounded up to a multiple of the chunk.    *)
ExtShape(s, p) == [i \in Dims(s) |-> ((s[i] + p[i] - 1) \div p[i]) * p[i]]

(* Number of partitions along each dimension.                              *)
NParts(s, p) == [i \in Dims(s) |-> ExtShape(s, p)[i] \div p[i]]

(* catarr->psize and catarr->esize.                                        *)
PSize(p) == Prod(p)
ESize(s, p) == Prod(ExtShape(s, p))

(***************************************************************************)
(* _update_iter_index: coordinate of counter value cont.  The offset in    *)
(* the partition is cont % psize; its coordinates inside the partition are *)
(* taken with the partition strides, the partition number cont / psize is  *)
(* split with the strides of the partition grid and scaled by pshape.      *)
(***************************************************************************)
IterIndex(s, p, cont) ==
    LET cont2 == cont % PSize(p)
        npart == cont \div PSize(p)
        np    == NParts(s, p)
    IN [i \in Dims(s) |->
          ((cont2 \div StrideAfter(p, i)) % p[i])
          + ((npart \div StrideAfter(np, i)) % np[i]) * p[i]]

(* Offset of counter value cont in the partition buffer (itr->pointer).    *)
PartOffset(p, cont) == cont % PSize(p)

(* Row-major element number of a coordinate in the logical shape (nelem). *)
NElem(s, idx) == SumFunction([i \in Dims(s) |-> idx[i] * StrideAfter(s, i)])

(* A coordinate lies in the logical shape, not in the padding.            *)
InShape(s, idx) == \A i \in Dims(s) : idx[i] < s[i]

(***************************************************************************)
(* The padding skip of iarray_iter_write_next / iarray_iter_read_next:     *)
(* for l = ndim-1 down to 0, when the coordinate along l is past the       *)
(* logical extent, jump over the padding of that dimension, whose extent   *)
(* in counter steps is (eshape[l] - shape[l]) times aux_inc[l], the        *)
(* partition stride.  Two slips of that loop come first: the comparison    *)
(* made strict, and the jump scaled by the stride of the logical shape.    *)
(***************************************************************************)
RECURSIVE SkipFromStrict(_, _, _, _)
SkipFromStrict(s, p, cont, l) ==
    IF l = 0 THEN cont
    ELSE LET c2 == IF IterIndex(s, p, cont)[l] > s[l]
                   THEN cont + (ExtShape(s, p)[l] - s[l]) * StrideAfter(p, l)
                   ELSE cont
         IN SkipFromStrict(s, p, c2, l - 1)

RECURSIVE SkipFromShapeStride(_, _, _, _)
SkipFromShapeStride(s, p, cont, l) ==
    IF l = 0 THEN cont
    ELSE LET c2 == IF IterIndex(s, p, cont)[l] >= s[l]
                   THEN cont + (ExtShape(s, p)[l] - s[l]) * StrideAfter(s, l)
                   ELSE cont
         IN SkipFromShapeStride(s, p, c2, l - 1)

RECURSIVE SkipFrom(_, _, _, _)
SkipFrom(s, p, cont, l) ==
    IF l = 0 THEN cont
    ELSE LET c2 == IF IterIndex(s, p, cont)[l] >= s[l]
                   THEN cont + (ExtShape(s, p)[l] - s[l]) * StrideAfter(p, l)
                   ELSE cont
         IN SkipFrom(s, p, c2, l - 1)

SkipPadding(s, p, cont) == SkipFrom(s, p, cont, Len(s))

(***************************************************************************)
(* _iarray_container_new: ndim <= CATERVA_MAXDIM (8) and                   *)
(* pshape[i] <= shape[i], or the container is refused.                     *)
(***************************************************************************)
ValidDTShape(sp) ==
    /\ Len(sp[1]) = Len(sp[2])
    /\ Len(sp[1]) \in 1 .. 8
    /\ \A i \in Dims(sp[1]) : sp[2][i] \in 1 .. sp[1][i]

(***************************************************************************)
(* Reference layout, from the definitions rather than from the iterator:  *)
(* flat_to_nd is row-major; partition k of the grid NParts holds, at       *)
(* offset o, the element at coordinate grid(k) * pshape + inpart(o), or    *)
(* padding when that coordinate is outside the shape.                      *)
(***************************************************************************)
FlatToNd(i, s) == [k \in Dims(s) |-> (i \div StrideAfter(s, k)) % s[k]]

RefPart(s, p, k, Val(_), Zero) ==
    [o \in 0 .. PSize(p) - 1 |->
        LET g   == FlatToNd(k, NParts(s, p))
            c   == FlatToNd(o, p)
            idx == [i \in Dims(s) |-> g[i] * p[i] + c[i]]
        IN IF InShape(s, idx) THEN Val(NElem(s, idx)) ELSE Zero]

=============================================================================

------------------------------ MODULE BlockIter ------------------------------
(***************************************************************************)
(* The block read iterator of src/src/iarray_iterator.c                    *)
(* (iarray_iter_read_block_new / _init / _next / _finished / _value /      *)
(* _free) with the loop that drives it:                                    *)
(*                                                                         *)
(*   for (iarray_iter_read_block_init(I); !iarray_iter_read_block_finished(I); *)
(*        iarray_iter_read_block_next(I)) {                                *)
(*       iarray_iter_read_block_value(I, &val);                            *)
(*       use the val.block_shape elements at val.elem_index               *)
(*   }                                                                     *)
(*                                                                         *)
(* Each step reads the region [start, stop) of the container with         *)
(* iarray_slice_buffer, which is not in this repository: it either fills   *)
(* the buffer or, for a region past the shape, may fail, and the          *)
(* INA_MUST_SUCCEED around it then stops the program.  The buffer's        *)
(* contents are left out; what is modelled is which region each step       *)
(* reads and what the loop is told about it.                               *)
(***************************************************************************)
EXTENDS Integers, Sequences, FiniteSets, ChunkGrid

CONSTANT
    BlockCases   \* the <<container shape, user block shape>> pairs considered

VARIABLES
    shape,        \* container->dtshape->shape
    bshape,       \* itr->shape: the block shape the user asked for
    bphase,       \* "none", "new", "iter", "aborted" or "freed"
    cont,         \* itr->cont
    block_index,  \* itr->block_index
    elem_index,   \* itr->elem_index
    block_shape,  \* itr->block_shape
    block_size,   \* itr->block_size
    read,         \* the region [start, stop) of the last slice
    val,          \* what the last read_block_value returned
    seen          \* history: the regions the loop was given, in order

bvars == <<shape, bshape, bphase, cont, block_index, elem_index, block_shape,
           block_size, read, val, seen>>

Undef == -1

(* Blocks along each dimension: shape / bshape, plus one for a remainder. *)
BlocksAlong == [i \in Dims(shape) |->
                  IF shape[i] % bshape[i] = 0 THEN shape[i] \div bshape[i]
                  ELSE shape[i] \div bshape[i] + 1]

(* iarray_iter_read_block_finished, after a slip of its test.             *)
BlockFinishedPastEnd == cont > Prod(BlocksAlong)
BlockFinished == cont >= Prod(BlocksAlong)

(***************************************************************************)
(* The start of block number c, as read_block_next computes it: from the  *)
(* last dimension back, c modulo the blocks of the dimensions from i on,  *)
(* divided by those after i (inc), then scaled by the block shape.  The    *)
(* variant before it takes the remainder by the blocks along i alone.     *)
(***************************************************************************)
BlockIndexOfNoInc(c) == [i \in Dims(shape) |-> c % BlocksAlong[i]]

BlockIndexOf(c) ==
    [i \in Dims(shape) |->
        (c % (BlocksAlong[i] * StrideAfter(BlocksAlong, i))) \div StrideAfter(BlocksAlong, i)]

(* stop_: the block's end, clamped to the container's shape (the variant  *)
(* before it leaves the clamp out).                                        *)
ClampedStopNone(start) == [i \in Dims(shape) |-> start[i] + bshape[i]]

ClampedStop(start) ==
    [i \in Dims(shape) |->
        IF start[i] + bshape[i] <= shape[i] THEN start[i] + bshape[i] ELSE shape[i]]

(* iarray_slice_buffer on [start, stop): Ok inside the shape; past it,     *)
(* either outcome of the library call.                                     *)
SliceOutcomes(stop) ==
    IF \A i \in Dims(shape) : stop[i] <= shape[i] THEN {"ok"} ELSE {"ok", "fail"}

Init ==
    /\ \E bc \in BlockCases : shape = bc[1] /\ bshape = bc[2]
    /\ bphase = "none"
    /\ cont = 0
    /\ block_index = <<>>
    /\ elem_index = <<>>
    /\ block_shape = <<>>
    /\ block_size = 0
    /\ read = <<>>
    /\ val = [block_index |-> <<>>, elem_index |-> <<>>, nelem |-> 0,
              block_shape |-> <<>>]
    /\ seen = <<>>

(* iarray_iter_read_block_new: the index arrays are allocated only.       *)
BlockNew ==
    /\ bphase = "none"
    /\ bphase' = "new"
    /\ block_index' = [i \in Dims(shape) |-> Undef]
    /\ elem_index' = [i \in Dims(shape) |-> Undef]
    /\ block_shape' = [i \in Dims(shape) |-> Undef]
    /\ UNCHANGED <<shape, bshape, cont, block_size, read, val, seen>>

(***************************************************************************)
(* iarray_iter_read_block_init: the first block is given the user's block *)
(* shape and read as [0, bshape).                                          *)
(***************************************************************************)
BlockInit ==
    /\ bphase = "new"
    /\ block_index' = [i \in Dims(shape) |-> 0]
    /\ elem_index' = [i \in Dims(shape) |-> 0]
    /\ cont' = 0
    /\ block_shape' = bshape
    /\ block_size' = Prod(bshape)
    /\ read' = <<[i \in Dims(shape) |-> 0], bshape>>
    /\ \E r \in SliceOutcomes(bshape) :
          bphase' = IF r = "ok" THEN "iter" ELSE "aborted"
    /\ UNCHANGED <<shape, bshape, val, seen>>

(* Loop body: iarray_iter_read_block_value; the loop uses that region.    *)
BlockValue ==
    /\ bphase = "iter"
    /\ ~BlockFinished
    /\ Len(seen) = cont
    /\ val' = [block_index |-> block_index, elem_index |-> elem_index,
               nelem |-> cont, block_shape |-> block_shape]
    /\ seen' = Append(seen, <<elem_index, block_shape>>)
    /\ UNCHANGED <<shape, bshape, bphase, cont, block_index, elem_index,
                   block_shape, block_size, read>>

(***************************************************************************)
(* iarray_iter_read_block_next: count, locate the block, clamp its stop,  *)
(* take its shape (block_size keeps multiplying, it is never reset), and  *)
(* read it.                                                                *)
(***************************************************************************)
BlockNext ==
    /\ bphase = "iter"
    /\ ~BlockFinished
    /\ Len(seen) = cont + 1
    /\ LET c     == cont + 1
           start == [i \in Dims(shape) |-> BlockIndexOf(c)[i] * bshape[i]]
           stop  == ClampedStop(start)
           bs    == [i \in Dims(shape) |-> stop[i] - start[i]]
       IN /\ cont' = c
          /\ block_index' = BlockIndexOf(c)
          /\ elem_index' = start
          /\ block_shape' = bs
          /\ block_size' = block_size * Prod(bs)
          /\ read' = <<start, stop>>
          /\ \E r \in SliceOutcomes(stop) :
                bphase' = IF r = "ok" THEN "iter" ELSE "aborted"
    /\ UNCHANGED <<shape, bshape, val, seen>>

(* iarray_iter_read_block_free                                             *)
BlockFree ==
    /\ bphase \in {"new", "iter"}
    /\ bphase' = "freed"
    /\ UNCHANGED <<shape, bshape, cont, block_index, elem_index, block_shape,
                   block_size, read, val, seen>>

BNext == BlockNew \/ BlockInit \/ BlockValue \/ BlockNext \/ BlockFree

BSpec == Init /\ [][BNext]_bvars

-----------------------------------------------------------------------------
Cells == {FlatToNd(q, shape) : q \in 0 .. Prod(shape) - 1}

InRegion(e, r) == \A i \in Dims(shape) : r[1][i] <= e[i] /\ e[i] < r[1][i] + r[2][i]

BlockTypeOK ==
    /\ <<shape, bshape>> \in BlockCases
    /\ bphase \in {"none", "new", "iter", "aborted", "freed"}
    /\ cont \in 0 .. Prod(BlocksAlong)
    /\ Len(seen) \in {cont, cont + 1}

(***************************************************************************)
(* The blocks the loop is given tile the container: each lies inside the  *)
(* shape and is the region the last slice read, no two overlap, and when  *)
(* read_block_finished holds every element has been in one of them.      *)
(***************************************************************************)
BlocksTileShape ==
    /\ \A k \in 1 .. Len(seen), i \in Dims(shape) :
          seen[k][1][i] + seen[k][2][i] <= shape[i]
    /\ bphase = "iter" /\ Len(seen) = cont + 1 =>
          read = <<seen[cont + 1][1],
                   [i \in Dims(shape) |-> seen[cont + 1][1][i] + seen[cont + 1][2][i]]>>
    /\ \A e \in Cells : Cardinality({k \in 1 .. Len(seen) : InRegion(e, seen[k])}) <= 1
    /\ bphase = "iter" /\ BlockFinished =>
          \A e \in Cells : \E k \in 1 .. Len(seen) : InRegion(e, seen[k])

(***************************************************************************)
(* What read_block_value gives the loop is block number nelem of the grid *)
(* of blocks in row-major order, and elem_index is its first element.     *)
(***************************************************************************)
BlockViewExact ==
    bphase = "iter" /\ Len(seen) = cont + 1 =>
        /\ val.block_index = FlatToNd(val.nelem, BlocksAlong)
        /\ val.elem_index = [i \in Dims(shape) |-> val.block_index[i] * bshape[i]]

=============================================================================

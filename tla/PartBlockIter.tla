--------------------------- MODULE PartBlockIter ---------------------------
(***************************************************************************)
(* A container filled by the partition write iterator (the loop of        *)
(* tools/perf_vectors.c) and then read by the block read iterator with a  *)
(* block shape that fits in it.  The two share the container: its shape   *)
(* and partition shape, and the super-chunk the writer appended.  The     *)
(* block loop starts once the write loop has finished and freed its       *)
(* iterator.  The block iterator's slices are not given data (the slice   *)
(* call is outside the repository), so what is composed is the order of   *)
(* the two loops and the container they share.                            *)
(***************************************************************************)
EXTENDS PartIter

CONSTANT BlockCases   \* <<shape, block shape>> pairs offered to the reader

VARIABLES bshape, bphase, bcont, block_index, belem, block_shape, block_size,
          bread, bval, seen

B == INSTANCE BlockIter
        WITH shape <- shape, bshape <- bshape, bphase <- bphase, cont <- bcont,
             block_index <- block_index, elem_index <- belem,
             block_shape <- block_shape, block_size <- block_size,
             read <- bread, val <- bval, seen <- seen

rvars == <<bshape, bphase, bcont, block_index, belem, block_shape, block_size,
           bread, bval, seen>>
allvars == <<pvars, rvars>>

WriteCompleted == pphase = "freed" /\ PartFinished

PBInit ==
    /\ Init
    /\ bshape = <<>>
    /\ bphase = "none"
    /\ bcont = 0
    /\ block_index = <<>>
    /\ belem = <<>>
    /\ block_shape = <<>>
    /\ block_size = 0
    /\ bread = <<>>
    /\ bval = [block_index |-> <<>>, elem_index |-> <<>>, nelem |-> 0,
               block_shape |-> <<>>]
    /\ seen = <<>>

(* The reader chooses its block shape once the container is written.      *)
ChooseBlock ==
    /\ WriteCompleted /\ bshape = <<>>
    /\ \E bc \in BlockCases : bc[1] = shape /\ bshape' = bc[2]
    /\ UNCHANGED <<pvars, bphase, bcont, block_index, belem, block_shape,
                   block_size, bread, bval, seen>>

PBNext ==
    \/ PNext /\ UNCHANGED rvars
    \/ ChooseBlock
    \/ WriteCompleted /\ bshape # <<>> /\ B!BNext /\ UNCHANGED pvars

PBSpec == PBInit /\ [][PBNext]_allvars

-----------------------------------------------------------------------------
(* Both iterators' variables keep their types; the reader's once it has   *)
(* chosen its block shape.                                                 *)
PBTypeOK == PartTypeOK /\ (bshape # <<>> => B!BlockTypeOK)

(***************************************************************************)
(* On the container the partition loop wrote, the blocks iarray_iter_     *)
(* read_block_next gives the loop lie inside the shape, never overlap,     *)
(* and cover every element once read_block_finished holds.                *)
(***************************************************************************)
PBBlocksTileShape == bshape # <<>> => B!BlocksTileShape

(***************************************************************************)
(* On that container, read_block_value reports block number nelem of the  *)
(* row-major grid of blocks, with elem_index its first element.            *)
(***************************************************************************)
PBBlockViewExact == bshape # <<>> => B!BlockViewExact
=============================================================================

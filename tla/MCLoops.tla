------------------------------ MODULE MCLoops ------------------------------
(***************************************************************************)
(* The loop programs over arrays, checked side by side: prog chooses which *)
(* one the caller runs.  "element": fill a container with the element     *)
(* write iterator and read it back with the element read iterator          *)
(* (IterRoundTrip); "part": fill it with the partition write iterator and  *)
(* read it with the block read iterator (PartBlockIter); "block":          *)
(* iarray_gemm / iarray_gemv of iarray.c (BlockMatmul); "prefilter":       *)
(* iarray_gemv of linalg/matmul/gemv.c (GemvPrefilter).  The other         *)
(* programs stay in their initial states.                                  *)
(***************************************************************************)
EXTENDS MCPartBlockIter, MatmulSets

CONSTANTS WLoops, MaxWFail, Cases, GCases, MZero, MGarbage

VARIABLES eshape, epshape, eschunk,
          wphase, wpart, wcont, windex, wnelem, wptr, wfilled, wvisited,
          wloop, wfail, werr,
          rphase, rpart, rcont, rindex, rnelem, rptr, rtaken, rread,
          mcs, mphase, mm, mn, mk, mc_block, mout, mheap, mused,
          gcs, gphase, nchunk, cache_a, chunk, pending, cstore, gheap, mkl, grc,
          prog

RT == INSTANCE IterRoundTrip WITH shape <- eshape, pshape <- epshape,
                                   schunk <- eschunk
BM == INSTANCE BlockMatmul WITH Zero <- MZero, cs <- mcs, phase <- mphase,
                                m <- mm, n <- mn, k <- mk, c_block <- mc_block,
                                out <- mout, heap <- mheap, used <- mused
GP == INSTANCE GemvPrefilter WITH Garbage <- MGarbage

evars == <<eshape, epshape, eschunk, wphase, wpart, wcont, windex, wnelem,
           wptr, wfilled, wvisited, wloop, wfail, werr,
           rphase, rpart, rcont, rindex, rnelem, rptr, rtaken, rread>>
matvars == <<mcs, mphase, mm, mn, mk, mc_block, mout, mheap, mused>>
gemvvars == <<gcs, gphase, nchunk, cache_a, chunk, pending, cstore, gheap, mkl, grc>>
lvars == <<evars, allvars, matvars, gemvvars, prog>>

IdleDTShape == CHOOSE sp \in DTShapes : TRUE

(* Each program's initial state, with its choices fixed, while it idles.   *)
EIdle == RT!RTInit /\ eshape = IdleDTShape[1] /\ epshape = IdleDTShape[2]
         /\ wloop = CHOOSE l \in WLoops : TRUE
PIdle == PBInit /\ shape = IdleDTShape[1] /\ pshape = IdleDTShape[2]
MIdle == BM!Init /\ mcs = CHOOSE c \in Cases : TRUE
GIdle == GP!GInit /\ gcs = CHOOSE c \in GCases : TRUE

LInit ==
    \/ prog = "element" /\ RT!RTInit /\ PIdle /\ MIdle /\ GIdle
    \/ prog = "part" /\ PBInit /\ EIdle /\ MIdle /\ GIdle
    \/ prog = "block" /\ BM!Init /\ EIdle /\ PIdle /\ GIdle
    \/ prog = "prefilter" /\ GP!GInit /\ EIdle /\ PIdle /\ MIdle

LNext ==
    \/ prog = "element" /\ RT!RTNext /\ UNCHANGED <<allvars, matvars, gemvvars, prog>>
    \/ prog = "part" /\ PBNext /\ UNCHANGED <<evars, matvars, gemvvars, prog>>
    \/ prog = "block" /\ BM!Next /\ UNCHANGED <<evars, allvars, gemvvars, prog>>
    \/ prog = "prefilter" /\ GP!GNext /\ UNCHANGED <<evars, allvars, matvars, prog>>

(***************************************************************************)
(* The product routines run in the calling thread to their return, and    *)
(* blosc joins its worker threads before blosc2_compress_ctx returns: weak *)
(* fairness on their steps.  The iterator loops are the caller's, who may  *)
(* abandon them: no fairness.                                              *)
(***************************************************************************)
LSpec == LInit /\ [][LNext]_lvars
         /\ WF_lvars(prog \in {"block", "prefilter"} /\ LNext)

-----------------------------------------------------------------------------
(* The properties of IterRoundTrip and WriteIter, for the element program. *)

(* Both element iterators' variables keep their types.                     *)
RTTypeOK == RT!RTTypeOK

(* Every partition iarray_iter_write_next appends holds each element's     *)
(* stored value at caterva's layout, and Zero on the padding, when the     *)
(* loop leaves at a failed append.                                         *)
StoredPartsLayout == RT!StoredPartsLayout

(* iarray_iter_write_next never stops on padding nor revisits an element.  *)
NoPaddingNoRevisit == RT!NoPaddingNoRevisit

(* When the loop's iarray_iter_write_finished test holds, every element   *)
(* was visited and the whole grid of partitions is appended.               *)
CompleteWhenFinished == RT!CompleteWhenFinished

(* iarray_iter_read_value gives the value written for the same element.    *)
ReadReturnsWritten == RT!ReadReturnsWritten

(* The element read loop is given each element once, and all of them by   *)
(* the time iarray_iter_read_finished holds.                               *)
ReadCoversOnce == RT!ReadCoversOnce

-----------------------------------------------------------------------------
(* The properties of BlockMatmul and GemvPrefilter, for their programs.    *)

(* The block product's loop counters and buffers keep their types.         *)
MatmulTypeOK == BM!MatmulTypeOK

(* Every block iarray_gemm / iarray_gemv appends is the partition of a * b *)
(* at that chunk number, and the whole grid is there at return.            *)
ProductExact == BM!ProductExact

(* The matmul iterator names the chunk pairs the product loop reads, and  *)
(* finishes with it.                                                       *)
IterMatchesLoop == BM!IterMatchesLoop

(* The prefilter gemv's variables keep their types.                        *)
GemvTypeOK == GP!GemvTypeOK

(* Whatever order blosc's threads run the prefilter in, every chunk stored *)
(* holds each real row's dot product, and success replaces every chunk.    *)
ChunkRowsExact == GP!ChunkRowsExact

(***************************************************************************)
(* Every call of iarray_gemm, iarray_gemv (iarray.c) and iarray_gemv       *)
(* (gemv.c) returns: the block loops end, every prefilter block handed to  *)
(* blosc's threads is computed, and the chunk loop ends, error or not.     *)
(***************************************************************************)
CallsReturn ==
    <>(/\ prog = "block" => mphase = "done"
       /\ prog = "prefilter" => gphase = "returned")
=============================================================================

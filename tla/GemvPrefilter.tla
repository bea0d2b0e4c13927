--------------------------- MODULE GemvPrefilter ---------------------------
(***************************************************************************)
(* iarray_gemv of src/src/linalg/matmul/gemv.c: c = a * b computed inside  *)
(* blosc's prefilter.  For each chunk of c, the rows of a it covers are    *)
(* sliced into cache_a, and the chunk is compressed from no source: blosc  *)
(* calls _gemv_prefilter once per block, from its worker threads, and the  *)
(* prefilter writes the block's rows as the dot products of rows of        *)
(* cache_a with b.  The chunk then replaces chunk nchunk of c.            *)
(*                                                                         *)
(* c is a vector of M items, in chunks of CS items and blocks of BS items; *)
(* the chunk is extended to ECS, a multiple of BS.  A row of a is a tag    *)
(* <<"arow", i>>, and the dot product of row i with b is <<"dot", i>>.     *)
(* Memory from ina_mem_alloc or malloc that nothing wrote holds Garbage.   *)
(* The caller's MKL thread count is "caller"; mkl_set_num_threads(1) sets  *)
(* it to "one".                                                            *)
(***************************************************************************)
EXTENDS Naturals, FiniteSets

CONSTANTS
    GCases,     \* shapes of c: [M, CS, BS]
    Garbage

VARIABLES
    gcs,        \* the shapes
    gphase,     \* "start", "slice_b", "slice_a", "cparams", "compress",
                \* "free", "returned"
    nchunk,     \* the chunk loop counter
    cache_a,    \* the rows of a sliced for the current chunk
    chunk,      \* the chunk blosc is building
    pending,    \* the blocks whose prefilter has not run yet
    cstore,     \* the chunks of c's super-chunk
    gheap,      \* the allocations still live
    mkl,        \* MKL's thread count
    grc         \* the return code, once returned

gvars == <<gcs, gphase, nchunk, cache_a, chunk, pending, cstore, gheap, mkl, grc>>

GExt(x, p) == ((x + p - 1) \div p) * p
CS == gcs.CS
BS == gcs.BS
ECS == GExt(CS, BS)                 \* extchunkshape[0]
NChunks == GExt(gcs.M, CS) \div CS  \* extnitems / chunknitems
NBlocks == ECS \div BS              \* extchunknitems / blocknitems
Old == [r \in 0 .. ECS - 1 |-> <<"old">>]   \* a chunk of c before the call

(* Mutant: the loop runs one chunk past the end.                           *)
MoreChunksOneMore(nc) == nc <= NChunks

(* The chunk loop's condition.                                             *)
MoreChunks(nc) == nc < NChunks

(* The rows the slice of a covers for chunk nc: chunkshape[0], truncated   *)
(* at the end of a.                                                        *)
ChunkShape(nc) == IF nc * CS + CS <= gcs.M THEN CS ELSE gcs.M - nc * CS

(* Mutant: the block number is not scaled by blockshape.                  *)
BlockStartUnscaled(nb) == ((nb * BS) \div BS) % NBlocks

(* _gemv_prefilter_block_info for a 1-D c, with out_offset and out_size in *)
(* items: the first row of block nb inside the chunk.                      *)
BlockStart(nb) == (((nb * BS) \div BS) % NBlocks) * BS

Dot(row) == IF row = Garbage THEN Garbage ELSE <<"dot", row[2]>>

-----------------------------------------------------------------------------
(* c already holds its chunks: update_chunk replaces them.                 *)
GInit ==
    /\ gcs \in GCases
    /\ gphase = "start"
    /\ nchunk = 0
    /\ cache_a = [r \in 0 .. ECS - 1 |-> Garbage]
    /\ chunk = [r \in 0 .. ECS - 1 |-> Garbage]
    /\ pending = {}
    /\ cstore = [nc \in 0 .. NChunks - 1 |-> Old]
    /\ gheap = {}
    /\ mkl = "caller"
    /\ grc = "none"

(* A failing step returns its error code at once, leaving what it holds.   *)
Fail ==
    /\ gphase' = "returned"
    /\ grc' = "error"

(* iarray_gemv saves the thread count and sets it to 1; gemv_blosc sets up *)
(* the prefilter context and the two caches.                               *)
Begin ==
    /\ gphase = "start"
    /\ mkl' = "one"
    /\ gheap' = {"prefilter_ctx", "cache_b", "cache_a"}
    /\ gphase' = "slice_b"
    /\ UNCHANGED <<gcs, nchunk, cache_a, chunk, pending, cstore, grc>>

(* All of b into cache_b; the loop's first test (c has a chunk).           *)
SliceB ==
    /\ gphase = "slice_b"
    /\ \/ gphase' = "slice_a" /\ UNCHANGED grc
       \/ Fail
    /\ UNCHANGED <<gcs, nchunk, cache_a, chunk, pending, cstore, gheap, mkl>>

(* Rows [elem_index, elem_index + chunk_shape) of a into the first rows of *)
(* cache_a; the rows after them keep what they held.                      *)
SliceA ==
    /\ gphase = "slice_a"
    /\ \/ /\ cache_a' = [r \in DOMAIN cache_a |->
                            IF r < ChunkShape(nchunk)
                            THEN <<"arow", nchunk * CS + r>> ELSE cache_a[r]]
          /\ gphase' = "cparams"
          /\ UNCHANGED grc
       \/ Fail /\ UNCHANGED cache_a
    /\ UNCHANGED <<gcs, nchunk, chunk, pending, cstore, gheap, mkl>>

(* The cparams with the prefilter, the compression context and the chunk   *)
(* buffer; blosc2_compress_ctx hands every block to its threads.           *)
StartCompress ==
    /\ gphase = "cparams"
    /\ \/ /\ gheap' = gheap \cup {"cctx", "chunk"}
          /\ chunk' = [r \in 0 .. ECS - 1 |-> Garbage]
          /\ pending' = 0 .. NBlocks - 1
          /\ gphase' = "compress"
          /\ UNCHANGED grc
       \/ Fail /\ UNCHANGED <<gheap, chunk, pending>>
    /\ UNCHANGED <<gcs, nchunk, cache_a, cstore, mkl>>

(* A blosc thread runs _gemv_prefilter on block nb: gemv over the BS rows  *)
(* of cache_a from the block's start, into the block's place in the chunk. *)
Prefilter(nb) ==
    /\ gphase = "compress"
    /\ nb \in pending
    /\ chunk' = [r \in DOMAIN chunk |->
                    IF r \in nb * BS .. nb * BS + BS - 1
                    THEN Dot(cache_a[BlockStart(nb) + r - nb * BS]) ELSE chunk[r]]
    /\ pending' = pending \ {nb}
    /\ UNCHANGED <<gcs, gphase, nchunk, cache_a, cstore, gheap, mkl, grc>>

(* Mutant: the chunk loop never advances nchunk.                           *)
EndCompressNoInc ==
    /\ gphase = "compress"
    /\ pending = {}
    /\ \/ /\ gheap' = gheap \ {"cctx", "chunk"}
          /\ cstore' = [cstore EXCEPT ![nchunk] = chunk]
          /\ gphase' = IF MoreChunks(nchunk + 1) THEN "slice_a" ELSE "free"
          /\ UNCHANGED <<grc, nchunk>>
       \/ Fail /\ UNCHANGED <<gheap, cstore, nchunk>>
    /\ UNCHANGED <<gcs, cache_a, chunk, pending, mkl>>

(* blosc2_compress_ctx returns.  On success the context is freed, the      *)
(* chunk (not copied) replaces chunk nchunk of c, and the loop goes on.    *)
EndCompress ==
    /\ gphase = "compress"
    /\ pending = {}
    /\ \/ /\ gheap' = gheap \ {"cctx", "chunk"}
          /\ cstore' = [cstore EXCEPT ![nchunk] = chunk]
          /\ nchunk' = nchunk + 1
          /\ gphase' = IF MoreChunks(nchunk + 1) THEN "slice_a" ELSE "free"
          /\ UNCHANGED grc
       \/ Fail /\ UNCHANGED <<gheap, cstore, nchunk>>
    /\ UNCHANGED <<gcs, cache_a, chunk, pending, mkl>>

(* The caches are freed, the thread count restored, and iarray_gemv        *)
(* returns INA_SUCCESS.  prefilter_ctx is never freed.                     *)
Finish ==
    /\ gphase = "free"
    /\ gheap' = gheap \ {"cache_a", "cache_b"}
    /\ mkl' = "caller"
    /\ gphase' = "returned"
    /\ grc' = "ok"
    /\ UNCHANGED <<gcs, nchunk, cache_a, chunk, pending, cstore>>

GNext ==
    \/ Begin \/ SliceB \/ SliceA \/ StartCompress
    \/ \E nb \in 0 .. NBlocks - 1 : Prefilter(nb)
    \/ EndCompress \/ Finish

GSpec == GInit /\ [][GNext]_gvars /\ WF_gvars(GNext)

-----------------------------------------------------------------------------
GemvTypeOK ==
    /\ gphase \in {"start", "slice_b", "slice_a", "cparams", "compress",
                   "free", "returned"}
    /\ nchunk \in 0 .. NChunks
    /\ pending \subseteq 0 .. NBlocks - 1
    /\ mkl \in {"caller", "one"}
    /\ grc \in {"none", "ok", "error"}

(***************************************************************************)
(* Whatever order blosc's threads run the prefilter in, every chunk        *)
(* update_chunk has stored holds, in each real row i, the dot product of   *)
(* row i of a with b, never a stale row of cache_a or uninitialised        *)
(* memory; and a successful return has replaced every chunk of c.          *)
(***************************************************************************)
ChunkRowsExact ==
    /\ \A nc \in DOMAIN cstore :
          cstore[nc] # Old =>
            \A r \in 0 .. CS - 1 :
              nc * CS + r < gcs.M => cstore[nc][r] = <<"dot", nc * CS + r>>
    /\ grc = "ok" => \A nc \in DOMAIN cstore : cstore[nc] # Old

(***************************************************************************)
(* With the calling thread and blosc's threads all scheduled, iarray_gemv  *)
(* returns: every block handed out is computed and the chunk loop ends.    *)
(***************************************************************************)
GemvReturns == <>(gphase = "returned")

(***************************************************************************)
(* When iarray_gemv returns, MKL runs with the caller's thread count again *)
(* (the specification: set to 1 for the call, restored on exit).          *)
(***************************************************************************)
MklThreadsRestored == gphase = "returned" => mkl = "caller"
=============================================================================

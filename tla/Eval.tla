-------------------------------- MODULE Eval --------------------------------
(***************************************************************************)
(* iarray_expr_compile and iarray_eval (src/src/iarray.c 516-652) over    *)
(* operands stored as blosc2 super-chunks: chunks of ChunkItems items and  *)
(* a shorter last chunk, as tests/test_eval.c builds them.  The strategy   *)
(* is the context's flag: chunk mode decompresses chunk n of every operand *)
(* and evaluates over the chunk; block mode takes blocks of each chunk     *)
(* with blosc_getitem, evaluates each block and copies it into a staging   *)
(* buffer appended once per chunk.  The block loop is sequential (its omp  *)
(* pragma is commented out).                                               *)
(*                                                                         *)
(* Item i of operand k is the tag <<k, i>>; the expression tree is         *)
(* abstracted to the tuple of the operands' items at each position.        *)
(* Buffers that were allocated and never written hold Garbage, a tag of   *)
(* no operand (operands are numbered from 1).                              *)
(***************************************************************************)
EXTENDS Integers, Sequences, FiniteSets

CONSTANT
    Scenarios   \* records [items: operand lengths, filled: whether each
                \* operand's chunks were ever stored (zeros/ones store none),
                \* chunk: items per chunk, block: blosc block size in items,
                \* mode: "chunk" or "block"]

Garbage == <<0, 0>>

VARIABLES
    sc,       \* the scenario: operands bound, cparams, ctx flags
    phase,    \* "bound", "compiled", "running", "blocks" (inside a chunk of
              \* block mode), "done" or "failed"
    e,        \* the expression's nchunks, chunksize, blocksize (in items)
    temps,    \* e->temp_vars[k]->data
    out,      \* the output super-chunk
    nchunk,   \* the chunk loop counter
    nblock,   \* the block loop counter (block mode)
    nblocks,  \* nblocks_in_chunk
    clen,     \* chunksize of the current chunk, in items
    nitc,     \* nitems_in_chunk
    corr,     \* corrected_nitems
    outbuf,   \* the staging buffer of block mode
    varchunk, \* var_chunks[k]: the chunk index get_chunk last gave, or -1
    live      \* buffers iarray_eval allocated and has not freed

vars == <<sc, phase, e, temps, out, nchunk, nblock, nblocks, clen, nitc, corr,
          outbuf, varchunk, live>>

NVars == Len(sc.items)
Vars == 1 .. NVars
Min2(a, b) == IF a < b THEN a ELSE b

(* Operand k's super-chunk: chunk j (0-based) holds items j*C .. .         *)
NChunksOf(k) == IF sc.filled[k] THEN (sc.items[k] + sc.chunk - 1) \div sc.chunk
                ELSE 0
ChunkLen(k, j) == Min2(sc.chunk, sc.items[k] - j * sc.chunk)
Item(k, j, o) == <<k, j * sc.chunk + o>>

(* blosc_cbuffer_sizes of chunk 0 of operand 1: its item count, and the   *)
(* block size blosc used for it (never more than the chunk).              *)
Chunk0Items == ChunkLen(1, 0)
Chunk0Block == Min2(sc.block, Chunk0Items)

Buf(n) == [o \in 0 .. n - 1 |-> Garbage]

Init ==
    /\ sc \in Scenarios
    /\ phase = "bound"
    /\ e = [nchunks |-> 0, chunksize |-> 0, blocksize |-> 0]
    /\ temps = <<>>
    /\ out = <<>>
    /\ nchunk = 0 /\ nblock = 0 /\ nblocks = 0 /\ clen = 0 /\ nitc = 0
    /\ corr = 0
    /\ outbuf = <<>>
    /\ varchunk = <<>>
    /\ live = {}

(***************************************************************************)
(* iarray_expr_compile: sizes from operand 1 only (chunk 0 in block mode, *)
(* the super-chunk's chunksize, the size of its first chunk, in chunk     *)
(* mode), one temporary of dim0 items per operand, te_compile.           *)
(***************************************************************************)
Compile ==
    /\ phase = "bound"
    /\ LET blk  == sc.mode = "block"
           dim0 == IF blk THEN Chunk0Block ELSE Chunk0Items
       IN /\ e' = [nchunks |-> NChunksOf(1), chunksize |-> Chunk0Items,
                   blocksize |-> IF blk THEN Chunk0Block ELSE 0]
          /\ temps' = [k \in Vars |-> Buf(dim0)]
    /\ phase' = "compiled"
    /\ UNCHANGED <<sc, out, nchunk, nblock, nblocks, clen, nitc, corr, outbuf,
                   varchunk, live>>

(* te_eval over temporaries t: the tuple of operand items per position.    *)
TeEval(t) == [j \in DOMAIN t[1] |-> [k \in Vars |-> t[k][j]]]

(* The first n items of a buffer, as blosc2_schunk_append_buffer stores.   *)
Prefix(b, n) == [i \in 1 .. n |-> b[i - 1]]

(***************************************************************************)
(* Decompress chunk j of operand k into the front of buffer b (after a    *)
(* variant that copies one item too many).                                *)
(***************************************************************************)
DecompressedOverrun(k, j, b) ==
    [o \in DOMAIN b |-> IF o <= ChunkLen(k, j) THEN Item(k, j, o) ELSE b[o]]

Decompressed(k, j, b) ==
    [o \in DOMAIN b |-> IF o < ChunkLen(k, j) THEN Item(k, j, o) ELSE b[o]]

(***************************************************************************)
(* iarray_eval, beginning: nitems_in_chunk is chunksize / typesize; block  *)
(* mode allocates outbuf, var_chunks with one malloc'd buffer per operand, *)
(* and var_needs_free.                                                    *)
(***************************************************************************)
EvalBegin ==
    /\ phase = "compiled"
    /\ phase' = "running"
    /\ nchunk' = 0
    /\ nitc' = e.chunksize
    /\ IF sc.mode = "block"
       THEN /\ outbuf' = Buf(e.chunksize)
            /\ varchunk' = [k \in Vars |-> -1]
            /\ live' = {<<"outbuf", 0>>, <<"var_chunks", 0>>, <<"var_needs_free", 0>>}
                       \cup {<<"chunkbuf", k>> : k \in Vars}
       ELSE UNCHANGED <<outbuf, varchunk, live>>
    /\ UNCHANGED <<sc, e, temps, out, nblock, nblocks, clen, corr>>

(* blosc2_schunk_decompress_chunk(sc_k, j, temp, e->chunksize) succeeds.   *)
Decompresses(k, j) == j < NChunksOf(k) /\ ChunkLen(k, j) <= e.chunksize

(***************************************************************************)
(* Chunk mode, one iteration of the chunk loop: decompress chunk nchunk of *)
(* every operand into its temporary (returning INA_ERR_FAILED at the first *)
(* operand that has no such chunk or whose chunk exceeds the destination   *)
(* size e->chunksize), te_eval, correct nitems_in_chunk for   *)
(* the last chunk from operand 1's nbytes, append.                        *)
(***************************************************************************)
ChunkModeStep ==
    /\ phase = "running" /\ sc.mode = "chunk"
    /\ nchunk < e.nchunks
    /\ \A k \in Vars : Decompresses(k, nchunk)
    /\ LET t == [k \in Vars |-> Decompressed(k, nchunk, temps[k])]
           n == IF nchunk < e.nchunks - 1 THEN nitc
                ELSE sc.items[1] - nchunk * nitc
       IN /\ temps' = t
          /\ nitc' = n
          /\ out' = Append(out, Prefix(TeEval(t), n))
    /\ nchunk' = nchunk + 1
    /\ UNCHANGED <<sc, phase, e, nblock, nblocks, clen, corr, outbuf, varchunk,
                   live>>

(* The same iteration when an operand's decompression fails: return.       *)
ChunkModeFail ==
    /\ phase = "running" /\ sc.mode = "chunk"
    /\ nchunk < e.nchunks
    /\ \E k \in Vars : ~Decompresses(k, nchunk)
    /\ phase' = "failed"
    /\ UNCHANGED <<sc, e, temps, out, nchunk, nblock, nblocks, clen, nitc, corr,
                   outbuf, varchunk, live>>

ChunkModeEnd ==
    /\ phase = "running" /\ sc.mode = "chunk"
    /\ nchunk = e.nchunks
    /\ phase' = "done"
    /\ UNCHANGED <<sc, e, temps, out, nchunk, nblock, nblocks, clen, nitc, corr,
                   outbuf, varchunk, live>>

(***************************************************************************)
(* Block mode, head of a chunk iteration: the chunk's size (the last from  *)
(* operand 1's nbytes), its block count, with one more block and          *)
(* nitems_in_chunk reset when the blocks fall short of the full chunk      *)
(* size, and blosc2_schunk_get_chunk for every operand, whose return code  *)
(* is ignored: a failed call leaves var_chunks[k] as it was.              *)
(***************************************************************************)
BlockChunkBegin ==
    /\ phase = "running" /\ sc.mode = "block"
    /\ nchunk < e.nchunks
    /\ LET L   == IF nchunk < e.nchunks - 1 THEN e.chunksize
                  ELSE sc.items[1] - nchunk * e.chunksize
           nb0 == L \div e.blocksize
           short == nb0 * e.blocksize < e.chunksize
       IN /\ clen' = L
          /\ nblocks' = IF short THEN nb0 + 1 ELSE nb0
          /\ nitc' = IF short THEN L ELSE nitc
    /\ corr' = e.blocksize
    /\ nblock' = 0
    /\ varchunk' = [k \in Vars |-> IF nchunk < NChunksOf(k) THEN nchunk
                                   ELSE varchunk[k]]
    /\ phase' = "blocks"
    /\ UNCHANGED <<sc, e, temps, out, nchunk, outbuf, live>>

(***************************************************************************)
(* blosc_getitem(var_chunks[k], start, n, ...) succeeds when the items     *)
(* start .. start+n-1 lie in the chunk; the malloc'd buffer that stands    *)
(* in before any get_chunk has no valid header.                           *)
(***************************************************************************)
GetItemOK(k, start, n) ==
    varchunk[k] >= 0 /\ start + n <= ChunkLen(k, varchunk[k])

(***************************************************************************)
(* The size of block nb: corrected for the last block when it overruns    *)
(* the current chunk.  The variant first compares with the full chunk     *)
(* size, as the block count test above does.                              *)
(***************************************************************************)
BlockItemsFullChunk(nb) ==
    IF nb + 1 = nblocks /\ (nb + 1) * e.blocksize > e.chunksize
    THEN e.chunksize - nb * e.blocksize
    ELSE corr

BlockItems(nb) ==
    IF nb + 1 = nblocks /\ (nb + 1) * e.blocksize > clen
    THEN clen - nb * e.blocksize
    ELSE corr

(* Mutant: the block loop never advances nblock.                          *)
BlockStepNoInc ==
    /\ phase = "blocks"
    /\ nblock < nblocks
    /\ LET n     == BlockItems(nblock)
           start == nblock * e.blocksize
           t     == [k \in Vars |->
                       [o \in DOMAIN temps[k] |->
                          IF o < n THEN Item(k, varchunk[k], start + o)
                          ELSE temps[k][o]]]
       IN /\ \A k \in Vars : GetItemOK(k, start, n)
          /\ temps' = t
          /\ outbuf' = [o \in DOMAIN outbuf |->
                          IF start <= o /\ o < start + n THEN TeEval(t)[o - start]
                          ELSE outbuf[o]]
          /\ corr' = n
    /\ UNCHANGED <<sc, phase, e, out, nchunk, nblock, nblocks, clen, nitc, varchunk,
                   live>>

(***************************************************************************)
(* Block mode, one block: getitem of the block from every operand into its *)
(* temporary, te_eval, and the copy of the block's items into outbuf at    *)
(* nblock * blocksize.                                                    *)
(***************************************************************************)
BlockStep ==
    /\ phase = "blocks"
    /\ nblock < nblocks
    /\ LET n     == BlockItems(nblock)
           start == nblock * e.blocksize
           t     == [k \in Vars |->
                       [o \in DOMAIN temps[k] |->
                          IF o < n THEN Item(k, varchunk[k], start + o)
                          ELSE temps[k][o]]]
       IN /\ \A k \in Vars : GetItemOK(k, start, n)
          /\ temps' = t
          /\ outbuf' = [o \in DOMAIN outbuf |->
                          IF start <= o /\ o < start + n THEN TeEval(t)[o - start]
                          ELSE outbuf[o]]
          /\ corr' = n
    /\ nblock' = nblock + 1
    /\ UNCHANGED <<sc, phase, e, out, nchunk, nblocks, clen, nitc, varchunk,
                   live>>

(* The same block when some operand's getitem fails: return at once.      *)
BlockFail ==
    /\ phase = "blocks"
    /\ nblock < nblocks
    /\ \E k \in Vars : ~GetItemOK(k, nblock * e.blocksize, BlockItems(nblock))
    /\ phase' = "failed"
    /\ UNCHANGED <<sc, e, temps, out, nchunk, nblock, nblocks, clen, nitc, corr,
                   outbuf, varchunk, live>>

(* Block mode, tail of a chunk iteration: append nitems_in_chunk items.    *)
BlockChunkEnd ==
    /\ phase = "blocks"
    /\ nblock = nblocks
    /\ out' = Append(out, Prefix(outbuf, nitc))
    /\ nchunk' = nchunk + 1
    /\ phase' = "running"
    /\ UNCHANGED <<sc, e, temps, nblock, nblocks, clen, nitc, corr, outbuf,
                   varchunk, live>>

(***************************************************************************)
(* Block mode, after the loop: free var_chunks[k] where get_chunk flagged  *)
(* needs_free (never, for in-memory super-chunks), then var_chunks,       *)
(* var_needs_free and outbuf.                                             *)
(***************************************************************************)
BlockModeEnd ==
    /\ phase = "running" /\ sc.mode = "block"
    /\ nchunk = e.nchunks
    /\ live' = live \ {<<"var_chunks", 0>>, <<"var_needs_free", 0>>, <<"outbuf", 0>>}
    /\ phase' = "done"
    /\ UNCHANGED <<sc, e, temps, out, nchunk, nblock, nblocks, clen, nitc, corr,
                   outbuf, varchunk>>

Next ==
    \/ Compile \/ EvalBegin
    \/ ChunkModeStep \/ ChunkModeFail \/ ChunkModeEnd
    \/ BlockChunkBegin \/ BlockStep \/ BlockFail \/ BlockChunkEnd \/ BlockModeEnd

Spec == Init /\ [][Next]_vars

-----------------------------------------------------------------------------
(* The output the expression defines: chunk j of operand 1's chunk grid.   *)
ExpectedOut ==
    [j \in 1 .. NChunksOf(1) |->
        [i \in 1 .. ChunkLen(1, j - 1) |-> [k \in Vars |-> Item(k, j - 1, i - 1)]]]

(* Every operand has operand 1's chunks, each no larger than its chunk 0.  *)
OperandsReadable ==
    \A k \in Vars, j \in 0 .. NChunksOf(1) - 1 :
        j < NChunksOf(k) /\ ChunkLen(k, j) <= Chunk0Items

(* Every operand has operand 1's number of items (the containers are 1-D). *)
ShapesAgree == \A k \in Vars : sc.items[k] = sc.items[1]

Status == CASE phase = "done" -> "done"
            [] phase = "failed" -> "failed"
            [] OTHER -> "running"

Abs == INSTANCE EvalSpec
         WITH out <- out, status <- Status, expected <- ExpectedOut,
              readable <- OperandsReadable, agree <- ShapesAgree

EvalTypeOK ==
    /\ sc \in Scenarios
    /\ phase \in {"bound", "compiled", "running", "blocks", "done", "failed"}
    /\ nchunk \in 0 .. e.nchunks
    /\ nblock \in 0 .. nblocks
    /\ Len(out) = nchunk
    /\ \A k \in DOMAIN temps : \A o \in DOMAIN temps[k] :
          \/ temps[k][o] = Garbage
          \/ temps[k][o][1] \in Vars /\ temps[k][o][2] < sc.items[temps[k][o][1]]
    /\ live \subseteq {<<"outbuf", 0>>, <<"var_chunks", 0>>, <<"var_needs_free", 0>>}
                      \cup {<<"chunkbuf", k>> : k \in Vars}

(***************************************************************************)
(* iarray_eval implements EvalSpec in both modes: each append is the next *)
(* output chunk with exactly its items (the last chunk's tail, the extra  *)
(* and corrected last blocks, the block offsets in outbuf all agree), it   *)
(* finishes with every chunk, and it fails only on an unreadable operand  *)
(* or on operands whose shapes differ, before appending anything.         *)
(* Block mode and chunk mode therefore produce the same output.           *)
(***************************************************************************)
EvalRefinesSpec == Abs!Spec

(***************************************************************************)
(* When iarray_eval returns, it has released every buffer it allocated.   *)
(***************************************************************************)
BuffersReleased ==
    phase \in {"done", "failed"} => live = {}

=============================================================================

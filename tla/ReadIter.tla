----------------------------- MODULE ReadIter ------------------------------
(***************************************************************************)
(* The element read iterator of src/src/iarray_iterator.c                  *)
(* (iarray_iter_read_new / _init / _value / _next / _finished / _free)     *)
(* over a container whose super-chunk is schunk, and the user loop:        *)
(*                                                                         *)
(*   iarray_iter_read_new(ctx, c, &I);                                     *)
(*   for (iarray_iter_read_init(I); !iarray_iter_read_finished(I);         *)
(*        iarray_iter_read_next(I)) {                                      *)
(*       iarray_iter_read_value(I, &val);   ... use *val.pointer ...       *)
(*   }                                                                     *)
(*   iarray_iter_read_free(I);                                             *)
(*                                                                         *)
(* The super-chunk is read only; this module is composed with a writer in *)
(* IterRoundTrip.  Decompressing a chunk index that does not exist fails  *)
(* and leaves the part buffer as it was.                                  *)
(***************************************************************************)
EXTENDS Integers, Sequences, TLC, ChunkGrid

CONSTANTS Zero, Garbage

VARIABLES
    shape, pshape, schunk,
    rphase,   \* "none", "new", "iter" or "freed"
    rpart,    \* itr->part: the last chunk decompressed into it
    rcont,    \* itr->cont
    rindex,   \* itr->index
    rnelem,   \* itr->nelem
    rptr,     \* itr->pointer, as an offset in itr->part
    rtaken,   \* the user loop has read the current element
    rread     \* history: nelem |-> value the user has read

rvars == <<rphase, rpart, rcont, rindex, rnelem, rptr, rtaken, rread>>

(* iarray_iter_read_finished, and two off-by-one slips of its test.       *)
RFinishedPastEnd == rcont > ESize(shape, pshape)
RFinishedEarly == rcont >= ESize(shape, pshape) - 1
RFinished == rcont >= ESize(shape, pshape)

(***************************************************************************)
(* blosc2_schunk_decompress_chunk(sc, n, part, ...): chunk n (0-based)     *)
(* into the part buffer, or a failure that leaves the buffer unchanged.   *)
(***************************************************************************)
Decompress(n, buf) == IF n < Len(schunk) THEN schunk[n + 1] ELSE buf

(* iarray_iter_read_new: part allocated, pointer set to part[0].           *)
ReadNew ==
    /\ rphase = "none"
    /\ rphase' = "new"
    /\ rpart' = [o \in 0 .. PSize(pshape) - 1 |-> Garbage]
    /\ rindex' = [i \in Dims(shape) |-> Garbage]
    /\ rptr' = 0
    /\ UNCHANGED <<rcont, rnelem, rtaken, rread>>

(***************************************************************************)
(* iarray_iter_read_init: counter, nelem and index reset, chunk 0         *)
(* decompressed; its return value is not looked at, and the pointer is    *)
(* not reset.                                                             *)
(***************************************************************************)
ReadInit ==
    /\ rphase = "new"
    /\ rphase' = "iter"
    /\ rcont' = 0
    /\ rnelem' = 0
    /\ rindex' = [i \in Dims(shape) |-> 0]
    /\ rpart' = Decompress(0, rpart)
    /\ UNCHANGED <<rptr, rtaken, rread>>

(* Loop body: iarray_iter_read_value and the read through val.pointer.     *)
ReadValue ==
    /\ rphase = "iter"
    /\ ~RFinished
    /\ ~rtaken
    /\ rtaken' = TRUE
    /\ rread' = rread @@ (rnelem :> rpart[rptr])
    /\ UNCHANGED <<rphase, rpart, rcont, rindex, rnelem, rptr>>

(***************************************************************************)
(* The chunk read_next loads at counter value c, after its guard; the     *)
(* variant first decompresses the chunk after it.                         *)
(***************************************************************************)
LoadAtNextChunk(c, buf) ==
    IF c % PSize(pshape) = 0 /\ c < ESize(shape, pshape)
    THEN Decompress(c \div PSize(pshape) + 1, buf)
    ELSE buf

LoadAt(c, buf) ==
    IF c % PSize(pshape) = 0 /\ c < ESize(shape, pshape)
    THEN Decompress(c \div PSize(pshape), buf)
    ELSE buf

(* The counter after cont: one step, then the padding skip.               *)
RNextCont(c) == SkipPadding(shape, pshape, c + 1)

(***************************************************************************)
(* iarray_iter_read_next: step, skip the padding, update the index and,   *)
(* at the first cell of a partition, decompress that partition.           *)
(***************************************************************************)
ReadNext ==
    /\ rphase = "iter"
    /\ ~RFinished
    /\ rtaken
    /\ LET c == RNextCont(rcont)
       IN /\ rcont' = c
          /\ rindex' = IterIndex(shape, pshape, c)
          /\ rptr' = PartOffset(pshape, c)
          /\ rnelem' = NElem(shape, IterIndex(shape, pshape, c))
          /\ rpart' = LoadAt(c, rpart)
    /\ rtaken' = FALSE
    /\ UNCHANGED <<rphase, rread>>

(* iarray_iter_read_free                                                   *)
ReadFree ==
    /\ rphase \in {"new", "iter"}
    /\ rphase' = "freed"
    /\ UNCHANGED <<rpart, rcont, rindex, rnelem, rptr, rtaken, rread>>

RNext == ReadNew \/ ReadInit \/ ReadValue \/ ReadNext \/ ReadFree

=============================================================================

--------------------------- MODULE IterRoundTrip ---------------------------
(***************************************************************************)
(* A container filled by the element write iterator and then read back by *)
(* the element read iterator (the pattern of tests/test_iterator.c and of  *)
(* tools/perf_vectors.c): the writer's super-chunk is the reader's input.  *)
(* The read loop starts once the write loop has finished and freed its    *)
(* iterator.                                                               *)
(***************************************************************************)
EXTENDS WriteIter

VARIABLES rphase, rpart, rcont, rindex, rnelem, rptr, rtaken, rread

R == INSTANCE ReadIter
        WITH Zero <- Zero, Garbage <- Garbage, shape <- shape,
             pshape <- pshape, schunk <- schunk, rphase <- rphase,
             rpart <- rpart, rcont <- rcont, rindex <- rindex,
             rnelem <- rnelem, rptr <- rptr, rtaken <- rtaken, rread <- rread

wvars == vars
rvars == <<rphase, rpart, rcont, rindex, rnelem, rptr, rtaken, rread>>
allvars == <<vars, rvars>>

(* The caller reads once the write loop has run to its end.              *)
WriteCompleted == wphase = "freed" /\ Finished /\ LoopGoesOn

RTInit ==
    /\ Init
    /\ rphase = "none"
    /\ rpart = <<>>
    /\ rcont = 0
    /\ rindex = <<>>
    /\ rnelem = 0
    /\ rptr = 0
    /\ rtaken = FALSE
    /\ rread = <<>>

RTNext ==
    \/ Next /\ UNCHANGED rvars
    \/ WriteCompleted /\ R!RNext /\ UNCHANGED wvars

RTSpec == RTInit /\ [][RTNext]_allvars

-----------------------------------------------------------------------------
RTTypeOK ==
    /\ TypeOK
    /\ rphase \in {"none", "new", "iter", "freed"}
    /\ rphase \notin {"none"} => IsBuffer(rpart) /\ rptr \in DOMAIN rpart
    /\ rcont \in 0 .. ESize(shape, pshape)
    /\ rtaken \in BOOLEAN
    /\ DOMAIN rread \subseteq 0 .. NElems - 1

(***************************************************************************)
(* Every value the read loop obtains through val.pointer is the value the *)
(* write loop stored for the same nelem: the reader's decompression of     *)
(* each partition, its pointer and its index agree with the writer's.     *)
(***************************************************************************)
ReadReturnsWritten ==
    \A e \in DOMAIN rread : rread[e] = Val(e)

(***************************************************************************)
(* Iterator coverage: the read loop is given each element at most once    *)
(* while it runs, and every element by the time read_finished holds.      *)
(***************************************************************************)
ReadCoversOnce ==
    /\ rphase = "iter" /\ ~R!RFinished => (rtaken <=> rnelem \in DOMAIN rread)
    /\ rphase = "iter" /\ R!RFinished => DOMAIN rread = 0 .. NElems - 1

=============================================================================

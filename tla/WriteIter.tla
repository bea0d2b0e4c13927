----------------------------- MODULE WriteIter -----------------------------
(***************************************************************************)
(* The element write iterator of src/src/iarray_iterator.c                 *)
(* (iarray_iter_write_new / _init / _value / _next / _finished / _free)    *)
(* filling a freshly created container, and the user loop that drives it:  *)
(*                                                                         *)
(*   iarray_iter_write_new(ctx, c, &I);                                    *)
(*   for (iarray_iter_write_init(I); !iarray_iter_write_finished(I);       *)
(*        iarray_iter_write_next(I)) {                                     *)
(*       iarray_iter_write_value(I, &val);                                 *)
(*       memcpy(val.pointer, &value_of(val.nelem), typesize);              *)
(*   }                                                                     *)
(*   iarray_iter_write_free(I);                                            *)
(*                                                                         *)
(* The loop of tools/perf_vectors.c ignores what write_next returns        *)
(* ("unchecked"); a loop that checks it, as IARRAY_FAIL_IF_ERROR does in   *)
(* examples/example_view.c, leaves at the first error ("checked").  Up to *)
(* MaxWFail appends fail.                                                  *)
(*                                                                         *)
(* The container's shape and partition shape are chosen in Init among all *)
(* shapes that _iarray_container_new accepts.  Element values are tags:    *)
(* the user stores Val(nelem); memset gives Zero; a buffer that is         *)
(* allocated and never written holds Garbage.                              *)
(***************************************************************************)
EXTENDS Integers, Sequences, FiniteSets, ChunkGrid

CONSTANTS
    DTShapes,    \* the <<shape, pshape>> pairs of the containers considered
    WLoops,      \* the user loops considered: "checked", "unchecked"
    MaxWFail     \* bound on the failed appends of one run

Zero == 0
Garbage == -1
Val(e) == e + 1

VARIABLES
    shape,    \* dtshape->shape
    pshape,   \* catarr->pshape
    schunk,   \* catarr->sc: the partitions appended, in order
    wphase,   \* "none", "new", "iter" or "freed"
    wpart,    \* itr->part, indexed by offset
    wcont,    \* itr->cont
    windex,   \* itr->index
    wnelem,   \* itr->nelem
    wptr,     \* itr->pointer, as an offset in itr->part
    wfilled,  \* the user loop has stored the current element
    wvisited, \* history: the nelem values the user has been given
    wloop,    \* the user loop
    wfail,    \* failed appends so far
    werr      \* some write_next has returned an error

vars == <<shape, pshape, schunk, wphase, wpart, wcont, windex, wnelem, wptr,
          wfilled, wvisited, wloop, wfail, werr>>

ASSUME \A sp \in DTShapes : ValidDTShape(sp)

NElems == Prod(shape)
(* iarray_iter_write_finished, after two off-by-one slips of its test.    *)
FinishedPastEnd == wcont > ESize(shape, pshape)
FinishedEarly == wcont >= ESize(shape, pshape) - 1
Finished == wcont >= ESize(shape, pshape)
(* The loop goes on: a checking loop leaves at the first error.           *)
LoopGoesOn == ~(wloop = "checked" /\ werr)
Buffer(v) == [o \in 0 .. PSize(pshape) - 1 |-> v]

(* _update_iter_index applied to counter value c.                          *)
UpdateIterIndex(c) ==
    /\ windex' = IterIndex(shape, pshape, c)
    /\ wptr' = PartOffset(pshape, c)
    /\ wnelem' = NElem(shape, IterIndex(shape, pshape, c))

Init ==
    /\ \E sp \in DTShapes : shape = sp[1] /\ pshape = sp[2]
    /\ schunk = <<>>
    /\ wphase = "none"
    /\ wpart = <<>>
    /\ wcont = 0
    /\ windex = <<>>
    /\ wnelem = 0
    /\ wptr = 0
    /\ wfilled = FALSE
    /\ wvisited = {}
    /\ wloop \in WLoops
    /\ wfail = 0
    /\ werr = FALSE

(* iarray_iter_write_new: part and index are allocated, not initialised.   *)
WriteNew ==
    /\ wphase = "none"
    /\ wphase' = "new"
    /\ wpart' = Buffer(Garbage)
    /\ windex' = [i \in Dims(shape) |-> Garbage]
    /\ UNCHANGED <<shape, pshape, schunk, wcont, wnelem, wptr, wfilled, wvisited,
                   wloop, wfail, werr>>

(* iarray_iter_write_init                                                  *)
WriteInit ==
    /\ wphase = "new"
    /\ wphase' = "iter"
    /\ wcont' = 0
    /\ wnelem' = 0
    /\ wpart' = Buffer(Zero)
    /\ windex' = [i \in Dims(shape) |-> 0]
    /\ wptr' = 0
    /\ UNCHANGED <<shape, pshape, schunk, wfilled, wvisited, wloop, wfail, werr>>

(* Loop body: iarray_iter_write_value, then the memcpy through val.pointer. *)
WriteValue ==
    /\ wphase = "iter"
    /\ LoopGoesOn /\ ~Finished
    /\ ~wfilled
    /\ wpart' = [wpart EXCEPT ![wptr] = Val(wnelem)]
    /\ wfilled' = TRUE
    /\ wvisited' = wvisited \cup {wnelem}
    /\ UNCHANGED <<shape, pshape, schunk, wphase, wcont, windex, wnelem, wptr,
                   wloop, wfail, werr>>

(* The counter after cont: one step, then the padding skip.               *)
NextCont(c) == SkipPadding(shape, pshape, c + 1)

(***************************************************************************)
(* iarray_iter_write_next: step the counter, skip the padding, append the  *)
(* partition buffer when it is full and clear it, update the index.  A    *)
(* failed append returns INA_ERR_FAILED with the counter and the index    *)
(* already moved and the buffer not cleared.                              *)
(***************************************************************************)
WriteNext ==
    /\ wphase = "iter"
    /\ LoopGoesOn /\ ~Finished
    /\ wfilled
    /\ LET c == NextCont(wcont)
           full == c % PSize(pshape) = 0
       IN /\ wcont' = c
          /\ UpdateIterIndex(c)
          /\ \/ /\ schunk' = IF full THEN Append(schunk, wpart) ELSE schunk
                /\ wpart' = IF full THEN Buffer(Zero) ELSE wpart
                /\ UNCHANGED <<wfail, werr>>
             \/ /\ full /\ wfail < MaxWFail
                /\ wfail' = wfail + 1
                /\ werr' = TRUE
                /\ UNCHANGED <<schunk, wpart>>
    /\ wfilled' = FALSE
    /\ UNCHANGED <<shape, pshape, wphase, wvisited, wloop>>

(* iarray_iter_write_free, at the end of the loop or when it is abandoned. *)
WriteFree ==
    /\ wphase \in {"new", "iter"}
    /\ wphase' = "freed"
    /\ UNCHANGED <<shape, pshape, schunk, wpart, wcont, windex, wnelem, wptr,
                   wfilled, wvisited, wloop, wfail, werr>>

Next == WriteNew \/ WriteInit \/ WriteValue \/ WriteNext \/ WriteFree

Spec == Init /\ [][Next]_vars

-----------------------------------------------------------------------------
Values == {Zero, Garbage} \cup {Val(e) : e \in 0 .. NElems - 1}

IsBuffer(b) ==
    DOMAIN b = 0 .. PSize(pshape) - 1 /\ \A o \in DOMAIN b : b[o] \in Values

TypeOK ==
    /\ <<shape, pshape>> \in DTShapes
    /\ wphase \in {"none", "new", "iter", "freed"}
    /\ \A k \in 1 .. Len(schunk) : IsBuffer(schunk[k])
    /\ wphase # "none" => IsBuffer(wpart)
    /\ wcont \in 0 .. ESize(shape, pshape)
    /\ wptr \in 0 .. PSize(pshape) - 1
    /\ wfilled \in BOOLEAN
    /\ wvisited \subseteq 0 .. NElems - 1
    /\ wloop \in WLoops /\ wfail \in 0 .. MaxWFail /\ werr \in BOOLEAN

(***************************************************************************)
(* Every partition write_next appends holds, at each offset, the value the *)
(* user stored for the element at that place in the partition grid, and   *)
(* Zero on the padding: the skip over the padding, the pointer offset and  *)
(* the memset after each append agree with caterva's layout.               *)
(***************************************************************************)
StoredPartsLayout ==
    \A k \in 1 .. Len(schunk) :
        schunk[k] = RefPart(shape, pshape, k - 1, Val, Zero)

(***************************************************************************)
(* While the loop runs, write_next never stops on a padding cell, and the *)
(* element it exposes has not been given to the user before.              *)
(***************************************************************************)
NoPaddingNoRevisit ==
    wphase = "iter" /\ ~Finished =>
        /\ InShape(shape, windex)
        /\ wfilled <=> wnelem \in wvisited

(***************************************************************************)
(* When the loop's write_finished test first says so, every logical       *)
(* element has been visited and the container holds exactly its grid of   *)
(* partitions, whichever appends failed before.                           *)
(***************************************************************************)
CompleteWhenFinished ==
    wphase = "iter" /\ LoopGoesOn /\ Finished =>
        /\ wvisited = 0 .. NElems - 1
        /\ Len(schunk) = Prod(NParts(shape, pshape))

(***************************************************************************)
(* The linear index the iterator exposes increases by one at each step    *)
(* (the documented row-major visiting order of the write iterator).       *)
(***************************************************************************)
NelemRowMajor ==
    [][wphase = "iter" /\ WriteNext /\ ~Finished' => wnelem' = wnelem + 1]_vars

=============================================================================

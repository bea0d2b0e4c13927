----------------------------- MODULE MCMatmul -----------------------------
(***************************************************************************)
(* The three matrix-product routines checked side by side: impl chooses    *)
(* which one the caller runs: iarray_gemm / iarray_gemv of iarray.c         *)
(* (BlockMatmul), or iarray_gemv of linalg/matmul/gemv.c (GemvPrefilter).  *)
(* The other model stays in its initial state.                             *)
(***************************************************************************)
EXTENDS BlockMatmul, GemvPrefilter, MatmulSets

VARIABLE impl

mvars == <<vars, gvars, impl>>

MInit ==
    \/ impl = "block" /\ Init /\ GInit /\ gcs = CHOOSE c \in GCases : TRUE
    \/ impl = "prefilter" /\ GInit /\ Init /\ cs = CHOOSE c \in Cases : TRUE

MNext ==
    \/ impl = "block" /\ Next /\ UNCHANGED <<gvars, impl>>
    \/ impl = "prefilter" /\ GNext /\ UNCHANGED <<vars, impl>>

(* Each routine runs in the calling thread to its return; blosc joins its  *)
(* worker threads before blosc2_compress_ctx returns.                      *)
MSpec == MInit /\ [][MNext]_mvars /\ WF_mvars(MNext)

(***************************************************************************)
(* Every call of iarray_gemm, iarray_gemv (iarray.c) and iarray_gemv       *)
(* (gemv.c) returns: the block loops end, every prefilter block handed to  *)
(* blosc's threads is computed, and the chunk loop ends, error or not.     *)
(***************************************************************************)
CallsReturn ==
    <>(IF impl = "block" THEN phase = "done" ELSE gphase = "returned")
=============================================================================

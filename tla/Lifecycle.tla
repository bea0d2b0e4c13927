------------------------------ MODULE Lifecycle ------------------------------
(***************************************************************************)
(* The lifecycle of the handles of src/src/iarray.c: the context with its *)
(* memory pool (iarray_context_new / _free), containers (iarray_container_ *)
(* new, the constructors built on it, iarray_from_buffer,                 *)
(* iarray_container_free) and expressions (iarray_expr_new / _bind /       *)
(* _bind_scalar_double / _compile, iarray_eval, iarray_expr_free).        *)
(*                                                                         *)
(* Data is abstracted away.  What is kept is what each call allocates and *)
(* releases: heap is the bag of live ina_mem_alloc / malloc allocations,  *)
(* each named <<handle, field>>; the context's pool (ctx->mp) is a         *)
(* generation counter, bumped by ina_mempool_reset, and every expression  *)
(* records the generations its pool allocations were made in.             *)
(*                                                                         *)
(* The caller is the one of the tests and tools: handles are used only    *)
(* while live, a container is freed only when no live expression binds    *)
(* it, the context last, the first variable bound is a container.          *)
(***************************************************************************)
EXTENDS Integers, Sequences, FiniteSets, Bags

CONSTANTS
    Conts,        \* container handles
    Exprs,        \* expression handles
    Shapes,       \* dtshapes offered: [ndim, fits] (fits: dims >= partshape)
    MaxDim,       \* CATERVA_MAXDIM
    Persist,      \* the values of (flags & IARRAY_CONTAINER_PERSIST) offered
    MaxBinds,     \* bound on the variables bound to one expression
    MaxCompiles   \* bound on the compilations of one expression

Scalar == "scalar"   \* a variable bound by iarray_expr_bind_scalar_double

VARIABLES
    ctx,    \* "none", "live" or "freed"
    mode,   \* ctx->cfg->flags: "chunk" or "block" evaluation
    cont,   \* per container: st, ndim, persist, data (shape-fulls of chunks)
    expr,   \* per expression: st, vars, pool generations held, compiles
    heap,   \* bag of live allocations <<handle, field>>
    epoch,  \* generation of ctx->mp: the number of ina_mempool_reset calls
    rc      \* what the last call returned

lvars == <<ctx, mode, cont, expr, heap, epoch, rc>>

(* The allocations each handle holds while it is live.                    *)
CtxFields == {"ctx", "cfg", "mp"}
ContFields(p) == {"struct", "dtshape", "frame", "cparams", "dparams", "pparams",
                  "catarr"} \cup (IF p THEN {"name"} ELSE {})
ExprFields == {"struct", "temp_vars"}

Alloc(h, fs) == heap (+) SetToBag({<<h, f>> : f \in fs})
Release(h, fs) == heap (-) SetToBag({<<h, f>> : f \in fs})

(* _iarray_container_new's validation, in the code's order.               *)
ValidShapeNoMaxDim(s, p, named) == (p => named) /\ s.fits

ValidShape(s, p, named) == s.ndim <= MaxDim /\ (p => named) /\ s.fits

(***************************************************************************)
(* What iarray_container_free releases: catarr if set, the frame, the     *)
(* parameter blocks, the dtshape and the struct -- never the name.        *)
(* Before it: a version that forgets the frame.                           *)
(***************************************************************************)
ContainerFreedNoFrame == {"struct", "dtshape", "cparams", "dparams", "pparams", "catarr"}

ContainerFreed == {"struct", "dtshape", "frame", "cparams", "dparams", "pparams", "catarr"}

Init ==
    /\ ctx = "none"
    /\ mode = "chunk"
    /\ cont = [c \in Conts |-> [st |-> "none", ndim |-> 0, persist |-> FALSE,
                                data |-> 0]]
    /\ expr = [e \in Exprs |-> [st |-> "none", vars |-> <<>>, pool |-> {},
                                compiles |-> 0]]
    /\ heap = EmptyBag
    /\ epoch = 0
    /\ rc = "success"

(* iarray_context_new: without an evaluation flag, chunk evaluation.     *)
ContextNew ==
    /\ ctx = "none"
    /\ \E flag \in {"none", "chunk", "block"} :
          mode' = IF flag = "none" THEN "chunk" ELSE flag
    /\ ctx' = "live"
    /\ heap' = Alloc("ctx", CtxFields)
    /\ rc' = "success"
    /\ UNCHANGED <<cont, expr, epoch>>

(* iarray_context_free                                                     *)
ContextFree ==
    /\ ctx = "live"
    /\ \A c \in Conts : cont[c].st # "live"
    /\ \A e \in Exprs : expr[e].st \notin {"new", "compiled"}
    /\ ctx' = "freed"
    /\ heap' = Release("ctx", CtxFields)
    /\ UNCHANGED <<mode, cont, expr, epoch, rc>>

(***************************************************************************)
(* _iarray_container_new after its validation: the struct and its fields  *)
(* are allocated, then caterva_new_array, which may fail; on failure the  *)
(* fail path runs iarray_container_free.  `more` is what the constructor  *)
(* does next: nothing (iarray_container_new, arange, rand), the fill      *)
(* (zeros, ones, fill_*: a no-op that reports success) or                 *)
(* caterva_from_buffer, which may fail and also frees the container.      *)
(***************************************************************************)
Construct(c, s, p, named, more) ==
    /\ ctx = "live"
    /\ cont[c].st # "live"
    /\ IF ~ValidShape(s, p, named)
       THEN /\ rc' = "invalid"
            /\ UNCHANGED <<cont, heap>>
       ELSE \E ok \in BOOLEAN, filled \in BOOLEAN :
               /\ (more # "from_buffer" => filled)
               /\ LET born == Alloc(c, ContFields(p))
                  IN IF ok /\ filled
                     THEN /\ heap' = born
                          /\ cont' = [cont EXCEPT ![c] =
                                [st |-> "live", ndim |-> s.ndim, persist |-> p,
                                 data |-> IF more = "from_buffer" THEN 1 ELSE 0]]
                          /\ rc' = "success"
                     ELSE /\ heap' = born (-) SetToBag({<<c, f>> : f \in ContainerFreed})
                          /\ cont' = [cont EXCEPT ![c].st = "freed"]
                          /\ rc' = "failed"
    /\ UNCHANGED <<ctx, mode, expr, epoch>>

ContainerNew ==
    \E c \in Conts, s \in Shapes, p \in Persist, named \in BOOLEAN,
       more \in {"none", "fill"} : Construct(c, s, p, named, more)

FromBuffer ==
    \E c \in Conts, s \in Shapes, p \in Persist, named \in BOOLEAN :
        Construct(c, s, p, named, "from_buffer")

Bound(c) == \E e \in Exprs : expr[e].st \in {"new", "compiled"} /\
                             \E i \in DOMAIN expr[e].vars : expr[e].vars[i] = c

(* iarray_container_free                                                   *)
ContainerFree ==
    \E c \in Conts :
        /\ cont[c].st = "live"
        /\ ~Bound(c)
        /\ cont' = [cont EXCEPT ![c].st = "freed"]
        /\ heap' = Release(c, ContainerFreed)
        /\ UNCHANGED <<ctx, mode, expr, epoch, rc>>

Live(e) == expr[e].st \in {"new", "compiled"}

(* iarray_expr_new                                                         *)
ExprNew ==
    \E e \in Exprs :
        /\ ctx = "live"
        /\ expr[e].st = "none"
        /\ expr' = [expr EXCEPT ![e].st = "new"]
        /\ heap' = Alloc(e, ExprFields)
        /\ rc' = "success"
        /\ UNCHANGED <<ctx, mode, cont, epoch>>

(* iarray_expr_bind: no check of nvars against _IARRAY_EXPR_VAR_MAX.      *)
ExprBind ==
    \E e \in Exprs, c \in Conts :
        /\ Live(e) /\ cont[c].st = "live"
        /\ Len(expr[e].vars) < MaxBinds
        /\ IF cont[c].ndim > 2
           THEN /\ rc' = "invalid" /\ UNCHANGED expr
           ELSE /\ expr' = [expr EXCEPT ![e].vars = Append(@, c)]
                /\ rc' = "success"
        /\ UNCHANGED <<ctx, mode, cont, heap, epoch>>

(* iarray_expr_bind_scalar_double: the container comes from ctx->mp.      *)
ExprBindScalar ==
    \E e \in Exprs :
        /\ Live(e) /\ expr[e].vars # <<>>
        /\ Len(expr[e].vars) < MaxBinds
        /\ expr' = [expr EXCEPT ![e].vars = Append(@, Scalar),
                                ![e].pool = @ \cup {epoch}]
        /\ rc' = "success"
        /\ UNCHANGED <<ctx, mode, cont, heap, epoch>>

(***************************************************************************)
(* iarray_expr_compile: a new copy of the expression string, te_vars and  *)
(* one temporary per variable from ctx->mp, then te_compile, whose tree   *)
(* is allocated on success.  The previous string and tree are kept.       *)
(***************************************************************************)
ExprCompile ==
    \E e \in Exprs, ok \in BOOLEAN :
        /\ Live(e) /\ expr[e].vars # <<>> /\ expr[e].vars[1] \in Conts
        /\ expr[e].compiles < MaxCompiles
        /\ expr' = [expr EXCEPT ![e].st = IF ok THEN "compiled" ELSE "new",
                                ![e].pool = @ \cup {epoch},
                                ![e].compiles = @ + 1]
        /\ heap' = heap (+) SetToBag(IF ok THEN {<<e, "expr">>, <<e, "texpr">>}
                                           ELSE {<<e, "expr">>})
        /\ rc' = IF ok THEN "success" ELSE "not_compiled"
        /\ UNCHANGED <<ctx, mode, cont, epoch>>

(***************************************************************************)
(* iarray_eval into a live container not bound to e: the chunks follow    *)
(* the super-chunk of the first variable, so an empty one gives an empty  *)
(* result, and they are appended after what out already holds (2 stands   *)
(* for two or more).  Its temporaries come from ctx->mp and are not kept. *)
(***************************************************************************)
Appended(a, b) == IF a + b > 2 THEN 2 ELSE a + b

Eval ==
    \E e \in Exprs, out \in Conts :
        /\ expr[e].st = "compiled"
        /\ cont[out].st = "live" /\ \A i \in DOMAIN expr[e].vars : expr[e].vars[i] # out
        /\ cont' = [cont EXCEPT ![out].data = Appended(@, cont[expr[e].vars[1]].data)]
        /\ rc' = "success"
        /\ UNCHANGED <<ctx, mode, expr, heap, epoch>>

(* iarray_expr_free: ina_mempool_reset(ctx->mp), then temp_vars and e.    *)
ExprFree ==
    \E e \in Exprs :
        /\ Live(e)
        /\ epoch' = epoch + 1
        /\ expr' = [expr EXCEPT ![e].st = "freed"]
        /\ heap' = Release(e, ExprFields)
        /\ UNCHANGED <<ctx, mode, cont, rc>>

LNext ==
    \/ ContextNew \/ ContextFree
    \/ ContainerNew \/ FromBuffer \/ ContainerFree
    \/ ExprNew \/ ExprBind \/ ExprBindScalar \/ ExprCompile \/ Eval \/ ExprFree

LSpec == Init /\ [][LNext]_lvars

-----------------------------------------------------------------------------
LifeTypeOK ==
    /\ ctx \in {"none", "live", "freed"}
    /\ mode \in {"chunk", "block"}
    /\ \A c \in Conts : cont[c].st = "live" => cont[c].ndim \in 1 .. MaxDim
    /\ \A c \in Conts : cont[c].data \in 0 .. 2
    /\ \A e \in Exprs : expr[e].pool \subseteq 0 .. epoch
    /\ IsABag(heap)
    /\ epoch \in 0 .. Cardinality(Exprs)

(***************************************************************************)
(* The allocations of containers are exactly those of the live ones: a     *)
(* constructor that fails in caterva_new_array or caterva_from_buffer, and *)
(* iarray_container_free, release everything the container allocated.     *)
(***************************************************************************)
ContainerResourcesExact ==
    [x \in {y \in DOMAIN heap : y[1] \in Conts} |-> heap[x]]
      = SetToBag(UNION {{<<c, f>> : f \in ContFields(cont[c].persist)} :
                          c \in {d \in Conts : cont[d].st = "live"}})

(***************************************************************************)
(* Everything a live expression holds in ctx->mp (its scalar variables,   *)
(* te_vars and temporaries) belongs to the pool's current generation:     *)
(* no ina_mempool_reset has happened since it was allocated.              *)
(***************************************************************************)
ExprPoolLive ==
    \A e \in Exprs : Live(e) => expr[e].pool \subseteq {epoch}

=============================================================================

------------------------------- MODULE ElemOps -------------------------------
(***************************************************************************)
(* The element-wise kernels of src/src/iarray.c: iarray_temporary_new (and *)
(* iarray_shape_size) and _iarray_op behind _iarray_op_add, _sub, _mul and *)
(* _divide, the calls an expression walk makes over the temporaries of an  *)
(* expression.  The walk itself (te_eval) is not in the repository: any    *)
(* sequence of kernel calls on temporaries already made is allowed.        *)
(*                                                                         *)
(* The leaves are the temporaries iarray_expr_compile makes for the bound  *)
(* containers (one dimension of Dim0 items, the dtype of the first         *)
(* variable), once chunk data is in them, and scalar temporaries made by   *)
(* iarray_temporary_new from a container of iarray_expr_bind_scalar_double.*)
(* A value is a term: item i of variable k is <<"x", k, i>>, a scalar is a *)
(* model value of Scalars, an operation a term of its operands; + and *    *)
(* commute, so their operands are a set.  A temporary's scalar_value is    *)
(* the union of the container: the member last written and its value.      *)
(***************************************************************************)
EXTENDS Naturals, Sequences

CONSTANTS
    NVars,      \* the containers bound to the expression
    Dim0s,      \* the item counts compile may give the leaves (dim0)
    Dtypes,     \* the dtypes the first variable may have
    Scalars,    \* the values bound with iarray_expr_bind_scalar_double
    MaxTemps    \* bound on the temporaries of one walk

VARIABLES
    dtype,      \* e->vars[0].c->dtshape->dtype
    temps,      \* the temporaries, in the order they were made
    refs        \* history: what each temporary should hold

vars == <<dtype, temps, refs>>

Ops == {"add", "sub", "mul", "divide"}
Garbage == "garbage"                   \* memory nothing wrote
NULL == [null |-> TRUE]      \* what _iarray_op returns when it fails
Unset == [mem |-> "none", v |-> Garbage]

(* The value of an operation, as a term.                                   *)
Apply(op, a, b) == IF op \in {"add", "mul"} THEN <<op, {a, b}>> ELSE <<op, a, b>>

(* Reading member mem of a scalar_value union.                             *)
ReadSv(t, mem) == IF t.sv.mem = mem THEN t.sv.v ELSE Garbage

(* (float) of a double: a conversion, kept as a term.                      *)
ToFloat(v) == <<"float", v>>

(* iarray_shape_size, in items: dims summed over the dimensions.           *)
ShapeSize(ds) == LET RECURSIVE S(_) S(i) == IF i = 0 THEN 0 ELSE ds.dims[i] + S(i - 1)
                 IN S(ds.ndim)

(* iarray_temporary_new: the dtshape copied, the size, the container's     *)
(* scalar_value when there is a container, and data only when size > 0.    *)
TemporaryNew(sv, ds) ==
    LET size == ShapeSize(ds)
    IN  [dtshape |-> ds, size |-> size, sv |-> sv,
         data |-> IF size > 0 THEN [i \in 0 .. size - 1 |-> Garbage] ELSE <<>>]

Item(t, i) == IF i \in DOMAIN t.data THEN t.data[i] ELSE Garbage

(***************************************************************************)
(* _iarray_op: the result's dtshape from the operands' dimensions (rhs for *)
(* scalar-scalar, the vector for scalar-vector, lhs for vector-vector),   *)
(* a fresh temporary, then the kernel of its dtype, or NULL.              *)
(***************************************************************************)
IarrayOp(lhs, rhs, op) ==
    LET l0 == lhs.dtshape.ndim = 0
        r0 == rhs.dtshape.ndim = 0
        kind == IF l0 /\ r0 THEN "scalar"
                ELSE IF l0 \/ r0 THEN "scalar_vector"
                ELSE IF lhs.dtshape.ndim = 1 /\ rhs.dtshape.ndim = 1
                THEN "vector_vector" ELSE "none"
        ds == CASE kind = "scalar" -> rhs.dtshape
                [] kind = "scalar_vector" -> IF l0 THEN rhs.dtshape ELSE lhs.dtshape
                [] kind = "vector_vector" -> lhs.dtshape
                [] OTHER -> [ndim |-> 0, dims |-> <<>>, dtype |-> "double"]
        out == TemporaryNew(Unset, ds)
        mem == IF ds.dtype = "double" THEN "d" ELSE "f"
        scalar_tmp == IF l0 THEN lhs ELSE rhs
        scalar_lhs == IF l0 THEN rhs ELSE lhs
        dscalar == IF ds.dtype = "double" THEN ReadSv(scalar_tmp, "d")
                   ELSE ToFloat(ReadSv(scalar_tmp, "d"))
    IN  CASE kind = "scalar" ->
               [out EXCEPT !.sv = [mem |-> mem,
                                   v |-> Apply(op, ReadSv(lhs, mem), ReadSv(rhs, mem))]]
          [] kind = "scalar_vector" ->
               [out EXCEPT !.data = [i \in DOMAIN out.data |->
                                        Apply(op, Item(scalar_lhs, i), dscalar)]]
          [] kind = "vector_vector" ->
               [out EXCEPT !.data = [i \in DOMAIN out.data |->
                                        Apply(op, Item(lhs, i), Item(rhs, i))]]
          [] OTHER -> NULL

(***************************************************************************)
(* What an operation means (the specification): element-wise in the       *)
(* expression's dtype, a scalar broadcast to every item and converted to  *)
(* the dtype, the operands in their order.  A meaning is [s] for a scalar *)
(* or the sequence-like function of the items.                             *)
(***************************************************************************)
RefOp(op, a, b) ==
    LET Conv(x) == IF dtype = "double" THEN x.s ELSE ToFloat(x.s)
    IN  CASE "s" \in DOMAIN a /\ "s" \in DOMAIN b -> [s |-> Apply(op, a.s, b.s)]
          [] "s" \in DOMAIN a -> [v |-> [i \in DOMAIN b.v |-> Apply(op, Conv(a), b.v[i])]]
          [] "s" \in DOMAIN b -> [v |-> [i \in DOMAIN a.v |-> Apply(op, a.v[i], Conv(b))]]
          [] OTHER -> [v |-> [i \in DOMAIN a.v |-> Apply(op, a.v[i], b.v[i])]]

(* What a temporary holds, read as the kernels read it.                    *)
Holds(t) == IF t.dtshape.ndim = 0
            THEN [s |-> ReadSv(t, IF t.dtshape.dtype = "double" THEN "d" ELSE "f")]
            ELSE [v |-> t.data]

-----------------------------------------------------------------------------
(* After compile and the decompression of a chunk: one temporary per      *)
(* variable, of dim0 items of the first variable's dtype.                  *)
Init ==
    /\ dtype \in Dtypes
    /\ \E d0 \in Dim0s :
         LET leaf(k) == [TemporaryNew(Unset, [ndim |-> 1, dims |-> <<d0>>, dtype |-> dtype])
                            EXCEPT !.data = [i \in 0 .. d0 - 1 |-> <<"x", k, i>>]]
         IN  /\ temps = [k \in 1 .. NVars |-> leaf(k)]
             /\ refs = [k \in 1 .. NVars |-> [v |-> leaf(k).data]]

(* A scalar temporary: ndim 0, double, and its scalar_value.d, the fields *)
(* iarray_expr_bind_scalar_double gives a scalar.  compile turns bound     *)
(* scalars into 1-D temporaries, so such an operand reaches _iarray_op     *)
(* from te_eval (minjugg, outside the repository) for a constant of the    *)
(* expression, as in 1.35 - x.                                             *)
ScalarTemp(s) ==
    /\ Len(temps) < MaxTemps
    /\ temps' = Append(temps, TemporaryNew([mem |-> "d", v |-> s],
                                           [ndim |-> 0, dims |-> <<>>, dtype |-> "double"]))
    /\ refs' = Append(refs, [s |-> s])
    /\ UNCHANGED dtype

(* _iarray_op_<op>(expr, temps[l], temps[r]).                              *)
OpCall(op, l, r) ==
    /\ Len(temps) < MaxTemps
    /\ temps[l] # NULL /\ temps[r] # NULL
    /\ temps' = Append(temps, IarrayOp(temps[l], temps[r], op))
    /\ refs' = Append(refs, RefOp(op, refs[l], refs[r]))
    /\ UNCHANGED dtype

Next ==
    \/ \E s \in Scalars : ScalarTemp(s)
    \/ \E op \in Ops, l, r \in DOMAIN temps : OpCall(op, l, r)

Spec == Init /\ [][Next]_vars

-----------------------------------------------------------------------------
ElemTypeOK ==
    /\ dtype \in Dtypes
    /\ Len(temps) = Len(refs) /\ Len(temps) <= MaxTemps

(***************************************************************************)
(* Every temporary a kernel returns holds what its operation means on its *)
(* operands' meanings: the items in order, each operand on its side, the  *)
(* scalar broadcast and converted to the dtype.                            *)
(***************************************************************************)
OpResultExact == \A j \in DOMAIN temps : temps[j] # NULL /\ Holds(temps[j]) = refs[j]
=============================================================================

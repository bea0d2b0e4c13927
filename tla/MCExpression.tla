---------------------------- MODULE MCExpression ----------------------------
(***************************************************************************)
(* The expression programs over one set of constants, checked side by     *)
(* side: prog chooses whether the caller evaluates bound operands with    *)
(* iarray_eval (Eval), drives contexts, containers and expressions        *)
(* through their lifecycle (Lifecycle), or compiles a source string with  *)
(* tinyexpr (Parser).  The other programs stay in their initial states.   *)
(***************************************************************************)
EXTENDS MCEval, MCParser

CONSTANTS Conts, Exprs, Shapes, MaxDim, Persist, MaxBinds, MaxCompiles,
          Inputs, VarNames

VARIABLES ctx, mode, cont, expr, heap, epoch, rc,
          input, pphase, result,
          prog

LC == INSTANCE Lifecycle
PA == INSTANCE Parser WITH phase <- pphase

(* One dtshape of each kind _iarray_container_new tells apart: valid and   *)
(* bindable (ndim <= 2), valid but of 3 dimensions, above CATERVA_MAXDIM,  *)
(* and with a partition larger than the shape.                             *)
MCShapes == {[ndim |-> 1, fits |-> TRUE], [ndim |-> 3, fits |-> TRUE],
             [ndim |-> 9, fits |-> TRUE], [ndim |-> 1, fits |-> FALSE]}

lvars == <<ctx, mode, cont, expr, heap, epoch, rc>>
pvars == <<input, pphase, result>>
xvars == <<vars, lvars, pvars, prog>>

(* A single one-operand evaluation, for runs about the lifecycle.          *)
PoolScenarios == {Sc(<<1>>, <<TRUE>>, 2, 1, "chunk")}

(* A single source, for runs about the lifecycle.                          *)
PoolInputs == {"x"}

IdleSc == CHOOSE s \in Scenarios : TRUE

(* The parser's input while another program runs.                         *)
IdleInput == "x"

(* Parser's initial state with the idle input.                             *)
PIdle ==
    /\ input = IdleInput /\ pphase = "source"
    /\ result = [ok |-> FALSE, root |-> PA!NoTree, error |-> 0]

XInit ==
    \/ prog = "eval" /\ Init /\ LC!Init /\ PIdle
    \/ prog = "lifecycle" /\ sc = IdleSc /\ Init /\ LC!Init /\ PIdle
    \/ prog = "parser" /\ sc = IdleSc /\ Init /\ LC!Init /\ PA!Init

XNext ==
    \/ prog = "eval" /\ Next /\ UNCHANGED <<lvars, pvars, prog>>
    \/ prog = "lifecycle" /\ LC!LNext /\ UNCHANGED <<vars, pvars, prog>>
    \/ prog = "parser" /\ PA!Compile /\ UNCHANGED <<vars, lvars, prog>>

(***************************************************************************)
(* iarray_eval runs its loops in the calling thread, which keeps running: *)
(* weak fairness on the evaluation's steps.  The other programs are the   *)
(* caller's choice of calls and need none.                                *)
(***************************************************************************)
XSpec == XInit /\ [][XNext]_xvars
         /\ WF_xvars(prog = "eval" /\ Next /\ UNCHANGED <<lvars, pvars, prog>>)

-----------------------------------------------------------------------------
(***************************************************************************)
(* iarray_eval returns, in either mode: the chunk and block loops advance  *)
(* to their bounds (the extra and corrected last blocks included), and    *)
(* every chunk or block that cannot be read takes the early return.       *)
(***************************************************************************)
EvalReturns == prog = "eval" => <>(phase \in {"done", "failed"})

(* The properties of Lifecycle and Parser, for their programs.             *)

(* The lifecycle's handles, heap and pool generations keep their types.    *)
LifeTypeOK == LC!LifeTypeOK

(* The allocations of containers are exactly those of the live ones, after *)
(* failing constructors and iarray_container_free alike.                   *)
ContainerResourcesExact == LC!ContainerResourcesExact

(* Everything a live expression holds in ctx->mp (its scalar variables,   *)
(* te_vars and temporaries) belongs to the pool's current generation: no  *)
(* ina_mempool_reset has happened since it was allocated.                 *)
ExprPoolLive == LC!ExprPoolLive

(* jug_te_compile's result keeps its type.                                 *)
ParseTypeOK == PA!ParseTypeOK

(* jug_te_compile accepts exactly the sentences of the grammar and returns *)
(* the sentence's tree: precedence, associativity, unary signs, arity and *)
(* the builtin lookup as the specification's grammar gives them.          *)
CompileMatchesGrammar == PA!CompileMatchesGrammar

=============================================================================

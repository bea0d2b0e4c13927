# TLA+ models of iron-array

This directory holds TLA+ models of the C library in `src/` (ironArray) and
the TLC configurations that check them. `PROJECT.json` lists:
- the components;
- the runs;
- the mapping from every modelling definition to the C lines it stands for;
- the findings;
- the hazards.

## The system

iron-array stores n-dimensional arrays of doubles or floats as caterva
arrays. Each is a blosc2 *super-chunk* holding the array's *partitions*
(chunks) in row-major order of the partition grid. The logical `shape` is
rounded up to `eshape`, a multiple of the partition shape `pshape`. The
cells of `eshape` outside `shape` are *padding*. On top of that store:

| Part | Source | What it does |
|---|---|---|
| Context and containers | `src/src/iarray.c` 185-457 | `iarray_context_new` copies the configuration and creates a memory pool (`ctx->mp`). `_iarray_container_new` validates the dtshape, allocates the container's fields and creates the caterva array. `zeros`, `ones`, `fill_*`, `arange`, `rand` and `from_buffer` build on it, and `iarray_container_free` releases it. |
| Element iterators | `src/src/iarray_iterator.c` 31-221, 583-704 | A write iterator fills a new container element by element through a partition buffer, appending the buffer when it is full. A read iterator walks a container, decompressing one partition at a time. |
| Partition / block / matmul iterators | `iarray_iterator.c` 237-573, 716-866 | Write a whole partition per step, read user-shaped blocks, or walk the block pairs of a block matrix product. |
| Expressions | `iarray.c` 459-652, 671-942 | `expr_new/bind/compile/eval/free`. Scalars, `te_vars` and temporaries are allocated from the context's pool. Compile sizes everything from chunk 0 of the first variable. Eval runs chunk by chunk, or block by block inside each chunk, and appends to the output. |
| Element-wise kernels | `iarray.c` 503-514, 654-949 | `iarray_temporary_new` makes the temporaries of an expression walk, and `_iarray_op` (behind `_iarray_op_add/sub/mul/divide`) computes a new temporary from two: scalar-scalar, scalar-vector or vector-vector, in the expression's dtype. |
| Parser | `src/contribs/minjugg/src/tinyexpr.c` | tinyexpr's recursive-descent parser (`jug_te_compile`), which builds the expression tree. |
| Matrix products | `iarray.c` 951-1107, `src/src/linalg/matmul/gemv.c` | `iarray_gemm`/`iarray_gemv` (iarray.c) multiply P×P partitions chunk by chunk and append the output blocks. `iarray_gemv` of gemv.c computes each chunk of c inside blosc's prefilter, one block per call, on blosc's threads. |

The parts interact through two things:
- **The super-chunk.** Iterators, eval and the products append to their
  output's super-chunk and decompress their inputs' chunks.
- **The context's memory pool.** Every expression of a context allocates from
  it, and `iarray_expr_free` resets it.

All the loops run sequentially in the calling thread, except the prefilter
of gemv.c. blosc runs it for the blocks of a chunk on its worker threads, and
joins them before `blosc2_compress_ctx` returns.

## Modules

| Module | Models | State and actions |
|---|---|---|
| `ChunkGrid` | `_update_iter_index` and the padding skip (`iarray_iterator.c` 31-72, 111-122, 612-623) | Pure operators: counter → coordinate (`IterIndex`), pointer offset (`PartOffset`), row-major number (`NElem`), and the padding loop `SkipFrom` (RECURSIVE). `FlatToNd`/`RefPart` are an independent reference layout taken from the specification. |
| `WriteIter` | element write iterator plus the user loop | Variables are the container shape, `schunk` (the partitions appended) and the iterator's counter, index, pointer and buffer. There is one action per call: `WriteNew`, `WriteInit`, `WriteValue` (the value and the loop body's memcpy), `WriteNext` (step, padding skip, append and memset, index) and `WriteFree`. The append of a full buffer may fail, up to `MaxWFail` times; `wloop` says whether the loop stops on the error (`IARRAY_FAIL_IF_ERROR`, "checked") or ignores it as `tools/perf_vectors.c` does ("unchecked"). Only the checked loop is run with failures: the iterator cannot be resumed after an error, and the specification makes a partly written container unusable. |
| `ReadIter`, `IterRoundTrip` | element read iterator; a container written and then read back (INSTANCE of both) | `ReadInit` ignores the decompress result, as the code does. `ReadNext` reloads at partition boundaries. |
| `PartIter` | partition write iterator plus the loop of `tools/perf_vectors.c` | Part counter, part index, truncated part shape, and the padded copy of edge parts into an uncleared buffer. Appends may fail, up to `MaxFail` times. |
| `BlockIter` | block read iterator | Block counter, start and clamped stop of each slice, `block_size` accumulation. `iarray_slice_buffer` may fail past the shape. A history `seen` records the regions the loop was given. |
| `EvalSpec`, `Eval` | what eval promises; `iarray_expr_compile` and `iarray_eval` (`iarray.c` 516-652) | In `Eval`, operands are item counts and chunk lengths, and items are tags `<<operand, index>>`. Chunk mode and block mode are modelled step by step, with decompress and getitem failures and the heap buffers of block mode. `Abs` maps this state onto `EvalSpec`. `EvalSpec` lets eval fail only on an unreadable operand or on operands whose shapes differ (specification, variable-shape invariant), and in the second case before it appends anything. |
| `Parser` | `jug_te_compile` and everything it calls (`tinyexpr.c` 57-661) | `Lex` is `next_token`. `Parse(level, …)` covers `base`, `power`, `factor`, `term`, `expr` and `list`. `BSearch` is the builtin table search, and `CompileResult` gives the tree or the error offset. A second, independent part builds the tree set of the specification's grammar (`RefLex`, `RefT`) to check against. |
| `Lifecycle` | context, container and expression handles (`iarray.c` 68-652) | `heap` is a bag of live allocations `<<handle, field>>`. `epoch` is the pool's generation, bumped by every `ina_mempool_reset`. Each expression records the generations of its pool objects, and each container counts the shape-fulls of chunks it holds. There is one action per API call; the constructors share `Construct`. |
| `ElemOps` | `iarray_temporary_new`, `iarray_shape_size` and `_iarray_op` (`iarray.c` 654-942), on compile's leaves (548-561) and 0-D scalar temporaries with the fields of 503-514. Within the repository no caller makes such a temporary; te_eval (minjugg, outside the repository) does, for a constant of the expression. | `temps` is the sequence of temporaries made so far, each with its dtshape, size, `scalar_value` union (the member last written and its value) and data. Values are terms: `<<"x", k, i>>` is item i of variable k, add and mul take a set of operands because they commute, and `ToFloat` keeps the double-to-float conversion as a term. `OpCall(op, l, r)` is one kernel call on two temporaries already made. `refs` records what each temporary should hold, from `RefOp`. |
| `PartBlockIter` | a container written by the partition iterator, then read by the block iterator (INSTANCE of `BlockIter`) | The reader chooses its block shape once the write loop has freed its iterator. |
| `BlockMatmul` | `iarray_gemm`, `iarray_gemv` (`iarray.c` 951-1107) and the matmul iterator (`iarray_iterator.c` 458-529) | `ClearBlock` is the memset, `MulStep` one k step (chunks `a_i`, `b_i`, then `_mm_mul`/`_mv_mul`), `AppendBlock` the append plus the n/m loop, and `Return` the frees (gemv frees nothing). A cell is the set of products `<<a-tag, b-tag>>` added to it. `used` records the chunk pairs read. The iterator is a set of operators (`MatmulInit/Next/Finished`). |
| `GemvPrefilter` | `iarray_gemv` and `gemv_blosc` (`gemv.c`) | `mkl` is the thread count, `gheap` the live allocations and `cache_a` the sliced rows of a. `Prefilter(nb)` is one blosc thread running `_gemv_prefilter` on block nb, and `pending` holds the blocks not yet run. Every failing step (slice of b, slice of a, cparams, compression) returns through `Fail`. |
| `MC*`, `DTShapeSets` | TLC instantiations | Sets of container shapes, block cases, eval scenarios, input strings, dtshapes and matrix shapes. `MCLoops` puts four programs in one run (element iterators, partition/block iterators, gemm/gemv, prefilter gemv; `MatmulSets` holds the product cases it shares with `MCMatmul`), and `MCExpression` puts three (eval, lifecycle and parser) in one. A variable (`prog`, `impl`) chooses one, and the other model stays in its initial state. |

Element values are abstracted to tags: the loop stores `Val(nelem)`, memset
gives `Zero`, and an unwritten allocation holds `Garbage`. A wrong cell, a
stale cell and an uninitialised cell can therefore all be told apart.

## Runs

| Run | Checks |
|---|---|
| `loops` (pass) | Four programs in one run, 59,522 states. **Element program:** every 1-D and 2-D container with extents up to 4 and every valid partition, plus 3-D containers whose padding skip cascades, with a loop that stops on a failed append. The writer stores each element at caterva's layout and never stops on padding. It appends the whole grid (`StoredPartsLayout`, `NoPaddingNoRevisit`, `CompleteWhenFinished`). The reader returns each element once, with its written value (`ReadReturnsWritten`, `ReadCoversOnce`). **Part/block program:** there is one failed append. `PartsStoredLogically` says every element is stored at its place, edge parts included, and `PartViewExact` that the loop is told each part's position and truncated extents. With every fitting block shape, the blocks cover the container exactly once (`PBBlocksTileShape`), each at its row-major grid position (`PBBlockViewExact`). **Products:** `iarray_gemm`/`iarray_gemv` for M, K, N in 1..4 with P in 1..3: `ProductExact` says every appended block is the partition of a·b at that chunk number, padding cells empty, and the whole grid is there at return; `IterMatchesLoop` says the matmul iterator names the same chunk pair as the loop. The prefilter gemv, in every thread order and with every failure: `ChunkRowsExact` says every stored chunk holds in each real row that row's dot product. `CallsReturn` (liveness) says every product call returns. |
| `write_iter_order` (violation) | `NelemRowMajor`: for shape (2,2) with partition (2,1), the elements are visited in the order 0, 2, 1, 3. |
| `expression` (pass) | Three programs over one set of constants, 130,861 states. **Eval:** one or two equal-length operands (1..7 items), chunks of 2 or 3 items, blocks of 1..4, both modes, and unreadable second operands. `EvalRefinesSpec` says eval implements `EvalSpec`, and `EvalReturns` (liveness) says it always returns. **Lifecycle:** two containers and one expression, in every order of calls, with failing `caterva_new_array` and `caterva_from_buffer`. `ContainerResourcesExact` says the container allocations are exactly those of the live containers, failure paths included. `LifeTypeOK` says no live container has more than `CATERVA_MAXDIM` dimensions. **Parser:** 45,090 input strings, the empty one included. `CompileMatchesGrammar` says compile accepts exactly the grammar's sentences and builds their trees. |
| `eval_mismatch_output` (violation) | `EvalRefinesSpec` on operands of different lengths, which `EvalSpec` lets fail before any append: eval appends uninitialised or stale items and reports success (operands of 2 and 1 items, 4 states). |
| `eval_buffers` (violation) | `BuffersReleased`: block-mode eval returns while still holding malloc'd chunk buffers. |
| `part_elem_index` (violation) | `PartElemIndexDocumented`: `elem_index` is not the part's first element; its last entry is never set. |
| `block_oversize` (violation) | `BlocksTileShape` with a block larger than the container: the first block is read and reported past the shape. |
| `gemv_blocks` (violation) | `BlocksReleased` (`BlockMatmul`): `iarray_gemv` of iarray.c returns with `a_block`, `b_block` and `c_block` still allocated (5 states, M = K = P = 1); `iarray_gemm` frees them. |
| `gemv_threads` (violation) | `MklThreadsRestored`: after a failing slice of b, `iarray_gemv` (gemv.c) returns with MKL still at one thread (3 states). |
| `op_scalar_left` (violation) | `OpResultExact` (`ElemOps`): the kernels on two variables of 1 or 2 items, double or float, and one scalar. In 3 states, `s1 - x` is computed as `x - s1`: the scalar-vector kernels always put the vector on the left. |
| `part_padding` (violation) | `PaddingStoredZero` (`PartIter`), on every 1-D and 2-D container up to extent 2. For shape (3) with partition (2), the padding cell of the edge partition holds uninitialised memory, not 0. |
| `lifecycle_pool` (violation) | `ExprPoolLive` on the `MCExpression` lifecycle program, with two expressions on one context. In an 8-state trace, `e2` is freed while `e1` holds a scalar from the pool, which is now reset. |

**Bounds.** Extents up to 4 with every partition shape cover every case the
padding arithmetic tells apart in one dimension:
- no padding;
- one padding cell;
- more than half a partition of padding;
- single-cell partitions.

With two dimensions, both can pad at once. The 3-D sample adds the cascade
through a third dimension.

Eval's lengths up to 7, with chunks of 2 or 3, give one to four chunks,
with or without a short last chunk. Blocks of 1..4 divide the chunk, do
not divide it, or exceed it.

The parser's inputs combine every token class with up to four pieces (six
for calls), so they reach:
- every `base` branch;
- the `**` and sign rules;
- arity 0, 1 and 2;
- the builtin prefix tie-break between `log` and `log10`;
- every error position.

`Lifecycle` offers one dtshape of each kind the validation tells apart:
- valid;
- three dimensions, which `expr_bind` rejects;
- above `CATERVA_MAXDIM`;
- a partition larger than the shape.

`MaxBinds = 2` and `MaxCompiles = 2` allow a scalar after a container, and
a recompile.

Matrix extents 1..4 with partitions 1..3 give:
- exact fits and one or two padding cells;
- grids of 1 to 4 partitions per dimension;
- padding in M, K and N independently.

For the prefilter, chunks of 1..4 with blocks up to the chunk give:
- extended chunks (CS = 3, BS = 2);
- edge chunks shorter than CS, which leave stale rows in `cache_a`;
- up to four blocks running in any order.

**Fairness.** The iterator programs are loops the caller may stop at any
point, so they get no fairness. `XSpec` (`MCExpression`) assumes weak fairness only on
the eval program's steps, because `iarray_eval` runs its loops in the
calling thread. The lifecycle and parser programs are sequences of calls the
caller may stop at any point, so they get none. Under that fairness,
`EvalReturns` checks that eval's chunk and block loops reach their bounds
or take an early return. `LSpec` (`MCLoops`) assumes weak fairness only on the steps of the two
product programs, and `GemvPrefilter`'s own `GSpec` on its next-state relation. The justification:
- each routine runs in the calling thread, which keeps running until it
  returns;
- blosc joins its worker threads before `blosc2_compress_ctx` returns, so
  every block handed out is run.

Under that fairness, `CallsReturn` checks that every product call returns.
`CHECK_DEADLOCK FALSE` is set in every configuration. Each model ends where
the program ends:
- the iterators are freed;
- eval returns;
- compile returns;
- the context is freed;
- a product call returns.

## Findings

See `PROJECT.json` → `findings`:
1. The element iterators visit the elements partition-major, not row-major
   as the specification says.
2. Eval never compares the operands' shapes. On mismatched operands, it
   appends uninitialised or stale data and reports success.
3. Block-mode eval leaks one chunk-sized buffer per operand on every call.
4. The partition iterator's `elem_index` is partly uninitialised.
5. The block iterator reads its first block past the shape when the block
   is larger than the container.
6. `iarray_expr_free` resets the context-wide pool under the other live
   expressions of that context (`iarray.c:476`).
7. `iarray_gemv` (gemv.c) leaves MKL single-threaded when any step of
   `gemv_blosc` fails, because it returns before restoring the count
   (`gemv.c:204`).
8. `_iarray_op` computes `s - x` and `s / x` as `x - s` and `x / s` when
   the scalar is the left operand (`iarray.c:714`).
9. The partition write iterator copies edge partitions into a `malloc`'d
   buffer that is never cleared, so their padding is uninitialised memory
   where the code's comment promises zeros (`iarray_iterator.c:270`).
   gemm and gemv multiply over padding cells.
10. `iarray_gemv` of iarray.c never frees its three partition buffers
    (`iarray.c:1106`), where `iarray_gemm` frees them.

`PROJECT.json` → `hazards` lists further defects found while modelling and
not checked by a run, each with the reason:
- the persistent name is never freed;
- the expression string and tree leak on free and on recompile;
- `expr_bind` has no bound on the number of variables;
- the prefilter context of gemv.c, and on errors its caches, compression
  context and chunk, are never freed;
- `iarray_iter_write_next` moves its counter before a failed append and
  cannot be resumed, and `tools/perf_vectors.c` ignores the error and
  keeps writing;
- compile reports offset 1 for the empty expression, a position outside
  the string;
- the products ignore decompress and `update_chunk` results, and never check
  that the operands' partitions agree;
- evaluating twice into one output appends twice;
- compile dereferences the first variable's `catarr` unchecked.

## Not modelled (and why)

* blosc2, caterva, libinac and MKL are external libraries. Only the effects
  the code relies on are modelled: append, decompress, getitem and slice
  (with failure), and `caterva_new_array` / `caterva_from_buffer` (with
  failure). Allocation failures of `ina_mem_alloc` and `ina_mempool_new`
  are not modelled: whether a failed container's later fields are garbage
  is decided by libinac.
* Matrix products on operands whose partitions are not square and equal, or
  whose K differs. What decompressing into a too-small buffer does is blosc2's
  behaviour, so only the operands `tests/test_gemm.c` builds are modelled.
  The two definitions of `iarray_gemv` (iarray.c and gemv.c) cannot be linked
  into one library; each is modelled on its own.
* The arithmetic of the kernels (MKL vector functions): `ElemOps` keeps
  each result as a term, which is what tells operand order, broadcasting and
  conversion apart. `te_eval`'s tree walk is in minjugg's evaluator, outside
  the repository, so `ElemOps` allows any sequence of kernel calls.
* The random constructors (MKL VSL numerics) and `iarray_utils.c` (one
  file-existence call).
* tinyexpr's user-function registry (`find_custom`, not in the repository,
  taken as empty) and `jug_te_free`: freeing a tree has no observable effect
  the models track, since no heap of tree nodes is kept.
* `bench/`, `tests/`, `perf_matmul.c` and `example_view.c` call functions
  whose signatures are not those of the library in `src/`, so they are not
  drivers of this code. Only the loops of `tools/perf_vectors.c` and
  `example_view.c`'s `IARRAY_FAIL_IF_ERROR` pattern are modelled, as the
  callers of the write iterators.

## Plan

1. **Eval, rest**: the pool's growth per chunk (`iarray.c:674`), which
   needs a run slot, and operand chunks whose sizes differ from chunk 0.
2. A read of a zeros/ones container through `ReadIter`, once the model
   fixes what `caterva_to_buffer` does on an empty super-chunk.
3. A release property for the prefilter gemv of gemv.c (`prefilter_ctx`
   and, on errors, its caches); the twelve runs are all in use, so it needs
   a violation run merged or retired first.

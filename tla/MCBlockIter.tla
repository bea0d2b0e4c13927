---------------------------- MODULE MCBlockIter ----------------------------
(* Containers and block shapes for checking the block read iterator.       *)
EXTENDS BlockIter

ShapesOf(n, e) == [1 .. n -> 1 .. e]

(* 1-D and 2-D containers with extents up to 4 and every block shape that *)
(* fits in the container: blocks that divide the shape and blocks that    *)
(* leave a shorter last block.                                             *)
FittingBlocks ==
    {bc \in UNION {ShapesOf(n, 4) \X ShapesOf(n, 4) : n \in 1 .. 2} :
        \A i \in DOMAIN bc[1] : bc[2][i] <= bc[1][i]}

(* Containers with a block larger than the container along a dimension.  *)
OversizeBlocks ==
    {bc \in UNION {ShapesOf(n, 3) \X ShapesOf(n, 4) : n \in 1 .. 2} :
        \E i \in DOMAIN bc[1] : bc[2][i] > bc[1][i]}

=============================================================================

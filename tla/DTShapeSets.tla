---------------------------- MODULE DTShapeSets ----------------------------
(* The containers the iterator models are checked over: shape and          *)
(* partition shape pairs that _iarray_container_new accepts.               *)
EXTENDS ChunkGrid

ShapesOf(n, e) == [1 .. n -> 1 .. e]

(* Every container of 1 or 2 dimensions with extents 1..4 and any valid    *)
(* partition shape: whole, partial and single-element partitions.         *)
AllDTShapesUpTo2D ==
    {sp \in UNION {ShapesOf(n, 4) \X ShapesOf(n, 4) : n \in 1 .. 2} :
        ValidDTShape(sp)}

(* Three-dimensional containers with padding along one, two or all three   *)
(* dimensions, so that the padding skip cascades across dimensions, and   *)
(* one without padding, whose last cell is the last element.              *)
DTShapes3D ==
    { <<<<3, 3, 3>>, <<2, 2, 2>>>>,
      <<<<2, 3, 3>>, <<2, 2, 2>>>>,
      <<<<3, 2, 3>>, <<2, 1, 2>>>>,
      <<<<3, 3, 2>>, <<2, 2, 1>>>>,
      <<<<2, 2, 3>>, <<1, 2, 2>>>>,
      <<<<2, 2, 2>>, <<1, 2, 1>>>> }

(* Both of the above.                                                       *)
DTShapesUpTo3D == AllDTShapesUpTo2D \cup DTShapes3D

=============================================================================

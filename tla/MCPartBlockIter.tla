-------------------------- MODULE MCPartBlockIter --------------------------
(* Containers and block shapes for the write-then-read composition.        *)
EXTENDS PartBlockIter, DTShapeSets

(* For every container of DTShapesUpTo3D, every block shape that fits:    *)
(* blocks that divide the shape and blocks that leave a shorter last one.  *)
FittingBlocksOf(S) ==
    UNION {{<<sp[1], b>> : b \in {b \in [Dims(sp[1]) -> 1 .. 4] :
                                     \A i \in Dims(sp[1]) : b[i] <= sp[1][i]}} : sp \in S}
(* Every fitting block for 1-D and 2-D containers; for the 3-D ones, the    *)
(* partition shape and a single block as large as the container.          *)
MCBlockCases ==
    FittingBlocksOf(AllDTShapesUpTo2D)
      \cup {<<sp[1], sp[2]>> : sp \in DTShapes3D}
      \cup {<<sp[1], sp[1]>> : sp \in DTShapes3D}
=============================================================================

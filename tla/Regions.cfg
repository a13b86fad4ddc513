\* The layout of the segment, for the sizes of typesAndDecs.h and larger ones.
SPECIFICATION Spec
CONSTANT Configs <- RealAndLarger
\* All regions have been carved.
CHECK_DEADLOCK FALSE
INVARIANTS AreasDisjoint FitsSegment

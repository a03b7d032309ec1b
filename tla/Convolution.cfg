SPECIFICATION ConvolutionSpec
CONSTANT Sizes <- MCSizes
INVARIANT ParallelIsSequential
CHECK_DEADLOCK FALSE

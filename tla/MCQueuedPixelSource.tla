------------------------ MODULE MCQueuedPixelSource ------------------------
EXTENDS QueuedPixelSource

CONSTANTS small, wide

\* A small frame fits into the buffer of a wide one, not the reverse.
MCArea == [d \in Dims |-> IF d = small THEN 2 ELSE 6]
=============================================================================

------------------------- MODULE MCNestedEventLoop -------------------------
EXTENDS NestedEventLoop
=============================================================================

--------------------------- MODULE MCApplication ---------------------------
EXTENDS Application

=============================================================================

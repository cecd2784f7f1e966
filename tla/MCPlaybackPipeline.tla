------------------------- MODULE MCPlaybackPipeline -------------------------
EXTENDS PlaybackPipeline
=============================================================================

-------------------------- MODULE MCRenderPipeline --------------------------
(* Instances of RenderPipeline for TLC.                                    *)
EXTENDS RenderPipeline

-----------------------------------------------------------------------------
(* Two statements of the code's comments that do not hold: a configuration *)
(* that checks either as an invariant ends in a counterexample.            *)

\* When exit() has waited for the last frame, no job is queued or running.
NoJobAfterExitWait ==
    fxpc \in {"exitLock", "exited"} => renderQueue = <<>> /\ rtpc \notin Locked

\* A device that is not ready costs PresentingPainter no frame: it asks for
\* the repaint of the scene it could not paint, and that frame comes.
NotReadyFrameComes ==
    \A s \in Presenting : Attached(s) /\ renderDirty[s] /\ stateValid[s] =>
        FrameComing(s) \/ failed[s] = "thrown"
=============================================================================

----------------------------- MODULE JavaSource -----------------------------
(***************************************************************************)
(* javasource, the GStreamer element at the head of every pipeline that    *)
(* OpenJFX builds for remote media.  A task on its source pad repeats      *)
(* java_source_loop, which turns the Java connection into newsegment       *)
(* events, buffers and EOS; the application thread seeks.                  *)
(*                                                                         *)
(* A GStreamer task that is started holds the STREAM_LOCK of its pad; it   *)
(* gives the lock up only where it parks after it was paused.  What the    *)
(* pushed events and buffers do is the business of the element downstream: *)
(* a module that extends this one takes over at `segment', `read' and      *)
(* `eos' and comes back to `end' with the result of the push in `ret'.     *)
(***************************************************************************)
EXTENDS Integers

VARIABLES
    source_result,   \* javasource's srcresult
    pending_event,   \* what the loop pushes next, UNKNOWN for buffers
    source_task,     \* the state of the task of its source pad
    spc,             \* where the source thread is
    ret              \* `result' of the running iteration

sourceVars == <<source_result, pending_event, source_task, spc, ret>>

FlowReturn == {"OK", "WRONG_STATE", "UNEXPECTED", "ERROR"}

SourceTypeOK(places) ==
    /\ source_result \in FlowReturn
    /\ ret \in FlowReturn
    /\ pending_event \in {"NEWSEGMENT", "EOS", "UNKNOWN"}
    /\ source_task \in {"started", "paused", "stopped"}
    /\ spc \in places

SourceInit ==
    /\ source_result = "OK"
    /\ pending_event = "NEWSEGMENT"
    /\ source_task = "started"
    /\ spc = "top"
    /\ ret = "OK"

\* The STREAM_LOCK of the source pad is free.
SourceParked == spc = "top" /\ source_task # "started"

\* java_source_loop up to the switch.
SourceLoop ==
    /\ spc = "top" /\ source_task = "started"
    /\ ret' = source_result
    /\ spc' = IF source_result # "OK" THEN "end"
              ELSE CASE pending_event = "NEWSEGMENT" -> "segment"
                     [] pending_event = "EOS"        -> "eos"
                     [] OTHER                        -> "read"
    /\ UNCHANGED <<source_result, pending_event, source_task>>

\* The end of java_source_loop: a failed push, or a srcresult that was set
\* in the meantime, pauses the task.
SourceLoopEnd ==
    LET result == IF source_result = "OK" \/ ret # "OK" THEN ret
                  ELSE source_result
    IN  /\ spc = "end"
        /\ source_result' = result
        /\ spc' = "top"
        /\ source_task' = IF result # "OK" /\ source_task = "started"
                          THEN "paused" ELSE source_task
        /\ UNCHANGED <<pending_event, ret>>

\* The part of java_source_perform_seek that makes the loop give up.
SourceGivesUp ==
    /\ source_result' = "WRONG_STATE"
    /\ UNCHANGED <<pending_event, source_task, spc, ret>>

\* The part behind the STREAM_LOCK: the position is set (unless the
\* connection refused it), the flush ends and the task starts again.
SourceSeeks(accepted) ==
    /\ SourceParked
    /\ pending_event' = IF accepted THEN "NEWSEGMENT" ELSE pending_event
    /\ source_result' = "OK"
    /\ UNCHANGED <<source_task, spc, ret>>

SourceRestarts ==
    /\ source_task' = "started"
    /\ UNCHANGED <<source_result, pending_event, spc, ret>>

\* java_source_activatepush(FALSE): gst_pad_stop_task then waits.
SourceStops ==
    /\ source_result' = "WRONG_STATE"
    /\ source_task' = "stopped"
    /\ UNCHANGED <<pending_event, spc, ret>>
=============================================================================

------------------------- MODULE BusCallbackContent -------------------------
(***************************************************************************)
(* How a playback pipeline is torn down while its callbacks may still run. *)
(*                                                                         *)
(* The GStreamer bus watch does not hold the pipeline object but a small   *)
(* record, sBusCallbackContent, with a lock and three flags.  Three        *)
(* threads use it: the one that deletes the media (Dispose), the main      *)
(* loop that dispatches bus messages (BusCallback, and                     *)
(* BusCallbackDestroyNotify when GLib drops the watch), and a streaming    *)
(* thread that announces new pads (OnParserSrcPadAdded, on_pad_added,      *)
(* no_more_pads).  Nobody owns the record: whoever is last to use it has   *)
(* to free it.                                                             *)
(*                                                                         *)
(* CJfxCriticalSection is a recursive lock; `lock' is its owner.  What the *)
(* handlers do with the player is in PlaybackPipeline, which extends this  *)
(* module and refines Handle.                                              *)
(***************************************************************************)
EXTENDS Naturals

VARIABLES
    m_bIsDisposed, m_bIsDisposeInProgress, m_bFreeMe,
    lock,       \* owner of m_DisposeLock
    dispose,    \* where CMedia's destructor is
    bus,        \* where the main loop thread is
    pads,       \* where the streaming thread is
    watch,      \* the GSource: "attached" or "destroyed"
    freed,      \* how often the record has been deleted
    deleted     \* the pipeline object has been deleted

dvars == <<m_bIsDisposed, m_bIsDisposeInProgress, m_bFreeMe, lock, dispose,
           bus, pads, watch, freed, deleted>>

flags == <<m_bIsDisposed, m_bIsDisposeInProgress, m_bFreeMe>>

DisposeTypeOK ==
    /\ m_bIsDisposed \in BOOLEAN
    /\ m_bIsDisposeInProgress \in BOOLEAN
    /\ m_bFreeMe \in BOOLEAN
    /\ lock \in {"none", "dispose", "bus", "pads"}
    /\ dispose \in {"idle", "called", "stopping", "locking", "destroying",
                    "finishing", "freeing", "deleting", "done"}
    /\ bus \in {"idle", "entering", "handling", "stopping", "returning",
                "notified", "freeing", "gone"}
    /\ pads \in {"idle", "entering", "linking", "stopped"}
    /\ watch \in {"attached", "destroyed"}
    /\ freed \in Nat
    /\ deleted \in BOOLEAN

\* Init attaches the watch before it sets the pipeline to PAUSED.
DisposeInit ==
    /\ m_bIsDisposed = FALSE
    /\ m_bIsDisposeInProgress = FALSE
    /\ m_bFreeMe = FALSE
    /\ lock = "none"
    /\ dispose = "idle"
    /\ bus = "idle"
    /\ pads = "idle"
    /\ watch = "attached"
    /\ freed = 0
    /\ deleted = FALSE

-----------------------------------------------------------------------------
(* Dispose, on the thread that deletes the media.                          *)

\* The call, which waits for the lock that a handler or a pad callback holds.
CallDispose ==
    /\ dispose = "idle"
    /\ dispose' = "called"
    /\ UNCHANGED <<flags, lock, bus, pads, watch, freed, deleted>>

\* Mutant: the flag is set without the lock.
MarkUnlocked ==
    /\ dispose = "called"
    /\ m_bIsDisposeInProgress' = TRUE
    /\ dispose' = "stopping"
    /\ UNCHANGED <<m_bIsDisposed, m_bFreeMe, lock, bus, pads, watch, freed,
                   deleted>>

\* A critical section of its own: the lock is free again when the pipeline is
\* stopped.
MarkDisposeInProgress ==
    /\ dispose = "called"
    /\ lock = "none"
    /\ m_bIsDisposeInProgress' = TRUE
    /\ dispose' = "stopping"
    /\ UNCHANGED <<m_bIsDisposed, m_bFreeMe, lock, bus, pads, watch, freed,
                   deleted>>

\* Mutant: the pipeline is stopped without waiting for the pad callbacks.
StopPipelineNoWait ==
    /\ dispose = "stopping"
    /\ pads' = IF pads = "idle" THEN "stopped" ELSE pads
    /\ dispose' = "locking"
    /\ UNCHANGED <<flags, lock, bus, watch, freed, deleted>>

\* gst_element_set_state(NULL) returns when the streaming threads have ended.
StopPipeline ==
    /\ dispose = "stopping"
    /\ pads \in {"idle", "stopped"}
    /\ pads' = "stopped"
    /\ dispose' = "locking"
    /\ UNCHANGED <<flags, lock, bus, watch, freed, deleted>>

EnterDisposeLock ==
    /\ dispose = "locking"
    /\ lock = "none"
    /\ lock' = "dispose"
    /\ dispose' = "destroying"
    /\ UNCHANGED <<flags, bus, pads, watch, freed, deleted>>

\* BusCallbackDestroyNotify, called by g_source_destroy on this thread when
\* no dispatch holds the callback.  Dispose owns the lock already.
DestroySource ==
    /\ dispose = "destroying"
    /\ watch' = "destroyed"
    /\ IF bus = "idle" THEN m_bFreeMe' = TRUE /\ bus' = "gone"
                       ELSE UNCHANGED <<m_bFreeMe, bus>>
    /\ dispose' = "finishing"
    /\ UNCHANGED <<m_bIsDisposed, m_bIsDisposeInProgress, lock, pads, freed,
                   deleted>>

\* Mutant: the flag that hands the record to the bus thread is not set.
FinishDisposeUnmarked ==
    /\ dispose = "finishing"
    /\ lock' = "none"
    /\ dispose' = IF m_bFreeMe THEN "freeing" ELSE "deleting"
    /\ UNCHANGED <<flags, bus, pads, watch, freed, deleted>>

FinishDispose ==
    /\ dispose = "finishing"
    /\ m_bIsDisposed' = TRUE
    /\ lock' = "none"
    /\ dispose' = IF m_bFreeMe THEN "freeing" ELSE "deleting"
    /\ UNCHANGED <<m_bIsDisposeInProgress, m_bFreeMe, bus, pads, watch, freed,
                   deleted>>

FreeContent ==
    /\ dispose = "freeing"
    /\ freed' = freed + 1
    /\ dispose' = "deleting"
    /\ UNCHANGED <<flags, lock, bus, pads, watch, deleted>>

\* CMedia::~CMedia deletes the pipeline object once Dispose has returned.
DeletePipeline ==
    /\ dispose = "deleting"
    /\ deleted' = TRUE
    /\ dispose' = "done"
    /\ UNCHANGED <<flags, lock, bus, pads, watch, freed>>

DisposeStep ==
    \/ CallDispose \/ MarkDisposeInProgress \/ StopPipeline
    \/ EnterDisposeLock \/ DestroySource \/ FinishDispose \/ FreeContent
    \/ DeletePipeline

-----------------------------------------------------------------------------
(* The main loop thread.                                                   *)

\* g_main_dispatch takes a reference to the callback and calls it.
Dispatch ==
    /\ bus = "idle"
    /\ watch = "attached"
    /\ bus' = "entering"
    /\ UNCHANGED <<flags, lock, dispose, pads, watch, freed, deleted>>

\* Mutant: the early return keeps the lock.
BusCallbackKeepsLock ==
    /\ bus = "entering"
    /\ lock = "none"
    /\ IF m_bIsDisposed \/ m_bIsDisposeInProgress
         THEN bus' = "returning" /\ lock' = "bus"
         ELSE bus' = "handling" /\ lock' = "bus"
    /\ UNCHANGED <<flags, dispose, pads, watch, freed, deleted>>

BusCallback ==
    /\ bus = "entering"
    /\ lock = "none"
    /\ IF m_bIsDisposed \/ m_bIsDisposeInProgress
         THEN bus' = "returning" /\ UNCHANGED lock
         ELSE bus' = "handling" /\ lock' = "bus"
    /\ UNCHANGED <<flags, dispose, pads, watch, freed, deleted>>

\* A fatal error is handled by stopping the pipeline, with the lock held.
ErrorStops ==
    /\ bus = "handling"
    /\ bus' = "stopping"
    /\ UNCHANGED <<flags, lock, dispose, pads, watch, freed, deleted>>

ErrorStopped ==
    /\ bus = "stopping"
    /\ pads \in {"idle", "stopped"}
    /\ pads' = "stopped"
    /\ bus' = "handling"
    /\ UNCHANGED <<flags, lock, dispose, watch, freed, deleted>>

HandlerReturns ==
    /\ bus = "handling"
    /\ lock' = "none"
    /\ bus' = "returning"
    /\ UNCHANGED <<flags, dispose, pads, watch, freed, deleted>>

\* The dispatch drops its reference; it was the last one if the watch has
\* been destroyed meanwhile.
DropReference ==
    /\ bus = "returning"
    /\ bus' = IF watch = "destroyed" THEN "notified" ELSE "idle"
    /\ UNCHANGED <<flags, lock, dispose, pads, watch, freed, deleted>>

BusCallbackDestroyNotify ==
    /\ bus = "notified"
    /\ lock = "none"
    /\ IF m_bIsDisposed
         THEN bus' = "freeing" /\ UNCHANGED m_bFreeMe
         ELSE bus' = "gone" /\ m_bFreeMe' = TRUE
    /\ UNCHANGED <<m_bIsDisposed, m_bIsDisposeInProgress, lock, dispose, pads,
                   watch, freed, deleted>>

FreeMeHere ==
    /\ bus = "freeing"
    /\ freed' = freed + 1
    /\ bus' = "gone"
    /\ UNCHANGED <<flags, lock, dispose, pads, watch, deleted>>

BusStep ==
    \/ Dispatch \/ BusCallback \/ ErrorStops \/ ErrorStopped
    \/ HandlerReturns \/ DropReference \/ BusCallbackDestroyNotify
    \/ FreeMeHere

-----------------------------------------------------------------------------
(* The streaming thread that adds pads.                                    *)

PadAdded ==
    /\ pads = "idle"
    /\ pads' = "entering"
    /\ UNCHANGED <<flags, lock, dispose, bus, watch, freed, deleted>>

OnParserSrcPadAdded ==
    /\ pads = "entering"
    /\ lock = "none"
    /\ IF m_bIsDisposeInProgress
         THEN pads' = "idle" /\ UNCHANGED lock
         ELSE pads' = "linking" /\ lock' = "pads"
    /\ UNCHANGED <<flags, dispose, bus, watch, freed, deleted>>

PadLinked ==
    /\ pads = "linking"
    /\ lock' = "none"
    /\ pads' = "idle"
    /\ UNCHANGED <<flags, dispose, bus, watch, freed, deleted>>

\* A call that had passed its tests when the error came starts the stopped
\* pipeline again.
PipelineRestarts ==
    /\ pads = "stopped"
    /\ dispose \in {"idle", "called"}
    /\ pads' = "idle"
    /\ UNCHANGED <<flags, lock, dispose, bus, watch, freed, deleted>>

PadStep == PadAdded \/ OnParserSrcPadAdded \/ PadLinked \/ PipelineRestarts

DisposeNext == DisposeStep \/ BusStep \/ PadStep

DisposeProtocol == DisposeInit /\ [][DisposeNext]_dvars

-----------------------------------------------------------------------------
(* Properties.                                                             *)

\* The record is deleted once, by whichever of Dispose (line 414) and
\* BusCallbackDestroyNotify (line 1475) comes last, and no thread that still
\* has to enter the lock or read a flag finds it deleted: a waiting
\* BusCallback, a pad callback, the notification and Dispose itself all come
\* before the delete.
FreedLast ==
    freed > 0 => /\ freed = 1
                 /\ bus = "gone"
                 /\ pads = "stopped"
                 /\ dispose \in {"deleting", "done"}

\* The pipeline object outlives every handler that works on it.
HandlerHasPipeline ==
    bus \in {"handling", "stopping"} \/ pads = "linking" => ~deleted

\* Nobody uses what is gone: neither the record nor the pipeline object.
RecordSafe == FreedLast /\ HandlerHasPipeline

\* The deadlock of the teardown on error: the bus thread stops the pipeline
\* with m_DisposeLock held while the streaming thread waits for that lock.
ErrorMeetsPads == bus = "stopping" /\ pads = "entering"
=============================================================================

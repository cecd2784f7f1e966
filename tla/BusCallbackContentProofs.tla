---------------------- MODULE BusCallbackContentProofs ----------------------
(***************************************************************************)
(* The dispose protocol of BusCallbackContent is safe for behaviours of    *)
(* any length: the record is freed once, after its last use, and no        *)
(* handler outlives the pipeline object.                                   *)
(***************************************************************************)
EXTENDS BusCallbackContent, TLAPS

\* Who owns m_DisposeLock.
LockOwners ==
    /\ lock = "dispose" <=> dispose \in {"destroying", "finishing"}
    /\ lock = "bus" <=> bus \in {"handling", "stopping"}
    /\ lock = "pads" <=> pads = "linking"

\* What is true since Dispose has set its first flag, and since it has stopped the
\* pipeline: no handler runs, and no streaming thread is left.
Closing ==
    /\ m_bIsDisposeInProgress <=> dispose \notin {"idle", "called"}
    /\ dispose \notin {"idle", "called"} => bus \notin {"handling", "stopping"}
    /\ dispose \notin {"idle", "called", "stopping"} => pads = "stopped"
    /\ m_bIsDisposed <=> dispose \in {"freeing", "deleting", "done"}
    /\ deleted <=> dispose = "done"

\* The watch and the thread that still may use the record.
Watching ==
    /\ watch = "destroyed" <=> dispose \in {"finishing", "freeing", "deleting",
                                            "done"}
    /\ bus \in {"notified", "freeing", "gone"} => watch = "destroyed"
    /\ bus = "idle" => watch = "attached"

\* Whose turn it is to free the record.
Freeing ==
    /\ m_bFreeMe => bus = "gone"
    /\ freed > 0 => bus = "gone" /\ dispose \in {"deleting", "done"}
    /\ freed <= 1
    /\ dispose = "freeing" => m_bFreeMe
    /\ bus = "freeing" => m_bIsDisposed /\ dispose # "freeing"
    /\ m_bFreeMe /\ dispose \in {"deleting", "done"} => freed = 1

DisposeInv ==
    DisposeTypeOK /\ LockOwners /\ Closing /\ Watching /\ Freeing

LEMMA DisposeInvInit == DisposeInit => DisposeInv
<1> SUFFICES ASSUME DisposeInit PROVE DisposeInv
  OBVIOUS
<1>1. freed \in Nat /\ freed <= 1 /\ ~(freed > 0)
  BY SMT DEF DisposeInit
<1>2. LockOwners /\ Watching
  BY SMT DEF DisposeInit, LockOwners, Watching
<1>3. DisposeTypeOK /\ Closing /\ Freeing
  BY <1>1, Zenon DEF DisposeInit, DisposeTypeOK, Closing, Freeing
<1>4. QED
  BY <1>1, <1>2, <1>3 DEF DisposeInv

LEMMA DisposeStepInv ==
  DisposeInv /\ DisposeStep => DisposeInv'
<1> SUFFICES ASSUME DisposeInv, DisposeStep PROVE DisposeInv'
  OBVIOUS
<1> USE DEF DisposeInv, DisposeTypeOK, LockOwners, Closing, Watching, Freeing,
            flags
<1>1. CASE MarkDisposeInProgress
  BY <1>1, SMT DEF MarkDisposeInProgress
<1>2. CASE StopPipeline
  BY <1>2, SMT DEF StopPipeline
<1>3. CASE EnterDisposeLock
  BY <1>3, SMT DEF EnterDisposeLock
<1>4. CASE DestroySource
  <2>1. CASE bus = "idle"
    BY <1>4, <2>1, SMT DEF DestroySource
  <2>2. CASE bus # "idle"
    BY <1>4, <2>2, SMT DEF DestroySource
  <2>3. QED
    BY <2>1, <2>2
<1>5. CASE FinishDispose
  BY <1>5, SMT DEF FinishDispose
<1>6. CASE FreeContent
  BY <1>6, SMT DEF FreeContent
<1>7. CASE DeletePipeline
  BY <1>7, SMT DEF DeletePipeline
<1>8. CASE CallDispose
  BY <1>8, SMT DEF CallDispose
<1>9. QED
  BY <1>1, <1>2, <1>3, <1>4, <1>5, <1>6, <1>7, <1>8 DEF DisposeStep

LEMMA BusStepInv ==
  DisposeInv /\ BusStep => DisposeInv'
<1> SUFFICES ASSUME DisposeInv, BusStep PROVE DisposeInv'
  OBVIOUS
<1> USE DEF DisposeInv, DisposeTypeOK, LockOwners, Closing, Watching, Freeing,
            flags
<1>1. CASE Dispatch
  BY <1>1, SMT DEF Dispatch
<1>2. CASE BusCallback
  BY <1>2, SMT DEF BusCallback
<1>3. CASE ErrorStops
  BY <1>3, SMT DEF ErrorStops
<1>4. CASE ErrorStopped
  BY <1>4, SMT DEF ErrorStopped
<1>5. CASE HandlerReturns
  BY <1>5, SMT DEF HandlerReturns
<1>6. CASE DropReference
  BY <1>6, SMT DEF DropReference
<1>7. CASE BusCallbackDestroyNotify
  BY <1>7, SMT DEF BusCallbackDestroyNotify
<1>8. CASE FreeMeHere
  BY <1>8, SMT DEF FreeMeHere
<1>9. QED
  BY <1>1, <1>2, <1>3, <1>4, <1>5, <1>6, <1>7, <1>8 DEF BusStep

LEMMA PadStepInv ==
  DisposeInv /\ PadStep => DisposeInv'
<1> SUFFICES ASSUME DisposeInv, PadStep PROVE DisposeInv'
  OBVIOUS
<1> USE DEF DisposeInv, DisposeTypeOK, LockOwners, Closing, Watching, Freeing,
            flags
<1>1. CASE PadAdded
  BY <1>1, SMT DEF PadAdded
<1>2. CASE OnParserSrcPadAdded
  BY <1>2, SMT DEF OnParserSrcPadAdded
<1>3. CASE PadLinked
  BY <1>3, SMT DEF PadLinked
<1>4. CASE PipelineRestarts
  BY <1>4, SMT DEF PipelineRestarts
<1>5. QED
  BY <1>1, <1>2, <1>3, <1>4 DEF PadStep

LEMMA DisposeInvNext == DisposeInv /\ [DisposeNext]_dvars => DisposeInv'
<1>1. DisposeInv /\ UNCHANGED dvars => DisposeInv'
  BY SMT DEF dvars, DisposeInv, DisposeTypeOK, LockOwners, Closing, Watching,
             Freeing
<1>2. QED
  BY <1>1, DisposeStepInv, BusStepInv, PadStepInv DEF DisposeNext

LEMMA DisposeInvFacts == DisposeInv => FreedLast /\ HandlerHasPipeline
  BY SMT DEF DisposeInv, DisposeTypeOK, LockOwners, Closing, Watching, Freeing,
             FreedLast, HandlerHasPipeline

\* The inductive invariant holds throughout the protocol.
THEOREM ProtocolInv == DisposeProtocol => []DisposeInv
  BY DisposeInvInit, DisposeInvNext, PTL DEF DisposeProtocol

\* Dispose and BusCallbackDestroyNotify free the record once, every thread is
\* done with it by then, and no handler works on a deleted pipeline.
THEOREM RecordIsSafe == DisposeProtocol => []RecordSafe
<1>1. DisposeInv => RecordSafe
  BY DisposeInvFacts DEF RecordSafe
<1> QED BY <1>1, ProtocolInv, PTL
=============================================================================
